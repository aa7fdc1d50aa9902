# Verification of the DroneGod Core

TLA+ models, TLC runs and TLAPS proofs for the part of this repository that decides **who may command which
aircraft**: the mission engine, the command authority of the Go core, the retries of its commands, the way a command and a
failsafe reach one drone, the Return after a mission, and the durable mission record; and for the 3D map of the cockpit, on which a click is a GOTO.

Contents: [the system](#the-system) · [modules](#modules) · [runs](#runs) · [proofs](#proofs) ·
[findings](#findings) · [not modelled](#what-is-not-modelled) · [plan](#plan)

## The system

A Qt cockpit (`src/frontend/swarmgod_gui`) talks gRPC to a Go core (`src/backend`), which owns one MAVLink link
per drone. Operators give manual commands (TAKEOFF, GOTO, HOLD, RTL, LAND, DISARM, E-STOP, KILL), run one mission at a
time on the core, and fly swarm formations. The core must never let two authorities write to one aircraft, and
must neither resume nor forget a mission after a crash
(`docs/MISSION_CORE_CUTOVER_CONTRACT.md`, part B).

| component | state it keeps | operations | hard behaviours | what makes it correct |
|---|---|---|---|---|
| **mission engine** `backend/internal/mission` (engine, authority, grouped_multi, separate, swarm_leader, return_policy) | the one `Run`: state, revision, indexes, claim markers, WAIT deadlines, arrivals, membership, Return | `Start`, `Observe`, `Poll`, `Next*Intent`, `Note*`, `Cancel`, `Interrupt`, takeovers, `ClaimReturnIntent`, `CompleteReturn` | late results and cancels of earlier runs; telemetry between advance and dispatch; timers against new legs; succession | a command is issued once per index, in order; barriers wait for everybody; an ended run stays ended |
| **command authority** `backend/internal/api` (server, mission, command_reservation, grouped dispatch) | reservations and leases, the send slot and its generation, the ownership lock `missionDispatchMu` | unary and batch commands, takeovers, dispatch, CancelMission, failsafe interrupt, swarm RETURN/STOP | transport writes run with the lock released; batches overtake each other; late unwinding sends | one writer per drone; the strongest newest command wins; no write after revocation |
| **mission persistence** `api/mission_persistence.go`, `mission/persistence.go`, `store` | last record, run sequence, operation table; the durable revision in memory | StartMission's lookup/allocate/start, save, durability check, restore, acknowledge | crash between any two steps; save that fails or commits with an error; interleaved saves | an operation flies once; nothing resumes by itself; nothing that flew is forgotten |
| **mission Return dispatch** `api/mission_return_dispatch.go` | the batch of Return leases, where its goroutine is | save, claim, RTL one by one, settle; delegate to the swarm manager, await its result | latches and reservations read before the writes; the Return ends at any step of it | a revoked Return is silent; completed means home; no lease leaks; it ends |
| **swarm manager** `internal/swarm` | RETURN sequence; also leader, formation, navigation epoch | RETURN in phases with a fallback, STOP; SetFormation, succession | a sequence or loop tick computed before a revocation | a revoked sequence writes nothing |
| **fleet and drones** `internal/fleet`, the stages of a command in `command/service.go` | failsafe latches, `sendMu`, `pendingAcks`; also links and RC override | staged commands with ACK waits, failsafe RTL, geofence pull; connect | lost and late ACKs, timeouts under a lock, a latch between check and write | an ACK answers its own command; nothing automatic ends a failsafe RTL; every command returns |
| **command service and idempotency** `internal/command` | table of request results, per batch and per drone | `do`, sweep | retry racing the original, panic, expiry | one send per drone and request; an answer covers the batch; no waiter is left behind |
| payload actions, group waves `mission/payload_action.go`, `wave.go` | action or phase token, deadline | begin, result, timeout | stale results | a stale result changes nothing |
| safety envelope `internal/safety` | none | checks of one snapshot | floating-point geometry | a unit test's matter |
| events, telemetry, audit | channels, last samples | publish, subscribe | a full buffer drops an alarm | – |
| accounts, configuration, MAVLink codec | tables, files | CRUD, parsing | none between steps | – |
| **3D map** `swarmgod_gui/assets/map3d/terrain.js` | tile records, meshes on screen, origin, view, markers, ground of home | fetch, drop, pan, focus, `setOrigin`, `setDrones`, `pick` | a fetch ends after its tile, or the origin, has changed | a click flies where the ground shows; memory is given back |
| cockpit command ledger, mission shadow `swarmgod_gui/core` | in-flight slots, mission ownership as the cockpit believes | begin, settle, StartMission reply | lost or late replies | the cockpit never flies what the core owns |
| cockpit user interface | widgets | – | – | – |

How they interact: an RPC handler takes `missionDispatchMu`, consults `Engine` and the reservations, and leaves with a
*lease* or *claim*; it unlocks and calls the command service, which sends through `fleet`; the drone's
send function re-checks the guard of the lease just before the write. The mission observer goroutine ticks, feeds
telemetry to `Engine.Observe`/`Poll`, saves a changed revision, and dispatches. Alarms from `fleet`, via the event bus,
interrupt the run under the same lock.

The list of hazards (`PROJECT.json`, "hazards") places each hard behaviour at its line and names the property that
covers it, or says why none does.

## Modules

| module | what it is |
|---|---|
| `MissionContract` | abstract specification: what a mission engine promises whatever the mode |
| `ReservationTable` | abstract specification: who holds each drone, how strongly, and which guards are open |
| `FlightLedger` | abstract specification: who flew, for which operation, in which process of Core, on whose record |
| `MissionEngine` | the engine, one action per exported method; refines `MissionContract` |
| `CommandAuthority` | who writes to a flight controller, one action per critical section or write |
| `MissionPersistence` | the durable record, one action per step another goroutine or a crash can fall between |
| `Idempotency` | retries of one request: the table of the batch's and the drones' keys |
| `MissionReturn` | the Return that follows a mission: dispatchers, leases, the swarm manager's sequence, and who may end it |
| `DroneCommands` | the commands of one drone and its failsafe, from the service's stages to the flight controller |
| `Terrain` | the streamed ground of the 3D map, one action per callback or call from the cockpit |
| `MC…` | the instances TLC checks |
| `…Proofs` | theorems and proofs |

`MissionEngine`, `CommandAuthority` and `MissionPersistence` overlap on purpose and each reduces the others to what it needs: `CommandAuthority` knows of
a run only whether it lives, whom it owns and whether its index is unclaimed; `MissionPersistence` only
whether it is active and its revision. In each module a definition whose comment starts with *Deviation* is the next one
with a plausible mistake; the model does not use it, it exists so that every property can be shown to notice a mistake.

### The abstract specifications

| detailed module | implements | the mapping |
|---|---|---|
| `MissionEngine` | `MissionContract` (`ContractKept`) | the run's id; its state as none, active, returning or ended; the intents of the last call as an order; whether a RETURN was ever among them |
| `CommandAuthority` | `ReservationTable` (`TableKept`) | `holder` is `held`, `rank` the priority behind it, `active` the serials of the batches in flight, `open` their guards |
| `MissionReturn` | `ReservationTable` (`TableKept`) | `holder` is `held`; the leases are the dispatchers that have claimed a batch, every operator's command is *Outside* and stronger; `open` are the guards of the batches |
| `MissionPersistence` | `FlightLedger` (`LedgerKept`) | `process` is the session, `log` the claims, `closed` the runs that ended or were acknowledged in view |

`ReservationTable` is one promise with two implementations, because both a batch of operator commands and a mission's own
Return live in `Server.reservations`: an acceptance goes to an intent at least as strong, shuts the guards before it in the
same step, and who lost a drone neither writes to it nor frees it. A lease that ends (`releaseLease`, late or not) is `GiveBack` or `Retire`, an
acceptance `Grant`, a takeover that ends a batch `Seize`. `FlightLedger` says what any order of retries, saves, crashes and
restarts leaves true of flying; it admits the one way in which the code flies a run before its own record is safe
([finding 4](#findings)), and confines it: the record that was checked is of an older run that is over.

### MissionEngine

Every method of `Engine` holds `Engine.mu` from its first to its last line, so one method is one action, and its
`run'` collects everything it assigns, the trailing transitions included (each takes a revision, as `transitionLocked`
does). Correspondence of the state:

* `run.idx[s]` is `currentIndex` (scope 0) and `sepIndex[d]` (scope d); `run.claimed[s]` the claim marker of the
  profile (`lastIntentIndex`, the group marker, the per-drone one), so a group's targets are frozen iff `claimed = idx`;
* `run.wait[s]` is the index whose WAIT is being held. A deadline is not a number: `Poll` may find any pending WAIT due;
* `out` and `sent` are history: the intents the last call returned, and those before. `named` is the run id the last call named, for
  properties about late calls;
* IDLE, VALIDATING, READY, CANCELLING are entered and left inside one method: they appear as revisions only;
* `deploy` is the set of `Enable*Authority` switches. Only `core-single` and `core-single-wait` have a live token in
  `cmd` / `api/server.go:234-258`; the others are Engine opt-ins with their own tests and are checked alike.

Abstracted: coordinates and radii (a sample is inside the radius or not), sample freshness, texts, owners and
timestamps; the geometry behind `SeparateRouteConflicts`; the evidence kept of a leader's telemetry before its promotion;
a rejection is reported once per index. A second `Start` of an active run under its own operation and plan changes
nothing and is part of `Start`. Restoring a recorded run is in `MissionPersistence`. `arrived` is in the durable
record but takes no revision of its own (a group re-observes arrivals), so `RevisionBoundary` does not speak of it.

### CommandAuthority

`clock` numbers the accepted intents, so "older" is a comparison. `held[d]` is `Server.reservations`, `cmds` the
batches in flight with the guards (`open`) and the targets they already began; `slot`, `gen` and `sends` are the
single-flight slot, the generation that owns it, and the sends in flight with their guards. A transport write
(`MissionWrite`, `CommandWrite`, `ReturnWrite`) is an action of its own and needs only its guard, as in
`drone.go`, where no ownership lock is held. `wrote` records the write of the last step; `lost` marks a send whose run an
operator or failsafe has taken away, `heirs` the leaders by succession.

The observer goroutine sends synchronously for `single` and `swarm` runs (`ObserverIdle`); a group's sends are
goroutines of their own; StartMission's own dispatch is a further caller (`rpc`). A process serves one authority profile,
so its runs have one mode. A takeover of several swarm drones is one aggregate step that may always end in "no eligible
successor". TAKEOFF is a normal batch: its rollback LAND is one more write under the same lease.

### MissionPersistence

StartMission is three steps, a save is capture, write and failure handling, a dispatch is save, check and claim; the
crash may fall between any two and forgets everything but `db`. A store transaction is atomic, may fail, and may commit
while an error is reported. "Active" covers a live run and one whose Return is pending. Out of it: corrupted or
incompatible records and `DeleteMissionRecord`, and runs without operation id.

### Idempotency

A batch RPC goes through `idemStore.do` twice: under its request's key, and inside it under each drone's. `call[c]` is
where a call's goroutine is, `entry` the table (`flight` is an entry with an open `done` channel, `by` its owner).
The lookup (`Ask`: sweep, then wait, replay or own), the completion (`SendReturns`, `FinishBatch`), and its panic
path (`Panic`, `Unwind`) are critical sections of `idemStore.mu`. `flights` and `handled` are history. A result is known by
the call that produced it; the clock is left out: results expire at any time, in the order they completed, and one that
has just expired may still be replayed, because `do` reads the time before it takes the lock. Left out: requests without an id
(never deduplicated), targets refused before their command, and what a panic does beyond the table: no interceptor of the
deployed server recovers it, so there it ends the process. What is checked is what `idempotency.go` itself promises of a panic.

### MissionReturn

The engine is reduced to its Return state and to whether the run still flies, an operator's command to whether it holds a drone.
`jobs[j]` is a goroutine that sends for the mission and then calls `dispatchReturnAuthority`; `pc` says where it is:

* `Ask`, `Save`, then one of `ClaimNothing`, `ClaimSuppressed`, `ClaimRtl`, `ClaimSwarm` are the early returns and the claim, one action per
  hold of `missionDispatchMu`. `Record` is the save of RETURNING; `Begin`, `RtlWrite`, `RtlAccepted`, `RtlFails` are `runClaimed` and the
  command of one participant; `Unregister`, `Release`, `Settle` are what follows the loop, each with the lock taken anew.
* `jobs[j].open` are the guards of the batch's leases that may still let a write pass, `held` is `Server.reservations`, `batch`
  is `missionReturnBatch`. `Invalidate` is `invalidateReturnLocked` after the engine's cancel.
* `seq` is the swarm manager's sequence in its phases: `stage`, `travel`, `land`, or `rtl` (`fallbackRTL`). `left` are the drones the
  phase has still to serve, `at` the one it waits for; `results` is the result channel, read by `Deliver`.
* Everything that may end a Return is an action: takeovers of its drones or of others, CancelMission, STOP, an
  operator's RETURN, a failed save, an alarm, a drone that is disconnected.

`rescues` are the drones to which `failsafeTick` has sent an RTL from a goroutine, `stuck` those whose `sendMu` it keeps because its
ACK is lost (`Stick`, at any time after the latch, also when the latch has cleared): a batch's RTL, the sequence's LAND or fallback RTL,
and a mission HOLD of such a drone wait for ever. A drone that was not armed gets no such RTL; it is one whose RTL never sticks.

History: `told` (drones whose RTL was accepted, or that landed), `revoked` (runs whose Return an operator's takeover or STOP or an
alarm ended), `wrote` (the run the last step wrote for), `unsaved`. Abstracted: drones are served in the order of their ids; positions,
waits and their length (a wait succeeds or fails at any time); what is saved; the guard and the context of `RevokeReturnNavigation` are
closed in one step (no write passes once the first is). Left out: formation navigation. Like the grouped profiles, Return policies are
Engine opt-ins that no deployment token enables yet (`api/mission_return_dispatch.go:13`).

### DroneCommands

`CommandAuthority` stops at the transport write; this module starts there. `call[p]` is a goroutine: a call of the command
service with the stages it has still to do (`todo`: TAKEOFF is mode, arm, takeoff; HOLD is at most mode, position), or a failsafe
RTL (`Rescues`). `Lock` is `sendCmd` up to the write, with `sendMu` and the channel in `pendingAcks`; `Send` is the write,
together with the guard that `guardedSend` and `DoIfFailsafeInactive` make atomic with it; `TakeAnswer` and `GiveUp` are the two
arms of the `select`, `Release` the deferred calls. A write that the context or the latch refuses (`Refuse`) is a failure like a refusal or a timeout, so an
arm that waited too long for `sendMu` is tried again. `LinkCheck`, `BattCheck` and `Herd` are the parts of `failsafeTick`. Only
`Guarded` commands look at the latch: an operator's RTL, LAND, TAKEOFF, DISARM, KILL may override a failsafe, by design.

The link and the flight controller are external: `up` is a queue that keeps its order, a message may be lost or refused, an ACK
is lost or arrives late. MAVLink names an ACK only by its MAV_CMD, so `Deliver` finds the channel by `Code`, which ARM, DISARM and
KILL share. The controller obeys a setpoint in GUIDED only. `current` and `rescued` are history: the failsafe RTLs of the latch
that holds now, and whether one was accepted since nobody took over. Left out: positions and the envelope's checks, RC override
and velocity streams (neither lock nor ACK), mode changes the controller makes by itself, the link's *delayed* level (it latches
nothing), reconnects.

### Terrain

The tile grid is a row and a place a column, so a scene coordinate is a column minus the origin's; a window is the columns within
`Radius`. `tiles` is the map of records, `shown` the meshes (with the origin under which each was placed), `loading` the fetches
of a height image in flight: `buildTile` runs up to its `await` with its caller, and its rest is `Loaded` or `LoadFailed`, in any
order and at any later time. `setOrigin` and `focus` call `ensureAround` in the same turn, the loop calls it every 500 ms
(`Refresh`). `Pan` is OrbitControls (external). Left out: imagery, markers' looks, trails, targets, exaggeration, the HUD.

## Runs

| run | instance | shows |
|---|---|---|
| `engine` | 3 drones, 6 plans of 2 waypoints (one drone without and with WAITs, a pair GROUPED, two pairs SEPARATE, a swarm of 3), all 12 deployments, 2 runs; ~39,000 states | commands advance, HOLD is in time, barriers, WAITs, membership and Return discipline; ends are final; late calls are inert; every change takes a revision; every WAIT ends; the contract is kept |
| `authority` | 3 drones, a single, a group and a swarm mission, commands on {1} or {1,2}, RETURN of {1}, HOLD and KILL, 3 intents, 2 runs; ~418,000 states | one writer per drone, newest and strongest wins as the reservation table says, a revoked send is silent, a late one is of a run that is over, the slot is freed |
| `persistence` | 2 operations (symmetric), 3 run ids, 2 sessions, 2 calls and 2 saves at once; ~3.0 million states | the flight ledger is kept (one flight per operation, no resume, no flight after the end), nothing forgotten, evidence only moves forward |
| `idempotency` | one request, a call and two retries, 2 drones, panics and expiry; ~18,700 states | one send per drone, whole answers, nobody waits in a circle, every call ends |
| `returns` | 3 drones, a pair that returns by RTL and a swarm of 3, two dispatchers, takeovers of {1} or {3}, RETURN of {2} or of all, one drone that may fail or leave, one run with two interventions or faults, or two runs with one; ~433,000 states | the Return has its drones to itself, is silent once revoked, keeps the reservation table, tells the truth about its end, ends once, makes no step back, and ends unless it waits behind a stuck failsafe RTL ([finding 5](#findings)) |
| `drone` | two calls among HOLD, mission RTL and TAKEOFF, one failsafe RTL, one geofence pull, lossy link; ~619,000 states | one ACK outstanding at a time, an answer is one's own, the failsafe prevails, every step is one nearer the end, every command returns |
| `terrain` | 3 tiles, radius 1, 2 origins, 1 drone, 2 moves of the view; ~99,000 states | what is on screen is true and freed, clicks and home's ground are honest, the loading settles |
| `late_send`, `stop_return`, `succession`, `dispatch_durable`, `drone_stuck` | smallest instance of each | the [findings](#findings): TLC's counterexample |

**Bounds.** `MaxRun = 2` (engine, authority): one run and a second one, which is what a late call or send of an earlier run needs; two
waypoints give one advance and one completion. Three drones are the smallest swarm in which a leader can be lost and a follower
remain beside the heir. `MaxIntent = 3` is a claim, a command and the one that overtakes it (or two overtaking
commands). Persistence has three ids because two racing calls of one operation and a third run are the case the operation
table exists for; two sessions are one crash. Its deadlock check is off because its bounds end behaviours (every
id used, no session left); `idempotency` has none either: every call is used once and ends. `engine` and `authority` are checked for deadlock.
Three calls are an owner, its retry, and one that inherits the key after a panic; two drones let a batch be cut in half.

`returns`: the observer and a sender are two dispatchers that may race for one Return; two runs are what a late dispatcher, result or
sequence of the first needs. `MaxActs = 3` counts starts, interventions and faults together: a Return is ended by one of them,
and a second falls between that and the end of its goroutines' unwinding; a failsafe whose RTL sticks is two of them. Deadlock is not checked: everything may come to rest.

`drone`: two calls are the one that holds `sendMu` and the one that waits, or the one that gave up and the next with its MAV_CMD;
the three kinds have a guarded stage with ACK, a guarded setpoint, and an unguarded sequence that overrides the failsafe. `Retries =
0` keeps the arm loop to one attempt, for the size of the run (with two it has over two million states); the violation run
has two, and the theorems hold for any number. One rescue is enough: the latches start at most one RTL each, and
a second one would only queue behind the first. `terrain`: windows of radius 1 around 0 and 2 share the middle tile only, so a tile can
be left, entered again, and re-fetched; two moves leave and come back. One rescue bounds the latches
that find the drone armed; a drone that is not armed may latch again. Both are checked for deadlock: `Refresh` and the failsafe
tick never stop.

**Fairness.** `engine`: a WAIT that is due is eventually polled: the observer ticks for as long as the process lives. `authority`: a
transport call returns, and its return is handled. `idempotency`: goroutines are
scheduled and a command returns or panics. Both are assumptions about the call: its context has a deadline, but a call that needs
`sendMu` waits for it without looking at the context, and behind a failsafe RTL that is stuck ([finding 5](#findings)) it waits for
ever. `SlotFreed` and `EveryCallEnds` are promises for calls that are not behind one; GOTO, the mission's usual send,
takes no `sendMu`, a HOLD that has to change the mode does. `drone`: Go runs every goroutine, a freed
mutex is handed on (Go's mutex leaves its normal mode for FIFO when a waiter starves), timers fire, and a message on the link ends
somewhere, received or lost. `returns`: goroutines are scheduled, every wait of theirs but the one for `sendMu` has a time limit (8 s, 45 s, ...), and
the result of a sequence, sent before its channel is closed, is received. The wait for `sendMu` has none, so nothing is assumed of a
goroutine or a sequence at the lock of a stuck drone (`AtLock`, `SendAtLock`, `SeqAtLock`), and `ReturnsSettle` excepts what waits there
(`JammedBatch`, `JammedReturn`, `JammedClaim`) as `EveryCommandReturns` excepts `Jammed`. `terrain`: the frame loop goes on and the browser ends every image load, one way or the other.
Nothing is assumed of operators, telemetry or
the interleaving of goroutines. A group stalled by a rejected GOTO stays stalled in the code (documented legacy
parity), so no liveness of completion is claimed.

**Mutants.** Each property of a passing run comes with a deviation that TLC must find to violate it, listed in
`PROJECT.json`; `ReturnAuthority`, which has five parts, with three, and `LedgerKept` with two (an active run that
survives a restart, an operation that is forgotten).

**What no run repeats.** Each module has a `TypeOK`; it is proved for every size, and the runs spend their time on the
other properties. `StrongerPrevails` is part of what `ReservationTable` promises, `OperationFliesOnce` and `NoAutoResume` of what
`FlightLedger` does; they stay as theorems in the words of the code's own comments.

## Proofs

All theorems hold for every value of the constants that satisfies the named assumptions: any set of drones, any plans,
any number of runs, intents, sessions, calls. Each proof module
proves one inductive invariant, in parts that build on each other; the engine's takes three, each on the one before. A
refinement is proved in three lemmas: the initial states map to initial states, each action maps to an action of the abstract
specification or to a stutter (a case per action, with the witnesses named), and the inductive invariant that this needs holds throughout.

* **`MissionEngineProofs`.** Invariant: types, plus *Led* (a swarm that navigates has a leader) and *Named* (the current
  run's id never exceeds `nextRunID`). The lemma *Evolution* says each step either starts a run with a newer id, or lets the
  current one evolve as `Evolves` allows; revisions, finality of ends and inertness of stale calls follow from it.
  For `EngineKeepsContract` one more invariant, *ReturnOnce*, ties the engine's Return claim to the contract's `returned`.
* **`MissionProgressProofs`.** *Course* says what a step does to the run: it starts one, leaves it where it is or ends it (*Steady*),
  passes waypoints (*Passed*), halts at one (*Halted*), claims, or hands over. `WaitsSound`, `MembershipSound` and `ReturnDiscipline`
  are inductive together with *Admitted* (the deployment accepts the plan, so a group and a swarm carry no WAIT: *NoWaiting*), *Resting*
  (a wait is held at a waypoint still to be passed), *Handed* (only a live swarm run is being handed over), *Unmixed* (only a swarm
  excludes drones) and *ReturnOnce*, and are shown course by course.
  *Orders* is the part about commands. What has been issued is told by the claim markers: *Bounded* (a live run's markers are not ahead of its
  indexes), *Known* (an issued GOTO is at or behind the marker of its scope, or its drone was taken over; likewise HOLD), *SentTo* (what
  a group has passed or claimed went to every participant), *Owned* (the intents remembered are of this run). A succession
  resets the marker; that repeats no command because the heir, who was never excluded, was sent nothing.
* **`CommandAuthorityProofs`.** *Leases*: serials are unique and at most `clock`, and a reservation always points to a command in
  flight. *Apart*: a reserved drone is not owned, heirs excepted. *Flight*: an open send carries the current generation and
  its drone is in the slot. *Silenced*: a lost send has a closed guard. Without *Leases* none of the command properties is
  inductive: a lease could be replaced by one with its own number. `RevocationSilences` assumes that no RETURN of
  the whole swarm is asked for; with one it is false ([known defects](#findings)). *Reached* (an open send of the live run is for a
  drone the run owns, which no command took since the send was claimed) gives `LateSendsAreOver`: what finding 1 shows, a run
  that was over before its send was shut, is the only way in which a mission write can come after a takeover. `CommandsKeepTheTable` rests on *Leases*: a release frees what is
  reserved under its own serial, so a late one frees nothing of its successor's.
* **`MissionPersistenceProofs`.** *Trusted* (what memory calls durable, the store has), *Ids* (ids in memory never
  exceed the sequence), *ThisSession* (claims of this process are of runs it accepted), *Stored* (a vouched claim's
  operation maps to its run in the table), *Remembered* (a flown run not settled is current or the recorded one), closed
  under crashes by *Closing*. For `CoreKeepsTheLedger`, *Endings* (the active run and ids not started yet have not ended; a save cleared for
  dispatch was checked for the current run or for one that ended) and *Flights* (what flew under the id of a record flew for its
  operation, and what flew on its own record is not newer than the stored one). All but two conditions of `Fly` follow from these;
  that nothing else is open comes from *Remembered*, that the operation flew no other run from *Operations*.
* **`IdempotencyProofs`.** *Owners* (a call that runs a batch or a command holds its keys in the table), *Flying* (a send that is
  neither excused by a panic nor expired is of its key's owner or of the call whose result is kept), *Passed* (a drone that a batch
  has passed, or whose result is kept, has been handled). `SentOnce` follows because a key has one owner. *Working* is the other
  direction of *Owners* (a key in flight is held by a call that is at work under it); whoever waits for a batch thus waits for a call that
  is inside it (between two drones, at the command of one, or unwinding), and whoever waits for a drone's command for one that is sending it: `WaitingIsForWork`.
* **`DroneCommandsProofs`.** For answers: *Mutex* (one goroutine between `Lock` and `Release`, and it holds `sendMu`), *Channels*
  (a channel is in `pendingAcks` exactly while its owner is there), *Matches* (an answer in a channel bears the
  MAV_CMD waited for), *Owned* and *Single* (of a MAV_CMD nobody gave up on, the commands and ACKs in flight are at most one, that of
  the write being waited for).
  `OwnAnswer` rests on `sendMu`: without it two writes of one MAV_CMD share a channel. For the failsafe: *RescueShape* and *RescueWrites*
  (what an RTL goroutine may be doing), *Latching* (a current rescue exists only under a latch), *Behind* (behind a rescue's RTL in the
  queue there is no guarded message, because its writer would have found the latch), *Prevails*. `OneCommandAtATime` adds *Registered*
  (the holder's channel is its own under the MAV_CMD it waits for). `EveryStepIsNearer` needs no fairness: a call changes only by a
  step of its own or by an answer put in its channel (*CallsAdvance*), and by its rank *Left* a stage or attempt weighs more
  than the steps of the next (*AfterIsNearer*).
* **`MissionReturnProofs`.** `ReturnAuthority` does not say who works on the registered batch or what is half-done, so it is not inductive.
  *Leases* (the registered batch is being worked on, a batch that is not has no open guard and no reservation), *Dated* (goroutines,
  sequence and results are of the current or an earlier run), *Silence* (a revoked run is over, and its batch and its sequence are shut),
  *Apart* (an open sequence keeps off a mission that returns by leases; a run returns in one way), *Home* (each drone of the
  run is still to be served, was brought home, or has left). One lemma per action. `ReturnEndsOnce` and `ReturnKeepsTheTable` follow
  from it: results and goroutines
  of an earlier run find another id, an ended run has no open batch, and a batch that is no longer registered holds
  nothing that a late release could free. `EveryStepNearerHome` adds *Served* (who is being served is still to be served), and
  the ranks `JobLeft` and `SeqLeft` are compared as numbers of drones (`Sizes`: cardinalities of subsets of a finite fleet).
* **`TerrainProofs`.** *LoadsOnce* (a tile not fetched twice at once has at most one fetch in flight, and none once its record is ok or
  failed), *Distinct*
  (meshes are told apart), `ShownOnce` itself, *PlacedNow* (the mesh of a record was placed under the present origin, since
  `setOrigin` drops all of them), *FirstOrigin* (until the origin moves, every mesh was placed under it, so the ground of home is).

| theorem | property |
|---|---|
| `TypeCorrect` (six modules), `ReturnTypes` | `TypeOK`, which no run repeats |
| `RevisionsMarkChanges`, `TheEndIsFinal`, `StaleCallsChangeNothing`, `EngineKeepsContract` | `RevisionBoundary`, `EndedIsFinal`, `StaleCallsInert`, `ContractKept` |
| `WaitsAreSound`, `MembershipIsSound`, `ReturnsAreDisciplined` | `WaitsSound`, `MembershipSound`, `ReturnDiscipline` |
| `CommandsAlwaysAdvance`, `HoldsAreInTime`, `GroupsWaitForAll` | `CommandsAdvance`, `HoldInTime`, `GroupBarrier` |
| `NewestCommandOnly`, `CommandExcludesMission`, `OneFlight`, `RevocationSilences`, `LateSendsAreOver` | `LatestCommandWins`, `Exclusive`, `SingleFlight`, `RevokedStaysSilent`, `LateOnlyAfterTheEnd` |
| `CommandsKeepTheTable`; `OnlyStrongerPrevails` | `TableKept` of `CommandAuthority`; `StrongerPrevails` |
| `EvidenceMovesForward`, `TrustIsBacked`, `FlownIsRemembered`, `CoreKeepsTheLedger` | `StoreMonotonic`, `PersistedIsStored`, `NeverForgotten`, `LedgerKept` |
| `NothingResumes`, `OneRunPerOperation` | `NoAutoResume`, `OperationFliesOnce` |
| `RetriesSendOnce`, `AnswersCoverTheBatch`, `WaitingIsForWork` | `SentOnce`, `AnswersAreWhole`, `NoCircularWait` |
| `ReturnHasAuthority`, `ReturnEndsOnce`, `ReturnKeepsTheTable`, `EveryStepNearerHome` | `ReturnAuthority`, `EndsOnce`, `TableKept` of `MissionReturn`, `NearerHome` |
| `AnswersAreOwn`, `FailsafeWins`, `OneCommandAtATime`, `EveryStepIsNearer` | `OwnAnswer`, `FailsafePrevails`, `OneOutstanding`, `NearerTheEnd` |
| `ScreenMatchesRecords`, `ClicksAreHonest`, `HomeGroundTrue` | `ShownOnce`, `ClickGoesWhereShown`, `HomeGroundHonest` |

Model-checked only: the liveness properties `HoldsEnd`, `SlotFreed`, `EveryCallEnds`, `EveryCommandReturns`, `ReturnsSettle` and `Settles` (liveness is out of the
prover's reach). Of `EveryCommandReturns` and `ReturnsSettle` the safety half is proved, that no step starts over (`NearerTheEnd`, `NearerHome`);
that a step is always enabled and taken stays with TLC. Every safety or action property a passing run checks is proved.

## Findings

Each is a run whose counterexample TLC prints; the quotations are in `PROJECT.json`.

1. `late_send` – `cancelMissionForOperatorTargetsLocked` (`api/server.go:344`) returns early when the run has already
   ended, leaving the guard of its in-flight send open: telemetry completes the run while a GOTO is still being sent, an
   operator's HOLD is accepted, and the older GOTO is written after it.
2. `stop_return` – a takeover such as E-STOP does not revoke an operator's swarm RETURN (`api/command_reservation.go:445`), although
   comments say so; RETURN keeps writing under the takeover's lease.
3. `succession` – a follower flown by a normal command can inherit the lead (`api/server.go:377`): a reservation and the
   mission own it together.
4. `dispatch_durable` – the durability check and the claim (`api/mission.go:337`) are two critical sections; the run
   claimed may be a newer one whose record was not saved yet. The persistence properties are therefore stated for
   claims whose run is the one that was checked (`Vouched`).
5. `drone_stuck` – the failsafe sends its RTL with the context of the process (`fleet/manager.go:417`, `:448`), which has no
   deadline. When the RTL or its ACK is lost, and a lost link is what sends it, the goroutine keeps `sendMu` for ever and
   every later command with an ACK, KILL and LAND included, waits behind it beyond its own timeout. The RTL or LAND of a mission's
   Return is one of them: its goroutine never comes back, the leases of its batch stay, and unless an operator or an
   alarm ends it the run stays RETURNING (each exception of `ReturnsSettle` is needed: without it TLC finds `returns` violated).

Known defects of the code that the models show or step around, without a run of their own:

* SwarmControl RETURN without `drone_ids` (`api/server.go:1077`) cancels the run but not its in-flight send, which still writes
  (`CommandAuthority` with `ReturnTargets = {{}}` violates `RevokedStaysSilent`).
* CancelMission (`api/mission.go:184`) and a persistence fault (`api/mission_persistence.go:137`) during a swarm Return suppress
  the engine's Return but do not call `RevokeReturnNavigation`, as takeovers, STOP and alarms do: the sequence goes on writing.
  `RevokedIsSilent` therefore speaks of the latter only.
* A save that fails in `missionDurableForReturnDispatch` (`api/mission_persistence.go:172`) suppresses the Return without the lock and
  closes no guard, so the batch another goroutine has claimed meanwhile goes on. A pending Return that was blocked by an earlier
  run's batch and whose save then failed is not retried by the tick; `ReturnsSettle` excepts runs after a failed save.
* `fallbackRTL` passes over a drone that has left the fleet (`swarm/manager.go:1013`), and the Return then reports success;
  `CompletedMeansHome` excepts drones that have left.
* A failsafe RTL that waits for `sendMu` may be written after the latch has cleared; one that was lost is never repeated.
* A late ACK of a command that gave up answers the next one with its MAV_CMD; ARM, DISARM and KILL share one.
* `terrain.js`: a tile fetched twice at once leaves its first mesh on screen for ever (`:212`); `setOrigin` resets neither `_homeG`
  nor `SCALE`; a failed tile is not retried while it stays in the window; `focusDrone` after `setOrigin` looks where the marker's old
  scene coordinate now points; `setExaggeration` forgets the clamp that keeps a marker above the ground (`:879`, `:483`).

## What is not modelled

Geometry, envelope and floating point (pure functions of one snapshot); transport and codec (I/O); accounts and
configuration (no protocol between steps); the Qt interface and what is only drawn on the map; group waves and payload actions
(wired to no live profile); what [remains](#plan).

Of the repository's five JavaScript files, `three.module.js`, `OrbitControls.js` and `leaflet.js` (56,100 lines) are third-party
libraries and `prototypes/map3d/scene.js` a prototype that `terrain.js` replaced; of `terrain.js`, the half with state is modelled and
the rest draws. The program's own logic is Go and Python, and that is where most of the models are.

## Plan

Done: `MissionContract`, `ReservationTable`, `FlightLedger`, `MissionEngine`, `CommandAuthority`, `MissionPersistence`, `Idempotency`, `MissionReturn`, `DroneCommands`,
`Terrain`, with their runs and theorems. What remains, most valuable first:

1. The formation loop of the swarm manager: its epoch, halt and succession, against RETURN, STOP and the mission's leader.
2. The rollback of a TAKEOFF batch, RC override, connect and reconnect.
3. The cockpit's command ledger and mission shadow: its slots and its belief of who owns the mission, against a lossy RPC. Two
   commands of one slot begun with `enforce_dedup=False` (`core/command_correlation.py:185`) let one reply settle the other.
4. Payload actions and group waves, when a live profile uses them.
