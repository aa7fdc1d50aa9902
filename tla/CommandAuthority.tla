---------------------------- MODULE CommandAuthority ----------------------------
(***************************************************************************)
(* Who may write to a flight controller (internal/api).  The ownership     *)
(* lock missionDispatchMu is held only while an intent is accepted; the    *)
(* transport writes happen later, with the lock released, each behind the  *)
(* guard of the lease, of the mission send or of the swarm RETURN it       *)
(* belongs to.  An action below is one critical section, or one write.     *)
(*                                                                         *)
(* Every accepted intent gets the next serial n of clock, so a smaller n   *)
(* is an older intent.  The mission engine is reduced to whether a run     *)
(* lives, whom it owns and whether its index is still unclaimed;           *)
(* MissionEngine is its full model.  Return policies of missions, the      *)
(* formation loop and durability are not part of this module.              *)
(*                                                                         *)
(* "Deviation" marks a definition that is the one after it with a          *)
(* plausible mistake.                                                      *)
(***************************************************************************)
EXTENDS Integers, FiniteSets

CONSTANTS
    Drones,        \* drone ids, positive integers
    Missions,      \* runs StartMission may be asked for (MissionType)
    NormalTargets, \* target sets of normal commands
    TakeoverTargets, \* target sets of takeovers
    ReturnTargets, \* drone_ids of swarm RETURN requests; {} is the whole swarm
    Takeovers,     \* the takeover commands operators use
    MaxIntent,     \* bound on the accepted intents of a behaviour
    MaxRun         \* bound on the runs of a behaviour

VARIABLES
    mission,  \* the engine's run
    rpc,      \* StartMission calls that still have to dispatch
    slot,     \* drones with a mission send of generation gen outstanding
    gen,      \* missionSendGen / missionGroupGen: the claim owning slot
    sends,    \* mission sends in flight
    cmds,     \* operator commands in flight, normal and takeover
    held,     \* Server.reservations: the command holding each drone, 0 none
    return,   \* the swarm RETURN sequence
    clock,    \* serial of the newest accepted intent
    heirs,    \* history: leaders this run has by succession
    wrote     \* history: the transport write of the last step

vars == <<mission, rpc, slot, gen, sends, cmds, held, return, clock, heirs,
          wrote>>

MissionType ==
    [mode: {"single", "group", "swarm"}, team: SUBSET Drones,
     leader: {0} \cup Drones]

Priority == [hold |-> 10, rtl |-> 20, land |-> 30, disarm |-> 35,
             stop |-> 40, kill |-> 50, normal |-> 0]

ASSUME DroneAssumption == Drones \subseteq Nat \ {0} /\ IsFiniteSet(Drones)
ASSUME MissionAssumption ==
    /\ Missions \subseteq MissionType
    /\ \A m \in Missions :
          /\ m.mode = "single" => Cardinality(m.team) = 1
          /\ m.mode = "swarm" => m.leader \in m.team
ASSUME TargetAssumption ==
    /\ NormalTargets \subseteq SUBSET Drones
    /\ TakeoverTargets \subseteq SUBSET Drones
    /\ ReturnTargets \subseteq SUBSET Drones
ASSUME TakeoverAssumption == Takeovers \subseteq DOMAIN Priority \ {"normal"}
ASSUME BoundAssumption == MaxIntent \in Nat /\ MaxRun \in Nat

NoMission == [id |-> 0, mode |-> "single", team |-> {}, leader |-> 0,
              live |-> FALSE, fresh |-> FALSE]
NoReturn == [n |-> 0, drones |-> {}, open |-> FALSE]
NoWrite == [by |-> "nobody", n |-> 0, drone |-> 0, lost |-> FALSE]

\* missionSnapshotOwnsDrone: only the leader of a SWARM_LEADER run is owned.
Owned(m) ==
    IF ~m.live THEN {} ELSE IF m.mode = "swarm" THEN {m.leader} ELSE m.team

Owns(d) == d \in Owned(mission)

\* The observer runs its sends itself, so it ticks only between them.
ObserverIdle == \A s \in sends : s.by # "observer"

Lease(d) == CHOOSE c \in cmds : c.n = held[d]
Rank(d) == IF held[d] = 0 THEN 0 ELSE Priority[Lease(d).kind]

-----------------------------------------------------------------------------
(* Pieces of the critical sections                                         *)

\* History: the run's sends to drones S are lost to an operator or a failsafe.
Lost(S) ==
    {IF s.run = mission.id /\ s.drone \in S THEN [s EXCEPT !.lost = TRUE] ELSE s :
        s \in sends}

\* Deviation: only the contexts are cancelled, the guards stay open.
LeftOpen(S) == S

Closed(S) == {IF s.n = gen THEN [s EXCEPT !.open = FALSE] ELSE s : s \in S}

\* Deviation: the slot waits for the cancelled send to unwind.
CancelKeepingSlot(S) ==
    /\ sends' = Closed(Lost(S))
    /\ slot' = slot
    /\ gen' = 0

\* cancelInflightMissionSendLocked: close every guard of the outstanding
\* sends, free the slot at once and leave the old generation behind.
CancelInflight(S) ==
    /\ sends' = Closed(Lost(S))
    /\ slot' = {}
    /\ gen' = 0

KeepInflight(S) ==
    /\ sends' = Lost(S)
    /\ UNCHANGED <<slot, gen>>

\* Deviation: the overtaken lease is replaced but its guard is not closed.
Replaced(T) == cmds

\* preemptLease on whatever command holds one of the targets T.
Preempted(T) ==
    {[c EXCEPT !.open = @ \ {d \in T : held[d] = c.n}] : c \in cmds}

Command(kind, T) ==
    [n |-> clock + 1, kind |-> kind, drones |-> T, begun |-> {}, open |-> T]

Over(m) == [m EXCEPT !.live = FALSE, !.fresh = FALSE]

Holding(T) == [d \in Drones |-> IF d \in T THEN clock + 1 ELSE held[d]]

Tick == clock < MaxIntent /\ clock' = clock + 1

Silent == wrote' = NoWrite

-----------------------------------------------------------------------------
(* Missions: start, dispatch, progress, end                                *)

\* Deviation: reservations are not looked at.
StartOverCommands(m) ==
    /\ mission.id < MaxRun
    /\ ~mission.live
    /\ mission.id = 0 \/ m.mode = mission.mode
    /\ m.mode # "swarm" => return.n = 0
    /\ mission' = [id |-> mission.id + 1, mode |-> m.mode, team |-> m.team,
                   leader |-> m.leader, live |-> TRUE, fresh |-> TRUE]
    /\ rpc' = rpc + 1
    /\ heirs' = {}
    /\ Silent
    /\ UNCHANGED <<slot, gen, sends, cmds, held, return, clock>>

\* A Core process serves one authority profile, so its runs have one mode.
StartMission(m) ==
    /\ mission.id < MaxRun
    /\ ~mission.live
    /\ mission.id = 0 \/ m.mode = mission.mode
    /\ m.mode # "swarm" => return.n = 0
    /\ \A d \in m.team : held[d] = 0
    /\ mission' = [id |-> mission.id + 1, mode |-> m.mode, team |-> m.team,
                   leader |-> m.leader, live |-> TRUE, fresh |-> TRUE]
    /\ rpc' = rpc + 1
    /\ heirs' = {}
    /\ Silent
    /\ UNCHANGED <<slot, gen, sends, cmds, held, return, clock>>

\* claimMissionSendLocked / claimGroupSendsLocked: single flight, one intent
\* per index, one guarded send per addressed drone.
CanClaim == mission.live /\ mission.fresh /\ slot = {}

Addressed == Owned(mission)

Claim(by) ==
    /\ CanClaim
    /\ Tick
    /\ mission' = [mission EXCEPT !.fresh = FALSE]
    /\ slot' = Addressed
    /\ gen' = clock + 1
    /\ sends' = sends \cup
          {[n |-> clock + 1, run |-> mission.id, drone |-> d,
            mode |-> mission.mode,
            by |-> IF mission.mode = "group" THEN "timer" ELSE by,
            open |-> TRUE, lost |-> FALSE, stage |-> "out"] : d \in Addressed}
    /\ Silent
    /\ UNCHANGED <<cmds, held, return, heirs>>

\* dispatchMissionAuthority at the end of StartMission and of a tick.
DispatchAtStart ==
    /\ rpc > 0
    /\ rpc' = rpc - 1
    /\ \/ Claim("rpc")
       \/ ~CanClaim /\ Silent /\
          UNCHANGED <<mission, slot, gen, sends, cmds, held, return, clock, heirs>>

DispatchAtTick == ObserverIdle /\ Claim("observer") /\ UNCHANGED rpc

MissionWrite(s) ==
    /\ s.stage = "out"
    /\ s.open
    /\ wrote' = [by |-> "mission", n |-> s.n, drone |-> s.drone, lost |-> s.lost]
    /\ UNCHANGED <<mission, rpc, slot, gen, sends, cmds, held, return, clock, heirs>>

\* Deviation: the generation is not compared.
FreedByAnySend(s) == slot \ {s.drone}

\* What the return of a send leaves of the slot.
Freed(s) == IF s.n = gen THEN slot \ {s.drone} ELSE slot

\* The send returned.  Only a send of the current generation frees its slot;
\* one that failed without being preempted still has to fail its run, if the
\* run is of the single-drone adapter.
SendReturns(s, ok) ==
    /\ s.stage = "out"
    /\ slot' = Freed(s)
    /\ sends' = (sends \ {s}) \cup
          IF ~ok /\ s.open /\ s.mode = "single"
          THEN {[s EXCEPT !.stage = "failing", !.open = FALSE]} ELSE {}
    /\ Silent
    /\ UNCHANGED <<mission, rpc, gen, cmds, held, return, clock, heirs>>

FailRun(s) ==
    /\ s.stage = "failing"
    /\ sends' = sends \ {s}
    /\ mission' = IF s.run = mission.id THEN Over(mission) ELSE mission
    /\ Silent
    /\ UNCHANGED <<rpc, slot, gen, cmds, held, return, clock, heirs>>

\* Telemetry or a WAIT timer moves the run to its next index or completes it.
\* A group is judged only against targets that were claimed.
Observe(done) ==
    /\ mission.live
    /\ ObserverIdle
    /\ mission.mode = "group" => ~mission.fresh
    /\ mission' = IF done THEN Over(mission) ELSE [mission EXCEPT !.fresh = TRUE]
    /\ Silent
    /\ UNCHANGED <<rpc, slot, gen, sends, cmds, held, return, clock, heirs>>

\* CancelMission; a run id other than the current one changes nothing.
CancelMission ==
    /\ mission.id > 0
    /\ mission' = Over(mission)
    /\ CancelInflight(Owned(mission))
    /\ Silent
    /\ UNCHANGED <<rpc, cmds, held, return, clock, heirs>>

\* A battery or link alarm of an owned drone.
Interrupt(d) ==
    /\ Owns(d)
    /\ mission' = Over(mission)
    /\ CancelInflight(mission.team)
    /\ Silent
    /\ UNCHANGED <<rpc, cmds, held, return, clock, heirs>>

-----------------------------------------------------------------------------
(* Operator commands                                                       *)

\* prepareNormalBatch, idempotentNormal: drones a run owns or another command
\* holds are rejected, the others are claimed.
Normal(T) ==
    LET S == {d \in T : held[d] = 0 /\ ~Owns(d)}
    IN /\ S # {}
       /\ Tick
       /\ held' = Holding(S)
       /\ cmds' = cmds \cup {Command("normal", S)}
       /\ Silent
       /\ UNCHANGED <<mission, rpc, slot, gen, sends, return, heirs>>

\* applySwarmMissionTakeoversLocked: the drones leave the swarm; an eligible
\* follower inherits the lead, or the mission is interrupted.
SwarmTakeover(S) ==
    LET rest == mission.team \ S
    IN \/ /\ mission.leader \notin S /\ Cardinality(rest) >= 2
          /\ mission' = [mission EXCEPT !.team = rest]
          /\ KeepInflight(S)
          /\ UNCHANGED heirs
       \/ /\ mission.leader \in S /\ Cardinality(rest) >= 2
          /\ \E h \in rest :
                /\ mission' = [mission EXCEPT !.team = rest, !.leader = h,
                                              !.fresh = TRUE]
                /\ heirs' = heirs \cup {h}
          /\ CancelInflight(S)
       \/ /\ mission' = Over([mission EXCEPT !.team = rest])
          /\ CancelInflight(mission.team)
          /\ UNCHANGED heirs

\* What accepting a takeover of S does to the mission.
TakeFromMission(S) ==
    \/ /\ mission.live /\ mission.mode = "swarm" /\ mission.team \cap S # {}
       /\ SwarmTakeover(S)
    \/ /\ mission.mode # "swarm"
       /\ \E d \in S : Owns(d)
       /\ mission' = Over(mission)
       /\ CancelInflight(mission.team)
       /\ UNCHANGED heirs
    \/ /\ IF mission.mode = "swarm" THEN ~mission.live \/ mission.team \cap S = {}
                                    ELSE \A d \in S : ~Owns(d)
       /\ KeepInflight({})
       /\ UNCHANGED <<mission, heirs>>

\* prepareTakeoverBatch, idempotentTakeover: only a stronger takeover in
\* progress refuses a target; every other holder is preempted.
Takeover(kind, T) ==
    LET S == {d \in T : Rank(d) <= Priority[kind]}
    IN /\ S # {}
       /\ Tick
       /\ cmds' = Preempted(S) \cup {Command(kind, S)}
       /\ held' = Holding(S)
       /\ TakeFromMission(S)
       /\ Silent
       /\ UNCHANGED <<rpc, return>>

\* runClaimed: the command checks that it still is the drone's current one and
\* goes on to send; the lock is free again when it writes.
Begin(c, d) ==
    /\ d \in c.drones \ c.begun
    /\ held[d] = c.n
    /\ cmds' = (cmds \ {c}) \cup {[c EXCEPT !.begun = @ \cup {d}]}
    /\ Silent
    /\ UNCHANGED <<mission, rpc, slot, gen, sends, held, return, clock, heirs>>

Passes(c, d) == d \in c.open

CommandWrite(c, d) ==
    /\ d \in c.begun
    /\ Passes(c, d)
    /\ wrote' = [by |-> "command", n |-> c.n, drone |-> d, lost |-> FALSE]
    /\ UNCHANGED <<mission, rpc, slot, gen, sends, cmds, held, return, clock, heirs>>

\* Deviation: everything the command once held is freed.
ReleasedAll(c) == [d \in Drones |-> IF d \in c.drones THEN 0 ELSE held[d]]

\* releaseLease frees only what the command still holds.
Released(c) == [d \in Drones |-> IF held[d] = c.n THEN 0 ELSE held[d]]

Finish(c) ==
    /\ cmds' = cmds \ {c}
    /\ held' = Released(c)
    /\ Silent
    /\ UNCHANGED <<mission, rpc, slot, gen, sends, return, clock, heirs>>

-----------------------------------------------------------------------------
(* SwarmControl RETURN and STOP                                            *)

\* A RETURN without drone_ids is for the whole swarm.
Scope(T) == IF T = {} THEN Drones ELSE T

CancelForReturn(T) ==
    \/ /\ T = {} /\ mission.live
       /\ mission' = Over(mission)
       /\ KeepInflight(mission.team)
    \/ /\ \E d \in T : Owns(d)
       /\ mission' = Over(mission)
       /\ CancelInflight(mission.team)
    \/ /\ IF T = {} THEN ~mission.live ELSE \A d \in T : ~Owns(d)
       /\ KeepInflight({})
       /\ UNCHANGED mission

\* ReturnAndLand may still refuse after the mission has been cancelled.
SwarmReturn(T, accepted) ==
    /\ \A d \in Scope(T) : held[d] = 0
    /\ accepted => return.n = 0
    /\ Tick
    /\ CancelForReturn(T)
    /\ return' = IF accepted
                 THEN [n |-> clock + 1, drones |-> Scope(T), open |-> TRUE]
                 ELSE return
    /\ Silent
    /\ UNCHANGED <<rpc, cmds, held, heirs>>

ReturnWrite(d) ==
    /\ return.open
    /\ d \in return.drones
    /\ wrote' = [by |-> "return", n |-> return.n, drone |-> d, lost |-> FALSE]
    /\ UNCHANGED <<mission, rpc, slot, gen, sends, cmds, held, return, clock, heirs>>

ReturnEnds ==
    /\ return.n # 0
    /\ return' = NoReturn
    /\ Silent
    /\ UNCHANGED <<mission, rpc, slot, gen, sends, cmds, held, clock, heirs>>

\* RevokeReturnNavigation: no RETURN write after this, the sequence unwinds.
SwarmStop ==
    /\ return.n # 0
    /\ return' = [return EXCEPT !.open = FALSE]
    /\ Silent
    /\ UNCHANGED <<mission, rpc, slot, gen, sends, cmds, held, clock, heirs>>

-----------------------------------------------------------------------------

Init ==
    /\ mission = NoMission
    /\ rpc = 0
    /\ slot = {}
    /\ gen = 0
    /\ sends = {}
    /\ cmds = {}
    /\ held = [d \in Drones |-> 0]
    /\ return = NoReturn
    /\ clock = 0
    /\ heirs = {}
    /\ wrote = NoWrite

Next ==
    \/ \E m \in Missions : StartMission(m)
    \/ DispatchAtStart
    \/ DispatchAtTick
    \/ \E s \in sends : MissionWrite(s)
    \/ \E s \in sends, ok \in BOOLEAN : SendReturns(s, ok)
    \/ \E s \in sends : FailRun(s)
    \/ \E done \in BOOLEAN : Observe(done)
    \/ CancelMission
    \/ \E d \in Drones : Interrupt(d)
    \/ \E T \in NormalTargets : Normal(T)
    \/ \E kind \in Takeovers, T \in TakeoverTargets : Takeover(kind, T)
    \/ \E c \in cmds, d \in Drones : Begin(c, d)
    \/ \E c \in cmds, d \in Drones : CommandWrite(c, d)
    \/ \E c \in cmds : Finish(c)
    \/ \E T \in ReturnTargets, accepted \in BOOLEAN : SwarmReturn(T, accepted)
    \/ \E d \in Drones : ReturnWrite(d)
    \/ ReturnEnds
    \/ SwarmStop

Spec == Init /\ [][Next]_vars

\* A transport call returns, and the result of a failed one is handled.
FairSpec ==
    /\ Spec
    /\ WF_vars(\E s \in sends, ok \in BOOLEAN : SendReturns(s, ok))

-----------------------------------------------------------------------------
(* Properties                                                              *)

SendType ==
    [n: Nat, run: Nat, drone: Drones, mode: {"single", "group", "swarm"},
     by: {"rpc", "observer", "timer"}, open: BOOLEAN, lost: BOOLEAN,
     stage: {"out", "failing"}]

CommandType ==
    [n: Nat, kind: DOMAIN Priority, drones: SUBSET Drones,
     begun: SUBSET Drones, open: SUBSET Drones]

\* Every variable has its type.
TypeOK ==
    /\ mission \in [id: Nat, mode: {"single", "group", "swarm"},
                    team: SUBSET Drones, leader: {0} \cup Drones,
                    live: BOOLEAN, fresh: BOOLEAN]
    /\ rpc \in Nat
    /\ slot \subseteq Drones
    /\ gen \in Nat
    /\ sends \subseteq SendType
    /\ cmds \subseteq CommandType
    /\ held \in [Drones -> Nat]
    /\ return \in [n: Nat, drones: SUBSET Drones, open: BOOLEAN]
    /\ clock \in Nat
    /\ heirs \subseteq Drones
    /\ wrote \in [by: {"nobody", "mission", "command", "return"}, n: Nat,
                  drone: {0} \cup Drones, lost: BOOLEAN]

\* The newest accepted command of a drone is the only one that can still write
\* to it: a batch that was overtaken on one of its drones never resumes there,
\* not even after the command that overtook it has finished.
LatestCommandWins ==
    \A c \in cmds, d \in Drones : Passes(c, d) => held[d] = c.n

\* Command and mission never own a drone together.  A follower that inherited
\* the lead while a normal command was flying it is the exception.
Exclusive ==
    \A d \in Drones : held[d] # 0 => ~Owns(d) \/ d \in heirs

\* Once an operator, or a failsafe, has ended a live run or taken a drone out
\* of it, no send the run made before reaches that drone.
RevokedStaysSilent == wrote.by = "mission" => ~wrote.lost

\* A mission send that may still write is the one outstanding send of its drone
\* and belongs to the generation that owns the slot: a cancelled send that
\* unwinds late never frees the slot of a newer run.
SingleFlight ==
    \A s \in sends : s.open => s.n = gen /\ s.drone \in slot

\* A drone's command is replaced only by one at least as strong, and freed only
\* when that command itself finishes.
StrongerPrevails ==
    [][\A d \in Drones : held[d] # 0 /\ held'[d] # held[d] =>
          IF held'[d] = 0
          THEN \A c \in cmds' : c.n # held[d]
          ELSE Rank(d) <= Rank(d)']_vars

\* The single-flight slot is always freed again: neither a cancelled nor a late
\* send keeps later missions from dispatching.
SlotFreed == slot # {} ~> slot = {}

\* No older mission send writes to a drone under a newer takeover.
TakeoverIsFinal ==
    wrote.by = "mission" => wrote.n > held[wrote.drone]

\* No older RETURN writes to a drone under a newer takeover.
TakeoverEndsReturn ==
    wrote.by = "return" => wrote.n > held[wrote.drone]

\* Command and mission never own a drone together.
SoleAuthority == \A d \in Drones : held[d] # 0 => ~Owns(d)

\* A send of the run that lives never writes to a drone under a newer command:
\* what TakeoverIsFinal misses are sends of runs that had already ended.
LateOnlyAfterTheEnd ==
    \A s \in sends :
        s.open /\ held[s.drone] > s.n => ~mission.live \/ s.run # mission.id

-----------------------------------------------------------------------------
(* The leases of commands keep the reservation table's promise             *)

Table == INSTANCE ReservationTable
    WITH Holders <- 1..MaxIntent, Ranks <- {Priority[k] : k \in Takeovers \cup {"normal"}},
         Free <- 0, Outside <- -1,
         holder <- held, rank <- [d \in Drones |-> Rank(d)],
         active <- {c.n : c \in cmds},
         open <- UNION {{c.n} \X c.open : c \in cmds}

\* Each step of the API is a step the table allows, or leaves it alone.
TableKept == Table!Spec

=============================================================================
