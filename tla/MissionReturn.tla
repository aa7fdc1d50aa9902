------------------------------ MODULE MissionReturn ------------------------------
(***************************************************************************)
(* The Return that follows a mission (api/mission_return_dispatch.go): its *)
(* dispatchers, its batch of leases, the sequence of the swarm manager it  *)
(* is delegated to (swarm/manager.go), and everything that may take the    *)
(* drones away from it.  A critical section of missionDispatchMu, a method *)
(* of the engine and a transport write are one action each.                *)
(*                                                                         *)
(* The engine is reduced to its Return state and to whether the run still  *)
(* flies; operator commands to whether one holds a drone.  What becomes of *)
(* the records saved is the matter of MissionPersistence; here a save only *)
(* succeeds or fails.                                                      *)
(*                                                                         *)
(* "Deviation" marks a definition that is the one after it with a          *)
(* plausible mistake.                                                      *)
(***************************************************************************)
EXTENDS Integers, FiniteSets

CONSTANTS
    Drones,    \* drone ids, positive integers
    Callers,   \* goroutines that send for the mission and dispatch its Return
    Observer,  \* the one of them that also observes telemetry
    Plans,     \* missions that may be started (PlanType)
    Targets,   \* target sets of takeovers; their drones get other commands, too
    Requests,  \* drone_ids of swarm RETURN requests; {} is the whole swarm
    Fallible,  \* drones whose failsafe may latch
    Leavers,   \* drones that may be disconnected
    MaxRun,    \* bound on the runs of a behaviour
    MaxActs    \* bound on the missions, interventions and faults together

VARIABLES
    run,       \* the engine's run
    jobs,      \* the goroutines: where each is in dispatchReturnAuthority
    batch,     \* missionReturnBatch: the goroutine whose leases are registered
    held,      \* Server.reservations
    busy,      \* missionSendActive, missionGroupSends: mission sends outstanding
    seq,       \* the swarm manager's RETURN sequence
    results,   \* its results a goroutine is still to hand to the engine
    latched,   \* failsafe latches
    alarms,    \* failsafe alarms not handled yet
    gone,      \* drones disconnected from the fleet
    rescues,   \* drones that failsafeTick has sent an RTL to, from a goroutine
    stuck,     \* those whose sendMu it keeps for ever: the ACK of the RTL is lost
    told,      \* history: drones of the run whose RTL was accepted, or landed
    revoked,   \* history: runs whose Return an operator or a failsafe ended
    unsaved,   \* history: whether a save has failed
    wrote,     \* history: the run whose Return the last step wrote for, or 0
    acts       \* how many of these there have been

dispatch == <<jobs, batch, held>>
fleet == <<latched, alarms, gone, rescues, stuck>>
history == <<told, revoked, unsaved>>
others == <<busy, seq, results, fleet, history>>
vars == <<run, jobs, batch, held, busy, seq, results, latched, alarms, gone,
          rescues, stuck, told, revoked, unsaved, wrote, acts>>

PlanType == [policy: {"rtl", "swarm"}, crew: SUBSET Drones, lead: Drones]
Nobody == "nobody"

ASSUME DroneAssumption == Drones \subseteq Nat \ {0} /\ IsFiniteSet(Drones)
ASSUME CallerAssumption ==
    Observer \in Callers /\ {Nobody, "free", "command"} \cap Callers = {}
ASSUME PlanAssumption ==
    Plans \subseteq PlanType /\ \A p \in Plans : p.lead \in p.crew
ASSUME TargetAssumption ==
    /\ Targets \subseteq SUBSET Drones
    /\ Requests \subseteq SUBSET Drones
    /\ Fallible \subseteq Drones
    /\ Leavers \subseteq Drones
ASSUME BoundAssumption == MaxRun \in Nat /\ MaxActs \in Nat

NoRun == [id |-> 0, flying |-> FALSE, policy |-> "rtl", crew |-> {}, lead |-> 0,
          state |-> "inactive"]
IdleJob == [pc |-> "idle", run |-> 0, claims |-> {}, todo |-> {}, open |-> {},
            target |-> 0, failed |-> FALSE, current |-> FALSE]
AskingJob == [IdleJob EXCEPT !.pc = "ask"]
NoSeq == [phase |-> "off", run |-> 0, drones |-> {}, left |-> {}, open |-> FALSE,
          at |-> 0, short |-> FALSE]

-----------------------------------------------------------------------------
(* Pieces                                                                  *)

\* pendingAuthority
Pending(r) == r.state \in {"pending", "returning"}
ReturnActive == Pending(run)

\* missionSnapshotOwnsDrone
Owned ==
    IF ReturnActive THEN run.crew
    ELSE IF ~run.flying THEN {}
    ELSE IF run.policy = "swarm" THEN {run.lead} ELSE run.crew

\* Deviation: a late result is written over what was said of the Return.
EndedAnyway(r, state) == IF run.id = r THEN [run EXCEPT !.state = state] ELSE run

\* SuppressReturn, FailReturn, CompleteReturn: late for run r, they do nothing.
Ended(r, state) ==
    IF run.id = r /\ ReturnActive THEN [run EXCEPT !.state = state] ELSE run
Completed(r) ==
    IF run.id = r /\ run.state = "returning"
    THEN [run EXCEPT !.state = "completed"] ELSE run

\* The registered batch is the current run's.
OwnBatch == batch # Nobody /\ jobs[batch].run = run.id

\* Deviation: the reservation is replaced but the guard is not closed.
PreemptedInName(j, T) == jobs[j].open

\* preemptLease on what the targets T are held by.
Preempted(j, T) == jobs[j].open \ {d \in T : held[d] = j}

Holding(T) == [d \in Drones |-> IF d \in T THEN "command" ELSE held[d]]

\* Deviation: the batch is forgotten with its guards open.
ForgetBatch(T) ==
    /\ jobs' = [j \in Callers |-> [jobs[j] EXCEPT !.open = Preempted(j, T)]]
    /\ held' = Holding(T)
    /\ batch' = IF OwnBatch THEN Nobody ELSE batch

\* invalidateReturnLocked, after the targets T of a takeover were reserved:
\* close every guard of the batch and drop the reservations it still has.
CloseBatch(T) ==
    /\ jobs' = [j \in Callers |-> [jobs[j] EXCEPT !.open =
                   IF OwnBatch /\ j = batch THEN {} ELSE Preempted(j, T)]]
    /\ held' = [d \in Drones |-> IF OwnBatch /\ Holding(T)[d] = batch
                                 THEN "free" ELSE Holding(T)[d]]
    /\ batch' = IF OwnBatch THEN Nobody ELSE batch

Invalidate(T, state) ==
    /\ run' = [Ended(run.id, state) EXCEPT !.flying = FALSE]
    /\ CloseBatch(T)

\* RevokeReturnNavigation: no write of the sequence after this; it unwinds.
RevokeSeq == seq' = [seq EXCEPT !.open = FALSE]

Revoke == revoked' = IF ReturnActive THEN revoked \cup {run.id} ELSE revoked

Heard(r, d) == IF r # 0 /\ r = run.id THEN told \cup {d} ELSE told

Silent(kept) == wrote' = 0 /\ UNCHANGED kept

\* ReturnAndLand: refused while a sequence runs, or for a drone that is not
\* online or under a failsafe.  It may refuse for other reasons, too.
Selected(T) == IF T = {} THEN Drones \ gone ELSE T
Accepts(T) ==
    /\ seq.phase = "off"
    /\ Selected(T) # {}
    /\ Selected(T) \cap (gone \cup latched) = {}
StartSeq(r, T) ==
    [phase |-> "stage", run |-> r, drones |-> Selected(T), left |-> Selected(T),
     open |-> TRUE, at |-> 0, short |-> FALSE]

-----------------------------------------------------------------------------
(* The mission: start, sends, natural completion                           *)

Init ==
    /\ run = NoRun
    /\ jobs = [j \in Callers |-> IdleJob]
    /\ batch = Nobody
    /\ held = [d \in Drones |-> "free"]
    /\ busy = {}
    /\ seq = NoSeq
    /\ results = {}
    /\ latched = {} /\ alarms = {} /\ gone = {}
    /\ rescues = {} /\ stuck = {}
    /\ told = {} /\ revoked = {} /\ unsaved = FALSE
    /\ wrote = 0
    /\ acts = 0

\* A pending or running Return still counts as the active run.
StartMission(p) ==
    /\ run.id < MaxRun
    /\ ~run.flying /\ ~ReturnActive
    /\ p.policy = "rtl" => seq.phase = "off"
    /\ \A d \in p.crew : held[d] = "free"
    /\ run' = [id |-> run.id + 1, flying |-> TRUE, policy |-> p.policy,
               crew |-> p.crew, lead |-> p.lead, state |-> "inactive"]
    /\ told' = {}
    /\ Silent(<<dispatch, busy, seq, results, fleet, revoked, unsaved>>)

\* Several goroutines may send at once: a group's drones.
SendMission(j) ==
    /\ run.flying
    /\ jobs[j].pc = "idle"
    /\ jobs' = [jobs EXCEPT ![j] = [@ EXCEPT !.pc = "send", !.run = run.id]]
    /\ busy' = busy \cup {j}
    /\ Silent(<<run, batch, held, seq, results, fleet, history>>)

\* A send that was cancelled before it began asks for no Return; one that was
\* refused fails the run of single drones.
SendReturns(j) ==
    /\ jobs[j].pc = "send"
    /\ busy' = busy \ {j}
    /\ \/ jobs' = [jobs EXCEPT ![j] = AskingJob] /\ UNCHANGED run
       \/ j \notin busy /\ jobs' = [jobs EXCEPT ![j] = IdleJob] /\ UNCHANGED run
       \/ /\ j \in busy /\ run.id = jobs[j].run /\ run.policy = "rtl"
          /\ jobs' = [jobs EXCEPT ![j] = AskingJob]
          /\ run' = [run EXCEPT !.flying = FALSE]
    /\ Silent(<<batch, held, seq, results, fleet, history>>)

\* observeMissionTick: armNaturalReturnLocked, then the dispatch of the tick.
Complete ==
    /\ run.flying
    /\ jobs[Observer].pc = "idle"
    /\ run' = [run EXCEPT !.flying = FALSE, !.state = "pending"]
    /\ jobs' = [jobs EXCEPT ![Observer] = AskingJob]
    /\ Silent(<<batch, held, others>>)

-----------------------------------------------------------------------------
(* dispatchReturnAuthority                                                 *)

\* The first return, without the lock: is there a Return to dispatch?
Ask(j) ==
    /\ jobs[j].pc = "ask"
    /\ jobs' = [jobs EXCEPT ![j].pc = IF run.state = "pending" THEN "save" ELSE "idle"]
    /\ Silent(<<run, batch, held, others>>)

\* missionDurableForReturnDispatch: a save that fails suppresses, without the
\* lock, whatever Return is current by then.  A late save fails as stale.
Save(j, ok) ==
    /\ jobs[j].pc = "save"
    /\ jobs' = [jobs EXCEPT ![j].pc = IF ok /\ run.state = "pending" THEN "claim" ELSE "idle"]
    /\ run' = IF ok THEN run ELSE Ended(run.id, "suppressed")
    /\ unsaved' = (unsaved \/ ~ok)
    /\ Silent(<<batch, held, busy, seq, results, fleet, told, revoked>>)

Blocked == busy # {} \/ batch # Nobody

\* Deviation: the failsafes are looked at, the reservations are not.
ContestedByLatch == run.crew \cap latched # {}

Contested == \E d \in run.crew : held[d] # "free" \/ d \in latched

\* Deviation: the goroutine that found it blocked asks again itself.
ClaimAgain(j) ==
    /\ jobs[j].pc = "claim"
    /\ Blocked \/ run.state # "pending"
    /\ jobs' = [jobs EXCEPT ![j].pc = "ask"]
    /\ Silent(<<run, batch, held, others>>)

\* A final send has to retire first; its goroutine will ask again.
ClaimNothing(j) ==
    /\ jobs[j].pc = "claim"
    /\ Blocked \/ run.state # "pending"
    /\ jobs' = [jobs EXCEPT ![j].pc = "idle"]
    /\ Silent(<<run, batch, held, others>>)

Claimable(j) == jobs[j].pc = "claim" /\ ~Blocked /\ run.state = "pending"

\* An operator's command or a failsafe has a participant: no Return.
ClaimSuppressed(j) ==
    /\ Claimable(j) /\ Contested
    /\ run' = Ended(run.id, "suppressed")
    /\ jobs' = [jobs EXCEPT ![j].pc = "idle"]
    /\ Silent(<<batch, held, others>>)

Batch(r, crew) ==
    [pc |-> "record", run |-> r, claims |-> crew, todo |-> crew, open |-> crew,
     target |-> 0, failed |-> FALSE, current |-> FALSE]

\* prepareReturnBatchLocked
ClaimRtl(j) ==
    /\ Claimable(j) /\ ~Contested /\ run.policy = "rtl"
    /\ run' = [run EXCEPT !.state = "returning"]
    /\ jobs' = [jobs EXCEPT ![j] = Batch(run.id, run.crew)]
    /\ held' = [d \in Drones |-> IF d \in run.crew THEN j ELSE held[d]]
    /\ batch' = j
    /\ Silent(others)

ClaimSwarm(j, accepted) ==
    /\ Claimable(j) /\ ~Contested /\ run.policy = "swarm"
    /\ accepted => Accepts(run.crew)
    /\ run' = [run EXCEPT !.state = IF accepted THEN "returning" ELSE "failed"]
    /\ seq' = IF accepted THEN StartSeq(run.id, run.crew) ELSE seq
    /\ jobs' = [jobs EXCEPT ![j].pc = "idle"]
    /\ Silent(<<batch, held, busy, results, fleet, history>>)

\* RETURNING must be on record before the first RTL.
Record(j, ok) ==
    /\ jobs[j].pc = "record"
    /\ IF ok
       THEN /\ jobs' = [jobs EXCEPT ![j].pc = "next"]
            /\ UNCHANGED <<run, batch, held, unsaved>>
       ELSE /\ run' = Ended(jobs[j].run, "suppressed")
            /\ jobs' = [jobs EXCEPT ![j] = IdleJob]
            /\ held' = [d \in Drones |-> IF batch = j /\ held[d] = j
                                         THEN "free" ELSE held[d]]
            /\ batch' = IF batch = j THEN Nobody ELSE batch
            /\ unsaved' = TRUE
    /\ Silent(<<busy, seq, results, fleet, told, revoked>>)

\* runClaimed: go on to the next participant unless its lease was replaced.
Begin(j, d) ==
    /\ jobs[j].pc = "next"
    /\ d \in jobs[j].todo /\ \A e \in jobs[j].todo : d <= e
    /\ jobs' = IF held[d] = j
               THEN [jobs EXCEPT ![j] = [@ EXCEPT !.pc = "rtl", !.target = d]]
               ELSE [jobs EXCEPT ![j] = [@ EXCEPT !.pc = "close", !.failed = TRUE]]
    /\ Silent(<<run, batch, held, others>>)

\* The RTL waits for the sendMu of its drone, which no context interrupts.
AtLock(j) == jobs[j].pc = "rtl" /\ jobs[j].target \in stuck

\* A send may be a HOLD, which takes sendMu to change the mode.
SendAtLock(j) == jobs[j].pc = "send" /\ stuck # {}

\* MissionReturnRTL down to conn.Send: sendMu, the lease, the failsafe latch.
RtlWrite(j) ==
    /\ jobs[j].pc = "rtl"
    /\ jobs[j].target \in jobs[j].open \ (latched \cup gone \cup stuck)
    /\ jobs' = [jobs EXCEPT ![j].pc = "ack"]
    /\ wrote' = jobs[j].run
    /\ UNCHANGED <<run, batch, held, others>>

RtlAccepted(j) ==
    /\ jobs[j].pc = "ack"
    /\ LET todo == jobs[j].todo \ {jobs[j].target}
           pc == IF todo = {} THEN "close" ELSE "next"
       IN jobs' = [jobs EXCEPT ![j] = [@ EXCEPT !.pc = pc, !.todo = todo, !.target = 0]]
    /\ told' = Heard(jobs[j].run, jobs[j].target)
    /\ Silent(<<run, batch, held, busy, seq, results, fleet, revoked, unsaved>>)

\* Refused, lost, timed out, preempted: no later participant is told.  It may
\* be refused before it comes to sendMu.
RtlFails(j) ==
    /\ jobs[j].pc \in {"rtl", "ack"}
    /\ jobs' = [jobs EXCEPT ![j] = [@ EXCEPT !.pc = "close", !.failed = TRUE]]
    /\ Silent(<<run, batch, held, others>>)

Unregister(j) ==
    /\ jobs[j].pc = "close"
    /\ jobs' = [jobs EXCEPT ![j] = [@ EXCEPT !.pc = "release", !.todo = {}, !.target = 0,
                                            !.current = (batch = j)]]
    /\ batch' = IF batch = j THEN Nobody ELSE batch
    /\ Silent(<<run, held, others>>)

\* releaseLease frees only what the lease still holds.
Release(j, d) ==
    /\ jobs[j].pc = "release"
    /\ d \in jobs[j].claims
    /\ jobs' = [jobs EXCEPT ![j].claims = @ \ {d}, ![j].open = @ \ {d}]
    /\ held' = IF held[d] = j THEN [held EXCEPT ![d] = "free"] ELSE held
    /\ Silent(<<run, batch, others>>)

\* Only a batch nobody invalidated tells the engine.
Settle(j) ==
    /\ jobs[j].pc = "release"
    /\ jobs[j].claims = {}
    /\ run' = IF ~jobs[j].current THEN run
              ELSE IF jobs[j].failed THEN Ended(jobs[j].run, "failed")
              ELSE Completed(jobs[j].run)
    /\ jobs' = [jobs EXCEPT ![j] = IdleJob]
    /\ Silent(<<batch, held, others>>)

-----------------------------------------------------------------------------
(* returnSeq: separate the heights, fly home, land one by one; if anything *)
(* goes wrong, RTL one by one                                              *)

seqKept == <<run, dispatch, busy, fleet, revoked, unsaved>>
SeqMoves == Silent(<<results, told, seqKept>>)
SeqWrites == wrote' = seq.run /\ UNCHANGED <<results, told, seqKept>>

Into(phase, left) ==
    [seq EXCEPT !.phase = phase, !.left = left, !.at = 0, !.short = FALSE]

\* The drones are served in one order all along, here by their ids.
Turn(d) == d \in seq.left /\ \A e \in seq.left : d <= e

\* LandNow or ReturnHome may be waiting for the sendMu of the next drone.
SeqAtLock ==
    /\ seq.phase \in {"land", "rtl"}
    /\ seq.at = 0
    /\ \E d \in stuck : Turn(d)

\* The guard of the sequence, then the latch of the drone.
SeqMaySend(d) == seq.open /\ Turn(d) /\ d \notin latched \cup gone

\* GotoContext waits for no ACK.
SeqGoto(d) ==
    /\ seq.phase \in {"stage", "travel"}
    /\ SeqMaySend(d)
    /\ seq' = [seq EXCEPT !.left = @ \ {d}]
    /\ SeqWrites

\* LandNow, ReturnHome
SeqOrder(d) ==
    /\ seq.phase \in {"land", "rtl"}
    /\ seq.at = 0
    /\ d \notin stuck
    /\ SeqMaySend(d)
    /\ seq' = [seq EXCEPT !.at = d]
    /\ SeqWrites

\* Accepted, and waitLanded has seen it on the ground.
SeqLanded ==
    /\ seq.at # 0
    /\ seq.at \notin gone
    /\ seq' = [seq EXCEPT !.left = @ \ {seq.at}, !.at = 0]
    /\ told' = Heard(seq.run, seq.at)
    /\ Silent(<<results, seqKept>>)

\* Every drone of the phase was served and the telemetry wait succeeded.
SeqPhaseDone ==
    /\ seq.open
    /\ seq.left = {}
    /\ \/ seq.phase = "stage" /\ seq' = Into("travel", seq.drones)
       \/ seq.phase = "travel" /\ ~seq.short /\ seq' = Into("land", seq.drones)
    /\ SeqMoves

\* A GOTO home that fails is only remembered.
SeqGotoFails(d) ==
    /\ seq.open
    /\ seq.phase = "travel"
    /\ Turn(d)
    /\ seq' = [seq EXCEPT !.left = @ \ {d}, !.short = TRUE]
    /\ SeqMoves

\* Deviation: RTL only for those that come after the one in trouble.
FallBackAfter ==
    /\ seq.open
    /\ \/ seq.phase = "stage" /\ seq' = Into("rtl", seq.drones)
       \/ seq.phase = "travel" /\ seq.left = {} /\ seq' = Into("rtl", seq.drones)
       \/ seq.phase = "land" /\ (SeqAtLock => \E d \in gone : Turn(d))
             /\ seq' = Into("rtl", seq.left \ {seq.at})
    /\ SeqMoves

\* A drone has left the fleet, a send or a wait fails: FC RTL for everyone not
\* on the ground yet.
FallBack ==
    /\ seq.open
    /\ \/ seq.phase = "stage" /\ seq' = Into("rtl", seq.drones)
       \/ seq.phase = "travel" /\ seq.left = {} /\ seq' = Into("rtl", seq.drones)
       \/ seq.phase = "land" /\ seq.left # {}
             /\ (SeqAtLock => \E d \in gone : Turn(d))
             /\ seq' = Into("rtl", seq.left)
    /\ SeqMoves

\* fallbackRTL passes over a drone that has left the fleet.
SeqSkip(d) ==
    /\ seq.open
    /\ seq.phase = "rtl" /\ seq.at = 0
    /\ Turn(d) /\ d \in gone
    /\ seq' = [seq EXCEPT !.left = @ \ {d}]
    /\ SeqMoves

\* The outcomes returnSeq may have now.
SeqOutcomes ==
    {o \in {"succeeded", "cancelled", "failed"} :
        \/ o = "succeeded" /\ seq.left = {} /\ seq.phase \in {"land", "rtl"}
        \/ o = "cancelled" /\ ~seq.open /\ seq.phase # "rtl"
              /\ (seq.phase = "land" => seq.left # {})
        \/ o = "failed" /\ seq.phase = "rtl" /\ seq.left # {}
              /\ (seq.open => ~SeqAtLock)}

\* The result of a mission's Return goes to the goroutine that waits for it.
SeqEnds(outcome) ==
    /\ seq.phase # "off"
    /\ outcome \in SeqOutcomes
    /\ seq' = NoSeq
    /\ results' = IF seq.run = 0 THEN results
                  ELSE results \cup {[run |-> seq.run, outcome |-> outcome]}
    /\ Silent(<<told, seqKept>>)

\* Deviation: only success and cancellation are told.
DeliverUnlessFailed(r) ==
    /\ results' = results \ {r}
    /\ run' = CASE r.outcome = "succeeded" -> Completed(r.run)
                [] r.outcome = "cancelled" -> Ended(r.run, "suppressed")
                [] r.outcome = "failed" -> run
    /\ Silent(<<dispatch, busy, seq, fleet, history>>)

Deliver(r) ==
    /\ results' = results \ {r}
    /\ run' = CASE r.outcome = "succeeded" -> Completed(r.run)
                [] r.outcome = "cancelled" -> Ended(r.run, "suppressed")
                [] r.outcome = "failed" -> Ended(r.run, "failed")
    /\ Silent(<<dispatch, busy, seq, fleet, history>>)

-----------------------------------------------------------------------------
(* Operators                                                               *)

\* A normal command needs a drone that nobody owns or has reserved.
Command(d) ==
    /\ held[d] = "free"
    /\ d \notin Owned
    /\ held' = [held EXCEPT ![d] = "command"]
    /\ Silent(<<run, jobs, batch, others>>)

CommandEnds(d) ==
    /\ held[d] = "command"
    /\ held' = [held EXCEPT ![d] = "free"]
    /\ Silent(<<run, jobs, batch, others>>)

takeoverKept == <<results, fleet, told, unsaved>>

\* Of the drones a mission or its Return owns: prepareTakeoverBatch, then
\* cancelMissionForOperatorTargetsLocked.
TakeOver(T) ==
    /\ T \cap Owned # {}
    /\ Invalidate(T, "suppressed")
    /\ IF ReturnActive THEN RevokeSeq ELSE UNCHANGED seq
    /\ busy' = {}
    /\ Revoke
    /\ Silent(takeoverKept)

\* Of others: only the leases they hold give way.
TakeOverOthers(T) ==
    /\ T \cap Owned = {}
    /\ ~(run.flying /\ run.policy = "swarm" /\ T \cap run.crew # {})
    /\ jobs' = [j \in Callers |-> [jobs[j] EXCEPT !.open = Preempted(j, T)]]
    /\ held' = Holding(T)
    /\ Silent(<<run, batch, busy, seq, revoked, takeoverKept>>)

\* Of drones of a flying swarm: they leave it, or the run ends with them
\* (applySwarmMissionTakeoversLocked; MissionEngine has the details).
TakeOverSwarm(T) ==
    /\ run.flying /\ run.policy = "swarm"
    /\ T \cap run.crew # {}
    /\ jobs' = [j \in Callers |-> [jobs[j] EXCEPT !.open = Preempted(j, T)]]
    /\ held' = Holding(T)
    /\ \/ run' = [run EXCEPT !.flying = FALSE]
       \/ \E d \in run.crew \ T :
             /\ Cardinality(run.crew \ T) >= 2
             /\ run.lead \notin T => d = run.lead
             /\ run' = [run EXCEPT !.crew = @ \ T, !.lead = d]
    /\ busy' = IF run.lead \in T \/ ~run'.flying THEN {} ELSE busy
    /\ Silent(<<batch, seq, revoked, takeoverKept>>)

\* CancelMission of the current run.  It does not call RevokeReturnNavigation.
CancelMission ==
    /\ run.id # 0
    /\ Invalidate({}, "suppressed")
    /\ busy' = {}
    /\ Silent(<<seq, results, fleet, history>>)

\* SwarmControl STOP
SwarmStop ==
    /\ RevokeSeq
    /\ IF ReturnActive THEN Invalidate({}, "suppressed") ELSE UNCHANGED <<run, dispatch>>
    /\ Revoke
    /\ Silent(<<busy, results, fleet, told, unsaved>>)

\* SwarmControl RETURN.  Without drone_ids it only cancels the engine's run.
SwarmReturn(T, accepted) ==
    /\ \A d \in IF T = {} THEN Drones ELSE T : held[d] = "free"
    /\ IF T = {}
       THEN /\ run' = [Ended(run.id, "suppressed") EXCEPT !.flying = FALSE]
            /\ UNCHANGED <<dispatch, busy, revoked>>
       ELSE IF T \cap Owned # {}
       THEN Invalidate({}, "suppressed") /\ busy' = {} /\ Revoke
       ELSE UNCHANGED <<run, dispatch, busy, revoked>>
    /\ accepted => Accepts(T)
    /\ seq' = IF accepted THEN StartSeq(0, T)
              ELSE IF ReturnActive /\ T \cap Owned # {} THEN [seq EXCEPT !.open = FALSE]
              ELSE seq
    /\ Silent(takeoverKept)

-----------------------------------------------------------------------------
(* Faults                                                                  *)

\* persistMissionState(true) fails: PersistenceFault, also without
\* RevokeReturnNavigation.
SaveFails ==
    /\ run.flying \/ ReturnActive
    /\ Invalidate({}, "failed")
    /\ busy' = {}
    /\ unsaved' = TRUE
    /\ Silent(<<seq, results, fleet, told, revoked>>)

\* A failsafe latches, publishes its alarm and starts `go d.ReturnHome(ctx)`.
Latch(d) ==
    /\ d \notin latched
    /\ latched' = latched \cup {d}
    /\ alarms' = alarms \cup {d}
    /\ rescues' = rescues \cup {d}
    /\ Silent(<<run, dispatch, busy, seq, results, gone, stuck, history>>)

\* Sooner or later, or never, that RTL comes to sendMu and its ACK is lost: ctx is
\* that of the process, so nothing ends the wait.  Who had the lock before has
\* written already.
Stick(d) ==
    /\ d \in rescues \ stuck
    /\ stuck' = stuck \cup {d}
    /\ Silent(<<run, dispatch, busy, seq, results, latched, alarms, gone, rescues,
                history>>)

Unlatch(d) ==
    /\ d \in latched
    /\ latched' = latched \ {d}
    /\ Silent(<<run, dispatch, busy, seq, results, alarms, gone, rescues, stuck,
                history>>)

\* The drones whose failsafe interrupts the run: a swarm flies on without a
\* follower, but does not return without it.
Interrupting ==
    IF run.flying /\ run.policy = "swarm" THEN {run.lead}
    ELSE IF run.flying \/ ReturnActive THEN run.crew ELSE {}

\* handleMissionSafetyEvent
Alarm(d) ==
    /\ d \in alarms
    /\ alarms' = alarms \ {d}
    /\ IF d \in Interrupting
       THEN /\ Invalidate({}, "suppressed")
            /\ busy' = {}
            /\ Revoke
            /\ IF ReturnActive /\ run.policy = "swarm" THEN RevokeSeq ELSE UNCHANGED seq
       ELSE UNCHANGED <<run, dispatch, busy, seq, revoked>>
    /\ Silent(<<results, latched, gone, rescues, stuck, told, unsaved>>)

Disconnect(d) ==
    /\ d \notin gone
    /\ gone' = gone \cup {d}
    /\ Silent(<<run, dispatch, busy, seq, results, latched, alarms, rescues, stuck,
                history>>)

-----------------------------------------------------------------------------
Uncounted == acts' = acts

JobStep(j) ==
    /\ \/ SendReturns(j)
       \/ Ask(j)
       \/ \E ok \in BOOLEAN : Save(j, ok) \/ Record(j, ok)
       \/ ClaimNothing(j)
       \/ ClaimSuppressed(j)
       \/ ClaimRtl(j)
       \/ \E accepted \in BOOLEAN : ClaimSwarm(j, accepted)
       \/ RtlWrite(j)
       \/ RtlAccepted(j)
       \/ RtlFails(j)
       \/ Unregister(j)
       \/ Settle(j)
       \/ \E d \in Drones : Begin(j, d) \/ Release(j, d)
    /\ Uncounted

SeqStep ==
    /\ \/ \E d \in Drones : SeqGoto(d) \/ SeqOrder(d) \/ SeqGotoFails(d) \/ SeqSkip(d)
       \/ SeqLanded
       \/ SeqPhaseDone
       \/ FallBack
       \/ \E outcome \in {"succeeded", "cancelled", "failed"} : SeqEnds(outcome)
    /\ Uncounted

ResultStep == Uncounted /\ \E r \in results : Deliver(r)

MissionStep ==
    /\ \/ \E j \in Callers : SendMission(j)
       \/ Complete
       \/ \E d \in Drones : CommandEnds(d) \/ Alarm(d) \/ Unlatch(d)
    /\ Uncounted

Event ==
    /\ \/ \E p \in Plans : StartMission(p)
       \/ \E d \in UNION Targets : Command(d)
       \/ \E T \in Targets : TakeOver(T) \/ TakeOverOthers(T) \/ TakeOverSwarm(T)
       \/ CancelMission
       \/ SwarmStop
       \/ \E T \in Requests, accepted \in BOOLEAN : SwarmReturn(T, accepted)
       \/ SaveFails
       \/ \E d \in Fallible : Latch(d) \/ Stick(d)
       \/ \E d \in Leavers : Disconnect(d)
    /\ acts < MaxActs
    /\ acts' = acts + 1

Next ==
    \/ \E j \in Callers : JobStep(j)
    \/ SeqStep
    \/ ResultStep
    \/ MissionStep
    \/ Event

Spec == Init /\ [][Next]_vars

\* Goroutines are scheduled, their calls and waits have a time limit, but for the
\* wait for a sendMu that a failsafe RTL keeps, and a result that was sent is
\* received.
Fairness ==
    /\ \A j \in Callers : WF_vars(JobStep(j) /\ ~AtLock(j) /\ ~SendAtLock(j))
    /\ WF_vars(SeqStep /\ ~SeqAtLock)
    /\ WF_vars(ResultStep)

FairSpec == Spec /\ Fairness

-----------------------------------------------------------------------------
(* Properties                                                              *)

RunType ==
    [id: 0..MaxRun, flying: BOOLEAN, policy: {"rtl", "swarm"}, crew: SUBSET Drones,
     lead: {0} \cup Drones,
     state: {"inactive", "pending", "returning", "completed", "suppressed", "failed"}]

JobType ==
    [pc: {"idle", "send", "ask", "save", "claim", "record", "next", "rtl", "ack",
          "close", "release"},
     run: 0..MaxRun, claims: SUBSET Drones, todo: SUBSET Drones,
     open: SUBSET Drones, target: {0} \cup Drones, failed: BOOLEAN, current: BOOLEAN]

SeqType ==
    [phase: {"off", "stage", "travel", "land", "rtl"}, run: 0..MaxRun,
     drones: SUBSET Drones, left: SUBSET Drones, open: BOOLEAN,
     at: {0} \cup Drones, short: BOOLEAN]

ResultType == [run: 1..MaxRun, outcome: {"succeeded", "cancelled", "failed"}]

TypeOK ==
    /\ run \in RunType
    /\ jobs \in [Callers -> JobType]
    /\ batch \in Callers \cup {Nobody}
    /\ held \in [Drones -> Callers \cup {"free", "command"}]
    /\ busy \subseteq Callers
    /\ seq \in SeqType
    /\ results \subseteq ResultType
    /\ latched \subseteq Drones /\ alarms \subseteq Drones /\ gone \subseteq Drones
    /\ rescues \subseteq Drones /\ stuck \subseteq Drones
    /\ told \subseteq Drones
    /\ revoked \subseteq 1..MaxRun /\ unsaved \in BOOLEAN
    /\ wrote \in 0..MaxRun

\* A Return that a takeover, a STOP or an alarm has ended writes nothing more,
\* to no drone, although its goroutines are still unwinding.
RevokedIsSilent == wrote \notin revoked

\* Where the RTL of a batch may still be written, its lease is the reservation
\* in force, and no RETURN sequence may write there, too.
OnePilot ==
    \A j \in Callers, d \in Drones :
        d \in jobs[j].open =>
            /\ held[d] = j
            /\ ~(seq.open /\ d \in seq.drones)

\* While a mission's Return runs, no command holds a drone of it.
SoleOwner ==
    run.state = "returning" => \A d \in run.crew : held[d] # "command"

\* A reservation of a batch belongs to a goroutine that will release it.
NoLeaseLeaks ==
    \A j \in Callers, d \in Drones : held[d] = j => d \in jobs[j].claims

\* A Return is called completed only if every drone was brought home or had
\* left the fleet.
CompletedMeansHome ==
    run.state = "completed" =>
        \A d \in run.crew : d \in told \cup gone

\* The Return of a mission has the drones to itself, gives them up at once
\* when they are taken, and tells the truth about the end.
ReturnAuthority ==
    /\ RevokedIsSilent
    /\ OnePilot
    /\ SoleOwner
    /\ NoLeaseLeaks
    /\ CompletedMeansHome

\* A Return ends once: neither a goroutine or a sequence that unwinds late, nor
\* a fault, changes what was said of it, and what is about an earlier run leaves
\* the current one alone.
EndsOnce ==
    [][/\ run'.id = run.id /\ run.state \in {"completed", "suppressed", "failed"} =>
             run'.state = run.state /\ ~run'.flying
       /\ \A r \in results \ results' : r.run # run.id => run' = run
       /\ \A j \in Callers :
             JobStep(j) /\ jobs[j].pc \in {"record", "release"} /\ jobs[j].run # run.id
                 => run' = run]_vars

\* The steps a goroutine still has before it: three per participant that waits
\* for its RTL, one per lease to give back.
JobLeft(j) ==
    LET n == Cardinality(Drones)
        k == 3 * Cardinality(jobs[j].todo)
    IN CASE jobs[j].pc = "idle"    -> 0
         [] jobs[j].pc = "release" -> 1 + Cardinality(jobs[j].claims)
         [] jobs[j].pc = "close"   -> n + 2
         [] jobs[j].pc = "ack"     -> n + 1 + k
         [] jobs[j].pc = "rtl"     -> n + 2 + k
         [] jobs[j].pc = "next"    -> n + 3 + k
         [] jobs[j].pc = "record"  -> 4 * n + 4
         [] jobs[j].pc = "claim"   -> 4 * n + 5
         [] jobs[j].pc = "save"    -> 4 * n + 6
         [] jobs[j].pc = "ask"     -> 4 * n + 7
         [] jobs[j].pc = "send"    -> 4 * n + 8

\* The steps the sequence has before it, in the phase and in those to come.
SeqLeft ==
    LET n == Cardinality(Drones)
        k == Cardinality(seq.left)
        landing == IF seq.at = 0 THEN 0 ELSE 1
    IN CASE seq.phase = "off"    -> 0
         [] seq.phase = "rtl"    -> 1 + 2 * k - landing
         [] seq.phase = "land"   -> 2 * n + 2 + 2 * k - landing
         [] seq.phase = "travel" -> 4 * n + 3 + k
         [] seq.phase = "stage"  -> 5 * n + 4 + k

\* Each step of a goroutine, or of the sequence, brings it nearer to its end, and
\* nothing that happens meanwhile sets it back.
NearerHome ==
    [][/\ \A j \in Callers : jobs[j].pc # "idle" => JobLeft(j)' <= JobLeft(j)
       /\ \A j \in Callers : JobStep(j) => JobLeft(j)' < JobLeft(j)
       /\ seq.phase # "off" => SeqLeft' <= SeqLeft
       /\ SeqStep => SeqLeft' < SeqLeft]_vars

\* What keeps a Return, or the claim of a pending one, for ever: it waits itself
\* for a sendMu that a failsafe RTL keeps, or a send before it does.
JammedBatch == batch # Nobody /\ AtLock(batch)
JammedReturn == JammedBatch \/ (SeqAtLock /\ seq.run = run.id)
JammedClaim == JammedBatch \/ \E j \in busy : SendAtLock(j)

\* A Return that was claimed ends and gives every lease back, and one that is
\* pending is claimed or ended, unless saving one has failed; a failsafe RTL whose
\* ACK is lost stops those only that need the very lock it keeps.
ReturnsSettle ==
    /\ run.state = "returning" ~> (run.state # "returning" \/ JammedReturn)
    /\ \A j \in Callers :
          (\E d \in Drones : held[d] = j) ~> ((\A d \in Drones : held[d] # j) \/ AtLock(j))
    /\ (run.state = "pending" /\ ~unsaved)
          ~> (run.state # "pending" \/ unsaved \/ JammedClaim)

-----------------------------------------------------------------------------
(* The leases of batches keep the reservation table's promise              *)

HasLease(j) == jobs[j].pc \in {"record", "next", "rtl", "ack", "close", "release"}

Table == INSTANCE ReservationTable
    WITH Holders <- Callers, Ranks <- {0, 1, 2}, Free <- "free", Outside <- "command",
         holder <- held,
         rank <- [d \in Drones |-> IF held[d] = "free" THEN 0
                                   ELSE IF held[d] = "command" THEN 2 ELSE 1],
         active <- {j \in Callers : HasLease(j)},
         open <- UNION {{j} \X jobs[j].open : j \in Callers}

\* Each step of a Return, and each one that ends it, is a step the table allows,
\* or leaves it alone.
TableKept == Table!Spec

=============================================================================
