----------------------------- MODULE MissionEngine -----------------------------
(***************************************************************************)
(* The mission state machine of the Go core (internal/mission).  One       *)
(* Engine holds at most one Run.  Every exported method of Engine runs     *)
(* under Engine.mu from beginning to end, so one method is one action.     *)
(*                                                                         *)
(* Abstracted data.  A waypoint is only "carries a WAIT or not"; geometry  *)
(* is the fact that a sample lies inside the arrival radius; a WAIT        *)
(* deadline is the freedom of Poll to find it due; reasons, owners, times  *)
(* and altitudes are left out.  currentIndex and sepIndex are one function *)
(* idx over scopes (scope 0 is the shared route, scope d the SEPARATE      *)
(* route of drone d), and so are the three claim markers.  IDLE,           *)
(* VALIDATING, READY and CANCELLING are entered and left inside one method *)
(* and are seen only as the revisions they consume.  A run is followed     *)
(* within one Core process; MissionPersistence has what a restart leaves.  *)
(*                                                                         *)
(* A definition whose comment starts with "Deviation" is the one after it  *)
(* with a plausible mistake; a property is worth its run only if the model *)
(* with the mistake violates it.                                           *)
(***************************************************************************)
EXTENDS Integers, FiniteSets

CONSTANTS
    Drones,       \* drone ids, positive integers
    Plans,        \* the plans operators submit (PlanType), valid or not
    Ops,          \* non-empty operation ids
    Deployments,  \* the engine configurations that may be deployed
    MaxRun        \* bound: the largest run id a behaviour uses

VARIABLES
    deploy,       \* the Enable*Authority switches, fixed before any run
    run,          \* Engine.run (NoRun is nil)
    nextRunID,    \* Engine.nextRunID
    named,        \* history: the run id the last call named, 0 if none
    out,          \* history: the intents the last call returned
    sent          \* history: the intents of this run returned before that

vars == <<deploy, run, nextRunID, named, out, sent>>

Scopes == {0} \cup Drones
Modes == {"GROUPED", "SEPARATE", "SWARM_LEADER"}
Profiles == {"shadow", "core-single", "core-single-wait", "core-grouped-multi",
             "core-separate", "core-swarm-leader"}
TerminalStates == {"CANCELLED", "INTERRUPTED", "FAILED", "COMPLETED"}
ReturnStates == {"INACTIVE", "PENDING", "RETURNING", "COMPLETED",
                 "SUPPRESSED", "FAILED"}
NoOp == ""
None == -1

\* rank is the operator's order of the participants; hold[s] the indexes of
\* route s that carry a WAIT; ret a Return policy other than NONE; payload a
\* servo action on some waypoint.
PlanType ==
    [id: Nat, mode: Modes, parts: SUBSET Drones, rank: [Drones -> Nat],
     leader: {0} \cup Drones, len: [Scopes -> Nat],
     hold: [Scopes -> SUBSET Nat], ret: BOOLEAN, payload: BOOLEAN]

DeployType == [profile: Profiles, returns: BOOLEAN]

ASSUME DroneAssumption == Drones \subseteq Nat \ {0} /\ IsFiniteSet(Drones)
ASSUME PlanAssumption == Plans \subseteq PlanType
ASSUME RankAssumption ==
    \A p \in Plans : \A d, e \in Drones : p.rank[d] = p.rank[e] => d = e
ASSUME OpAssumption == NoOp \notin Ops
ASSUME DeployAssumption == Deployments \subseteq DeployType
ASSUME BoundAssumption == MaxRun \in Nat

NoPlan ==
    [id |-> 0, mode |-> "GROUPED", parts |-> {}, rank |-> [d \in Drones |-> 0],
     leader |-> 0, len |-> [s \in Scopes |-> 0],
     hold |-> [s \in Scopes |-> {}], ret |-> FALSE, payload |-> FALSE]

NoWait == [s \in Scopes |-> None]

FreshRun(p, op, id) ==
    [id |-> id, plan |-> p, op |-> op, state |-> "RUNNING", rev |-> 3,
     idx |-> [s \in Scopes |-> 0], claimed |-> NoWait, held |-> None,
     arrived |-> {}, rejects |-> {}, wait |-> NoWait,
     leader |-> IF p.mode = "SWARM_LEADER" THEN p.leader ELSE 0,
     active |-> IF p.mode = "SWARM_LEADER" THEN p.parts ELSE {},
     excluded |-> {}, gen |-> 0, pending |-> FALSE,
     ret |-> "INACTIVE", retParts |-> p.parts]

NoRun == [FreshRun(NoPlan, NoOp, 0) EXCEPT !.state = "NONE", !.rev = 0]

Terminal(r) == r.state \in TerminalStates
Live(r) == r.state \in {"RUNNING", "WAITING"}
ReturnOwned(r) == r.ret \in {"PENDING", "RETURNING"}
Authority == deploy.profile # "shadow"

-----------------------------------------------------------------------------
(* Plans: structural validity and the capability predicate of each profile *)

RouteScopes(p) == IF p.mode = "SEPARATE" THEN p.parts ELSE {0}

Valid(p) ==
    /\ p.parts # {}
    /\ \A s \in RouteScopes(p) : p.len[s] > 0
    /\ p.mode = "SWARM_LEADER" => p.leader \in {0} \cup p.parts

NoWaits(p) == \A s \in RouteScopes(p) : p.hold[s] = {}

Solo(p) == p.mode = "GROUPED" /\ Cardinality(p.parts) = 1

Team(p, mode) == p.mode = mode /\ Cardinality(p.parts) >= 2 /\ NoWaits(p)

Eligible(p) ==
    \/ ~Authority
    \/ /\ ~p.payload
       /\ p.ret => deploy.returns
       /\ \/ deploy.profile = "core-single" /\ Solo(p) /\ NoWaits(p)
          \/ deploy.profile = "core-single-wait" /\ Solo(p)
          \/ deploy.profile = "core-grouped-multi" /\ Team(p, "GROUPED")
          \/ deploy.profile = "core-separate" /\ Team(p, "SEPARATE")
          \/ /\ deploy.profile = "core-swarm-leader"
             /\ Team(p, "SWARM_LEADER") /\ p.leader # 0

-----------------------------------------------------------------------------
(* The run: transitions and progression, as functions from run to run      *)

Transition(r, s) == [r EXCEPT !.state = s, !.rev = @ + 1]
ReturnTo(r, s) == [r EXCEPT !.ret = s, !.rev = @ + 1]

Finished(r) == \A s \in RouteScopes(r.plan) : r.idx[s] >= r.plan.len[s]

Transiting(r) ==
    \E s \in RouteScopes(r.plan) : r.idx[s] < r.plan.len[s] /\ r.wait[s] = None

ActiveState(r) == IF Transiting(r) THEN "RUNNING" ELSE "WAITING"

ArmNaturalReturn(r) ==
    IF Authority /\ deploy.returns /\ r.plan.ret THEN ReturnTo(r, "PENDING") ELSE r

\* Every scope of due passes the waypoint at[s].  The code loops over the
\* scopes; each turn takes one revision and the last one decides the label.
Advance(r, due, at) ==
    LET moved == [r EXCEPT
            !.idx = [s \in Scopes |-> IF s \in due THEN at[s] + 1 ELSE r.idx[s]],
            !.wait = [s \in Scopes |-> IF s \in due THEN None ELSE r.wait[s]],
            !.arrived = {}, !.rejects = {},
            !.rev = @ + Cardinality(due)]
    IN IF Finished(moved)
       THEN ArmNaturalReturn([moved EXCEPT !.state = "COMPLETED"])
       ELSE [moved EXCEPT !.state = ActiveState(moved)]

ReachWaypoint(r, s) ==
    LET holding == [r EXCEPT !.wait[s] = r.idx[s]]
    IN IF r.idx[s] \in r.plan.hold[s]
       THEN Transition(holding, ActiveState(holding))
       ELSE Advance(r, {s}, r.idx)

ArrivalParticipants(r) ==
    IF r.plan.mode = "SWARM_LEADER" THEN {r.leader} ELSE r.plan.parts

ActiveParticipants(r) ==
    IF r.plan.mode = "SWARM_LEADER" THEN r.active ELSE r.plan.parts

\* Deviation: the waits outlive the run.
CancelledWaiting(r) ==
    IF ReturnOwned(r) THEN ReturnTo(r, "SUPPRESSED")
    ELSE IF Live(r) THEN [r EXCEPT !.state = "CANCELLED", !.rev = @ + 2] ELSE r

Cancelled(r) ==
    IF ReturnOwned(r)
    THEN LET q == ReturnTo(r, "SUPPRESSED")
         IN IF q.state = "COMPLETED" THEN Transition(q, "CANCELLED") ELSE q
    ELSE IF Live(r)
    THEN [r EXCEPT !.state = "CANCELLED", !.rev = @ + 2, !.wait = NoWait]
    ELSE r

\* Deviation: an alarm ends the run but leaves its Return armed.
InterruptedReturning(r, d) ==
    IF d \in ActiveParticipants(r) /\ (ReturnOwned(r) \/ Live(r))
    THEN Transition([r EXCEPT !.wait = NoWait], "INTERRUPTED") ELSE r

Interrupted(r, d) ==
    IF d \notin ActiveParticipants(r) THEN r
    ELSE IF ReturnOwned(r)
    THEN Transition(ReturnTo(r, "SUPPRESSED"), "INTERRUPTED")
    ELSE IF Live(r) /\ (r.plan.mode = "SWARM_LEADER" => d = r.leader)
    THEN Transition([r EXCEPT !.wait = NoWait], "INTERRUPTED")
    ELSE r

\* Deviation: a failure without a revision.
FailedUnrevised(r) ==
    IF Live(r) THEN [r EXCEPT !.wait = NoWait, !.state = "FAILED"] ELSE r

\* Deviation: a late failure relabels a run that has already ended.
FailedLate(r) == Transition([r EXCEPT !.wait = NoWait], "FAILED")

Failed(r) ==
    IF Live(r) THEN Transition([r EXCEPT !.wait = NoWait], "FAILED") ELSE r

\* No order of any kind goes out for a run whose record could not be saved.
Faulted(r) ==
    LET stopped == [r EXCEPT !.wait = NoWait]
    IN IF ReturnOwned(r)
       THEN Transition(ReturnTo(stopped, "FAILED"), "INTERRUPTED")
       ELSE IF Live(r) THEN Transition(stopped, "INTERRUPTED") ELSE r

-----------------------------------------------------------------------------
(* Frames of the history variables                                         *)

Quiet(id) ==
    /\ named' = id
    /\ out' = {}
    /\ sent' = sent \cup out
    /\ UNCHANGED <<deploy, nextRunID>>

Emit(intents) ==
    /\ named' = 0
    /\ out' = intents
    /\ sent' = sent \cup out
    /\ UNCHANGED <<deploy, nextRunID>>

\* BeginSwarmOperatorTakeover and CompleteSwarmOperatorTakeover are called
\* under one hold of the server's missionDispatchMu.  Of the other methods
\* only telemetry, Poll and late command results are called without it.
DispatchFree == ~run.pending

-----------------------------------------------------------------------------
(* Start, Cancel, Interrupt, Fail                                          *)

CanStart(p, op, id) ==
    /\ ~ReturnOwned(run)
    /\ ~Live(run)
    /\ ~(op # NoOp /\ run.op = op)
    /\ Valid(p)
    /\ Eligible(p)
    /\ id > nextRunID

StartOp(p, op, id) ==
    /\ DispatchFree
    /\ CanStart(p, op, id)
    /\ run' = FreshRun(p, op, id)
    /\ nextRunID' = id
    /\ named' = id
    /\ out' = {}
    /\ sent' = {}
    /\ UNCHANGED deploy

\* Deviation: the run id is not compared.
CancelAny(id) ==
    /\ DispatchFree
    /\ run' = Cancelled(run)
    /\ Quiet(id)

Cancel(id) ==
    /\ DispatchFree
    /\ run' = IF run.id = id THEN Cancelled(run) ELSE run
    /\ Quiet(id)

Interrupt(d) ==
    /\ DispatchFree
    /\ run.id # 0
    /\ run' = Interrupted(run, d)
    /\ Quiet(0)

\* The record of run id at revision rev could not be saved.
PersistenceFault(id, rev) ==
    /\ DispatchFree
    /\ run' = IF run.id = id /\ run.rev = rev THEN Faulted(run) ELSE run
    /\ Quiet(id)

\* A command result.  Only these profiles fail a run for one: the group and
\* the swarm adapter note the rejection instead, and the shadow sends nothing.
Fail(id) ==
    /\ deploy.profile \in {"core-single", "core-single-wait", "core-separate"}
    /\ run' = IF run.id = id THEN Failed(run) ELSE run
    /\ Quiet(id)

\* The result of a send this run made, reported once per index, or of a send
\* an earlier run made.
NoteParticipantRejected(id, i, d) ==
    /\ \/ id < run.id
       \/ id = run.id /\ \E m \in sent \cup out : m.idx = i /\ m.drone = d
    /\ deploy.profile \in {"core-grouped-multi", "core-swarm-leader"}
    /\ d \notin run.rejects
    /\ run' = IF /\ run.id = id
                 /\ Live(run)
                 /\ d \in run.plan.parts
                 /\ i = run.idx[0]
                 /\ run.plan.mode = "SWARM_LEADER" => d = run.leader
                 /\ run.claimed[0] = i
              THEN [run EXCEPT !.rejects = @ \cup {d}, !.rev = @ + 1]
              ELSE run
    /\ Quiet(id)

-----------------------------------------------------------------------------
(* Telemetry and the WAIT timer                                            *)

\* Deviation: a group is judged against targets not claimed yet.
ObserveUnclaimed(d) ==
    /\ run.plan.mode # "SEPARATE"
    /\ d \in ArrivalParticipants(run) \ run.arrived
    /\ run.idx[0] < run.plan.len[0]
    /\ LET seen == [run EXCEPT !.arrived = @ \cup {d}]
       IN run' = IF ArrivalParticipants(run) \subseteq seen.arrived
                 THEN ReachWaypoint(seen, 0) ELSE seen

\* A fresh, valid sample of d inside the arrival radius of its target.
ObserveShared(d) ==
    /\ run.plan.mode # "SEPARATE"
    /\ d \in ArrivalParticipants(run) \ run.arrived
    /\ run.idx[0] < run.plan.len[0]
    /\ deploy.profile = "core-grouped-multi" => run.claimed[0] = run.idx[0]
    /\ LET seen == [run EXCEPT !.arrived = @ \cup {d}]
       IN run' = IF ArrivalParticipants(run) \subseteq seen.arrived
                 THEN ReachWaypoint(seen, 0) ELSE seen

ObserveSeparate(d) ==
    /\ run.plan.mode = "SEPARATE"
    /\ d \in run.plan.parts
    /\ run.wait[d] = None
    /\ run.idx[d] < run.plan.len[d]
    /\ run' = ReachWaypoint(run, d)

Observe(d) ==
    /\ run.state = "RUNNING"
    /\ ~run.pending
    /\ ObserveShared(d) \/ ObserveSeparate(d)
    /\ Quiet(0)

\* Deviation: only a run that still flies polls its timers.
PollFlying(due) ==
    /\ run.state = "RUNNING"
    /\ due # {}
    /\ \A s \in due : run.wait[s] # None
    /\ run' = Advance(run, due, run.wait)
    /\ Quiet(0)

Poll(due) ==
    /\ Live(run)
    /\ due # {}
    /\ \A s \in due : run.wait[s] # None
    /\ run' = Advance(run, due, run.wait)
    /\ Quiet(0)

-----------------------------------------------------------------------------
(* Claims: each returns intents the server executes after Engine.mu        *)

ScopeOf(r, d) == IF r.plan.mode = "SEPARATE" THEN d ELSE 0

\* Deviation: the claim marker is not consulted.
ClaimableAgain(r, s) == r.idx[s] < r.plan.len[s] /\ r.wait[s] = None

Claimable(r, s) ==
    r.idx[s] < r.plan.len[s] /\ r.wait[s] = None /\ r.claimed[s] # r.idx[s]

\* The drones the claim of this profile addresses: the leader alone, the one
\* participant, the whole group, or every SEPARATE drone with a new index.
Addressees(r) == {d \in ArrivalParticipants(r) : Claimable(r, ScopeOf(r, d))}

Intent(kind, d, i) ==
    [kind |-> kind, id |-> run.id, drone |-> d, idx |-> i]

ClaimGoto ==
    /\ DispatchFree
    /\ Authority
    /\ run.state = "RUNNING"
    /\ Addressees(run) # {}
    /\ LET scopes == {ScopeOf(run, d) : d \in Addressees(run)}
       IN run' = [run EXCEPT !.claimed =
                     [s \in Scopes |-> IF s \in scopes THEN run.idx[s]
                                       ELSE run.claimed[s]]]
    /\ Emit({Intent("GOTO", d, run.idx[ScopeOf(run, d)]) : d \in Addressees(run)})

\* Deviation: the HOLD is claimed for a waypoint the drone still flies to.
ClaimHoldEarly ==
    /\ deploy.profile = "core-single-wait"
    /\ Live(run)
    /\ run.idx[0] \in run.plan.hold[0]
    /\ run.held # run.idx[0]
    /\ run' = [run EXCEPT !.held = run.idx[0]]
    /\ Emit({Intent("HOLD", d, run.idx[0]) : d \in run.plan.parts})

ClaimHold ==
    /\ deploy.profile = "core-single-wait"
    /\ run.state = "WAITING"
    /\ run.wait[0] # None
    /\ run.held # run.wait[0]
    /\ run' = [run EXCEPT !.held = run.wait[0]]
    /\ Emit({Intent("HOLD", d, run.wait[0]) : d \in run.plan.parts})

-----------------------------------------------------------------------------
(* Operator takeover of one drone of a SWARM_LEADER run                    *)

\* Deviation: drones taken over before come back.
RestOfPlan(d) == run.plan.parts \ {d}

Rest(d) == run.active \ {d}

FirstBy(p, S) == {d \in S : \A e \in S : p.rank[d] <= p.rank[e]}

BeginTakeover(d, fit) ==
    /\ DispatchFree
    /\ deploy.profile = "core-swarm-leader"
    /\ Live(run)
    /\ d \in run.active
    /\ LET heirs == FirstBy(run.plan, Rest(d) \cap fit)
           excluding == [run EXCEPT !.active = Rest(d), !.excluded = @ \cup {d},
                                    !.retParts = Rest(d), !.gen = @ + 1]
       IN \/ /\ Cardinality(Rest(d)) >= 2
             /\ d # run.leader
             /\ run' = [excluding EXCEPT !.pending = TRUE, !.state = "RUNNING",
                                         !.rev = @ + 1]
          \/ /\ Cardinality(Rest(d)) >= 2
             /\ d = run.leader
             /\ \E h \in heirs :
                   run' = [excluding EXCEPT !.pending = TRUE, !.leader = h,
                               !.claimed[0] = None, !.arrived = {},
                               !.state = "RUNNING", !.rev = @ + 1]
          \/ /\ Cardinality(Rest(d)) < 2 \/ (d = run.leader /\ heirs = {})
             /\ run' = [excluding EXCEPT !.leader = 0, !.wait = NoWait,
                                         !.state = "INTERRUPTED", !.rev = @ + 1]
    /\ Quiet(0)

CompleteTakeover(rebound) ==
    /\ run.pending
    /\ Live(run)
    /\ LET closed == [run EXCEPT !.pending = FALSE]
       IN run' = IF rebound THEN Transition(closed, "RUNNING")
                 ELSE Transition([closed EXCEPT !.wait = NoWait], "INTERRUPTED")
    /\ Quiet(run.id)

-----------------------------------------------------------------------------
(* The Return that may follow a naturally completed run                    *)

\* Deviation: a Return that is already under way is claimed again.
ClaimReturnAgain ==
    /\ DispatchFree
    /\ Authority
    /\ deploy.returns
    /\ run.state = "COMPLETED"
    /\ ReturnOwned(run)
    /\ run' = ReturnTo(run, "RETURNING")
    /\ Emit({Intent("RETURN", d, None) : d \in run.retParts})

ClaimReturnIntent ==
    /\ DispatchFree
    /\ Authority
    /\ deploy.returns
    /\ run.state = "COMPLETED"
    /\ run.ret = "PENDING"
    /\ run' = ReturnTo(run, "RETURNING")
    /\ Emit({Intent("RETURN", d, None) : d \in run.retParts})

CompleteReturn(id) ==
    /\ run' = IF run.id = id /\ run.ret = "RETURNING"
              THEN ReturnTo(run, "COMPLETED") ELSE run
    /\ Quiet(id)

\* FailReturn and SuppressReturn differ only in the state they leave behind.
EndReturn(id, s) ==
    /\ run' = IF run.id = id /\ ReturnOwned(run) THEN ReturnTo(run, s) ELSE run
    /\ Quiet(id)

-----------------------------------------------------------------------------

Init ==
    /\ deploy \in Deployments
    /\ run = NoRun
    /\ nextRunID = 0
    /\ named = 0
    /\ out = {}
    /\ sent = {}

RunIds == 1..MaxRun

Next ==
    \/ \E p \in Plans, op \in Ops \cup {NoOp}, id \in RunIds : StartOp(p, op, id)
    \/ \E id \in RunIds : Cancel(id)
    \/ \E d \in Drones : Interrupt(d)
    \/ \E id \in RunIds, rev \in 0 .. run.rev : PersistenceFault(id, rev)
    \/ \E id \in RunIds : Fail(id)
    \/ \E m \in sent \cup out, id \in RunIds :
          NoteParticipantRejected(id, m.idx, m.drone)
    \/ \E d \in Drones : Observe(d)
    \/ \E due \in SUBSET Scopes : Poll(due)
    \/ ClaimGoto
    \/ ClaimHold
    \/ \E d \in Drones, fit \in SUBSET Drones : BeginTakeover(d, fit)
    \/ \E rebound \in BOOLEAN : CompleteTakeover(rebound)
    \/ ClaimReturnIntent
    \/ \E id \in RunIds : CompleteReturn(id)
    \/ \E id \in RunIds, s \in {"FAILED", "SUPPRESSED"} : EndReturn(id, s)

Spec == Init /\ [][Next]_vars

\* The observer ticks for ever and time passes: a deadline is found due.
FairSpec == Spec /\ WF_vars(\E due \in SUBSET Scopes : Poll(due))

-----------------------------------------------------------------------------
(* Properties                                                              *)

RunType ==
    [id: Nat, plan: PlanType, op: Ops \cup {NoOp},
     state: TerminalStates \cup {"NONE", "RUNNING", "WAITING"}, rev: Nat,
     idx: [Scopes -> Nat], claimed: [Scopes -> Nat \cup {None}],
     held: Nat \cup {None}, arrived: SUBSET Drones, rejects: SUBSET Drones,
     wait: [Scopes -> Nat \cup {None}], leader: {0} \cup Drones,
     active: SUBSET Drones, excluded: SUBSET Drones, gen: Nat,
     pending: BOOLEAN, ret: ReturnStates, retParts: SUBSET Drones]

IntentType ==
    [kind: {"GOTO", "HOLD", "RETURN"}, id: Nat, drone: Drones,
     idx: Nat \cup {None}]

\* Every variable has its type.
TypeOK ==
    /\ deploy \in Deployments
    /\ run \in RunType
    /\ nextRunID \in Nat
    /\ named \in Nat
    /\ out \subseteq IntentType
    /\ sent \subseteq IntentType

\* No drone is told twice to fly to one index, to hold at one index or to
\* return, and none is sent back to an earlier index: repeated wakeups of the
\* dispatcher, leader succession and late results never duplicate a command.
CommandsAdvance ==
    \A m \in out, n \in sent :
        m.kind = n.kind /\ m.drone = n.drone => m.idx > n.idx

\* A HOLD is for the WAIT being held: it is never returned before the arrival,
\* nor once the drone has been sent onward, when it would stop the next leg.
HoldInTime ==
    \A m \in out : m.kind = "HOLD" =>
        /\ run.wait[0] = m.idx
        /\ \A n \in sent : n.kind = "GOTO" => n.idx <= m.idx

\* The group passes an index only after every participant was sent to it: a
\* stray sample between advance and dispatch never moves the barrier.
GroupBarrier ==
    deploy.profile = "core-grouped-multi" /\ run.id # 0 =>
        \A k \in 0 .. run.idx[0] - 1, d \in run.plan.parts :
            Intent("GOTO", d, k) \in sent \cup out

\* A wait belongs to a live run, to the index its scope is at and to a waypoint
\* that carries a WAIT; the run is WAITING exactly when no scope still flies;
\* a live run has a waypoint left, and only a finished one is COMPLETED.
WaitsSound ==
    /\ \A s \in Scopes : run.wait[s] # None =>
          /\ Live(run) /\ s \in RouteScopes(run.plan)
          /\ run.wait[s] = run.idx[s] /\ run.idx[s] \in run.plan.hold[s]
    /\ Live(run) => run.state = ActiveState(run) /\ ~Finished(run)
    /\ run.state = "COMPLETED" => Finished(run)
    /\ \A s \in Scopes : run.idx[s] <= run.plan.len[s]

\* Takeovers and successions keep the swarm partitioned into active and
\* excluded participants; a live run has an active leader and a follower, no
\* leader ever comes from the excluded, and a pending handoff is of a live run.
\* (What ValidateDurableMissionRecord demands of every saved record.)
MembershipSound ==
    run.plan.mode = "SWARM_LEADER" =>
        /\ run.active \cap run.excluded = {}
        /\ run.active \cup run.excluded = run.plan.parts
        /\ run.leader # 0 => run.leader \in run.active
        /\ Authority /\ Live(run) =>
              run.leader # 0 /\ Cardinality(run.active) >= 2
        /\ run.pending => Live(run)

\* Return authority exists only over a run that completed naturally under a
\* Return policy, and covers exactly the drones still in the mission: a drone
\* the operator took over is never returned by the mission.
ReturnDiscipline ==
    /\ ReturnOwned(run) =>
          run.state = "COMPLETED" /\ run.plan.ret /\ Authority
    /\ run.id # 0 => run.retParts = ActiveParticipants(run)
    /\ \A m \in sent \cup out : m.kind = "RETURN" =>
          Finished(run) /\ m.drone \notin run.excluded

\* What a durable record shows an operator after a restart.
Durable(r) ==
    <<r.state, r.idx, r.wait, r.rejects, r.leader, r.active, r.excluded, r.gen,
      r.pending, r.ret, r.retParts>>

\* Every operator-visible change is a new revision: persistMissionState skips
\* a record of an unchanged revision, so progress without one would be lost.
RevisionBoundary ==
    [][run'.id = run.id /\ Durable(run') # Durable(run)
          => run'.rev > run.rev]_vars

\* A run that has ended stays ended: its indexes and membership are frozen, a
\* settled Return is never re-opened, and only a run still owning a Return may
\* change its label, to CANCELLED or INTERRUPTED.
EndedIsFinal ==
    [][run'.id = run.id /\ Terminal(run) =>
          /\ run'.idx = run.idx /\ run'.active = run.active
          /\ run'.state # run.state =>
                ReturnOwned(run) /\ run'.state \in {"CANCELLED", "INTERRUPTED"}
          /\ run.ret \in {"COMPLETED", "SUPPRESSED", "FAILED"} =>
                run'.ret = run.ret]_vars

\* A cancel, a late command result or a late Return result that names another
\* run changes nothing, however long it was delayed.
StaleCallsInert ==
    [][named' \notin {0, run'.id} => run' = run]_vars

\* Every WAIT ends: its timer fires while the run lives.
HoldsEnd ==
    \A s \in Scopes : run.wait[s] # None ~> run.wait[s] = None

-----------------------------------------------------------------------------
(* The engine keeps the mission contract                                   *)

Phase ==
    IF run.id = 0 THEN "none"
    ELSE IF Live(run) THEN "active"
    ELSE IF ReturnOwned(run) THEN "return" ELSE "ended"

Order ==
    IF out = {} THEN "none"
    ELSE IF \E m \in out : m.kind = "RETURN" THEN "return" ELSE "navigate"

Contract == INSTANCE MissionContract
    WITH current <- run.id, phase <- Phase, order <- Order,
         returned <- \E m \in sent \cup out : m.kind = "RETURN"

\* Each step of the engine is a step the contract allows, or changes nothing
\* the contract speaks of.
ContractKept == Contract!Spec

=============================================================================
