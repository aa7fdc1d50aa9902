------------------------- MODULE MissionProgressProofs -------------------------
(***************************************************************************)
(* How a mission run of MissionEngine progresses, for every set of drones, *)
(* plans and deployments: its waits, the membership of its swarm and the   *)
(* Return that follows it.                                                 *)
(*                                                                         *)
(* A step does to the run what one of a few relations allows (Course): it  *)
(* stays where it is or ends (Steady), passes waypoints (Passed), halts at *)
(* one (Halted), is commanded or handed over.  The invariant Progress is   *)
(* then shown relation by relation, and not action by action.              *)
(***************************************************************************)
EXTENDS MissionEngineProofs

-----------------------------------------------------------------------------
(* The invariant                                                           *)

\* A run was started from a plan that its deployment accepts.
Admitted == run.id # 0 => Valid(run.plan) /\ Eligible(run.plan)

\* A WAIT is held at a waypoint still to be passed.
Resting == \A s \in Scopes : run.wait[s] # None => run.idx[s] < run.plan.len[s]

\* Only the swarm profile hands over, and only a run that lives.
Handed == run.pending => Live(run) /\ deploy.profile = "core-swarm-leader"

\* Only a swarm loses participants.
Unmixed == run.plan.mode # "SWARM_LEADER" => run.excluded = {}

Progress ==
    /\ Admitted /\ Resting /\ Handed /\ Unmixed
    /\ WaitsSound /\ MembershipSound /\ ReturnDiscipline

\* The invariant of all steps.
Inv == Base /\ ReturnOnce /\ Progress

-----------------------------------------------------------------------------
(* What a step does to the run                                             *)

\* Neither the plan nor the membership changes.
SameCrew(r, q) ==
    /\ q.id = r.id /\ q.plan = r.plan /\ q.leader = r.leader
    /\ q.active = r.active /\ q.excluded = r.excluded
    /\ q.pending = r.pending /\ q.retParts = r.retParts
    /\ q.claimed = r.claimed /\ q.held = r.held

\* The run stays where it is; it may end, and its Return may be settled.
Steady(r, q) ==
    /\ SameCrew(r, q)
    /\ q.idx = r.idx
    /\ \/ q.state = r.state /\ q.wait = r.wait
       \/ /\ ~Live(q) /\ q.state # "COMPLETED"
          /\ q.wait = NoWait \/ (~Live(r) /\ q.wait = r.wait)
    /\ ReturnOwned(q) => ReturnOwned(r) /\ q.state = r.state

\* The scopes due pass the waypoint they are at.
Passed(r, q, due) ==
    /\ SameCrew(r, q)
    /\ q.idx = [s \in Scopes |-> IF s \in due THEN r.idx[s] + 1 ELSE r.idx[s]]
    /\ q.wait = [s \in Scopes |-> IF s \in due THEN None ELSE r.wait[s]]
    /\ IF Finished(q)
       THEN q.state = "COMPLETED" /\ (q.ret = r.ret \/ (Authority /\ r.plan.ret))
       ELSE q.state = ActiveState(q) /\ q.ret = r.ret

\* Scope s starts the WAIT of the waypoint it is at.
Halted(r, q, s) ==
    /\ SameCrew(r, q)
    /\ q.idx = r.idx
    /\ q.wait = [r.wait EXCEPT ![s] = r.idx[s]]
    /\ q.state = ActiveState(q) /\ q.ret = r.ret

\* Scope s has a waypoint to pass.
Flies(r, s) == s \in RouteScopes(r.plan) /\ r.idx[s] < r.plan.len[s]

LEMMA EndingsSteady ==
    ASSUME NEW r \in RunType, ReturnOwned(r) => r.state = "COMPLETED"
    PROVE  Steady(r, Cancelled(r)) /\ Steady(r, Failed(r)) /\ Steady(r, Faulted(r))
           /\ \A d \in Drones : Steady(r, Interrupted(r, d))
<1>1. Steady(r, r)
  BY DEF Steady, SameCrew
<1>2. ASSUME ReturnOwned(r)
      PROVE  /\ Steady(r, ReturnTo(r, "SUPPRESSED"))
             /\ Steady(r, Transition(ReturnTo(r, "SUPPRESSED"), "CANCELLED"))
             /\ Steady(r, Transition(ReturnTo(r, "SUPPRESSED"), "INTERRUPTED"))
             /\ Steady(r, Transition(ReturnTo([r EXCEPT !.wait = NoWait], "FAILED"),
                                     "INTERRUPTED"))
  BY <1>2 DEF Steady, SameCrew, ReturnTo, Transition, RunType, Live, ReturnOwned
<1>3. ASSUME ~ReturnOwned(r)
      PROVE  /\ Steady(r, [r EXCEPT !.state = "CANCELLED", !.rev = @ + 2,
                                    !.wait = NoWait])
             /\ Steady(r, Transition([r EXCEPT !.wait = NoWait], "INTERRUPTED"))
             /\ Steady(r, Transition([r EXCEPT !.wait = NoWait], "FAILED"))
  BY <1>3 DEF Steady, SameCrew, Transition, RunType, Live, ReturnOwned
<1>4. Live(r) => ~ReturnOwned(r)
  BY DEF Live
<1> QED BY <1>1, <1>2, <1>3, <1>4 DEF Cancelled, Failed, Faulted, Interrupted

\* Settling a Return leaves the run where it is.
LEMMA ReturnSteady ==
    ASSUME NEW r \in RunType, ReturnOwned(r), NEW s \in ReturnStates
    PROVE  Steady(r, ReturnTo(r, s))
  BY DEF Steady, SameCrew, ReturnTo, RunType, Live, ReturnOwned

LEMMA AdvancePasses ==
    ASSUME NEW r \in RunType, NEW due \in SUBSET Scopes,
           NEW at, \A s \in due : at[s] = r.idx[s]
    PROVE  Passed(r, Advance(r, due, at), due)
<1> DEFINE moved == [r EXCEPT
            !.idx = [s \in Scopes |-> IF s \in due THEN at[s] + 1 ELSE r.idx[s]],
            !.wait = [s \in Scopes |-> IF s \in due THEN None ELSE r.wait[s]],
            !.arrived = {}, !.rejects = {},
            !.rev = @ + Cardinality(due)]
<1>1. /\ SameCrew(r, moved) /\ moved.ret = r.ret
      /\ moved.idx = [s \in Scopes |-> IF s \in due THEN r.idx[s] + 1 ELSE r.idx[s]]
      /\ moved.wait = [s \in Scopes |-> IF s \in due THEN None ELSE r.wait[s]]
      /\ DOMAIN moved = DOMAIN r
  BY DEF RunType, SameCrew
<1>2. Advance(r, due, at) = IF Finished(moved)
                            THEN ArmNaturalReturn([moved EXCEPT !.state = "COMPLETED"])
                            ELSE [moved EXCEPT !.state = ActiveState(moved)]
  BY DEF Advance
<1> HIDE DEF moved
<1>3. ASSUME NEW q, SameCrew(r, q), q.idx = moved.idx, q.wait = moved.wait
      PROVE  /\ Finished(q) <=> Finished(moved)
             /\ ActiveState(q) = ActiveState(moved)
  BY <1>1, <1>3 DEF Finished, ActiveState, Transiting, SameCrew
<1>4. CASE Finished(moved)
  <2> DEFINE done == [moved EXCEPT !.state = "COMPLETED"]
  <2>1. /\ SameCrew(r, done) /\ done.idx = moved.idx /\ done.wait = moved.wait
        /\ done.ret = r.ret /\ done.state = "COMPLETED" /\ DOMAIN done = DOMAIN r
    BY <1>1 DEF RunType, SameCrew
  <2> HIDE DEF done
  <2>2. /\ SameCrew(r, ReturnTo(done, "PENDING"))
        /\ ReturnTo(done, "PENDING").idx = moved.idx
        /\ ReturnTo(done, "PENDING").wait = moved.wait
        /\ ReturnTo(done, "PENDING").state = "COMPLETED"
    BY <2>1 DEF ReturnTo, RunType, SameCrew
  <2>3. ArmNaturalReturn(done) =
          IF Authority /\ deploy.returns /\ r.plan.ret THEN ReturnTo(done, "PENDING")
          ELSE done
    BY <2>1 DEF ArmNaturalReturn, SameCrew
  <2>4. Passed(r, done, due)
    BY <1>1, <1>3, <1>4, <2>1 DEF Passed
  <2>5. Authority /\ r.plan.ret => Passed(r, ReturnTo(done, "PENDING"), due)
    BY <1>1, <1>3, <1>4, <2>2 DEF Passed
  <2> QED BY <1>2, <1>4, <2>3, <2>4, <2>5 DEF done
<1>5. CASE ~Finished(moved)
  <2> DEFINE on == [moved EXCEPT !.state = ActiveState(moved)]
  <2>1. /\ SameCrew(r, on) /\ on.idx = moved.idx /\ on.wait = moved.wait
        /\ on.ret = r.ret /\ on.state = ActiveState(moved)
    BY <1>1 DEF RunType, SameCrew
  <2> HIDE DEF on
  <2>2. Passed(r, on, due)
    BY <1>1, <1>3, <1>5, <2>1 DEF Passed
  <2> QED BY <1>2, <1>5, <2>2 DEF on
<1> QED BY <1>4, <1>5

LEMMA ReachHalts ==
    ASSUME NEW r \in RunType, NEW s \in Scopes
    PROVE  \/ r.idx[s] \in r.plan.hold[s] /\ Halted(r, ReachWaypoint(r, s), s)
           \/ Passed(r, ReachWaypoint(r, s), {s})
<1> DEFINE holding == [r EXCEPT !.wait[s] = r.idx[s]]
           q == Transition(holding, ActiveState(holding))
<1>1. Passed(r, Advance(r, {s}, r.idx), {s})
  BY AdvancePasses
<1>2. /\ SameCrew(r, holding) /\ holding.idx = r.idx /\ holding.ret = r.ret
      /\ holding.wait = [r.wait EXCEPT ![s] = r.idx[s]] /\ DOMAIN holding = DOMAIN r
  BY DEF RunType, SameCrew
<1>3. ReachWaypoint(r, s) = IF r.idx[s] \in r.plan.hold[s] THEN q
                            ELSE Advance(r, {s}, r.idx)
  BY DEF ReachWaypoint
<1> HIDE DEF holding
<1>4. /\ SameCrew(r, q) /\ q.idx = r.idx /\ q.ret = r.ret
      /\ q.wait = holding.wait /\ q.state = ActiveState(holding)
  BY <1>2 DEF Transition, RunType, SameCrew
<1> HIDE DEF q
<1>5. ActiveState(q) = ActiveState(holding)
  BY <1>2, <1>4 DEF ActiveState, Transiting, SameCrew
<1> QED BY <1>1, <1>2, <1>3, <1>4, <1>5 DEF Halted

\* What a step does to the run, and with which intents.
Course ==
    \/ Started
    \/ /\ Steady(run, run') /\ (run.pending => Live(run'))
       /\ out' = {} \/ ClaimReturnIntent
    \/ \E due \in SUBSET Scopes :
          /\ Live(run) /\ ~run.pending /\ \A s \in due : Flies(run, s)
          /\ deploy.profile = "core-grouped-multi" => run.claimed[0] = run.idx[0]
          /\ Passed(run, run', due) /\ out' = {}
    \/ \E s \in Scopes :
          /\ Live(run) /\ ~run.pending /\ Flies(run, s)
          /\ run.idx[s] \in run.plan.hold[s]
          /\ Halted(run, run', s) /\ out' = {}
    \/ ClaimGoto
    \/ ClaimHold
    \/ \E d \in Drones, fit \in SUBSET Drones : BeginTakeover(d, fit)
    \/ \E rebound \in BOOLEAN : CompleteTakeover(rebound)

\* A group and a swarm carry no WAIT.
LEMMA NoWaiting ==
    ASSUME Inv, deploy.profile \in {"core-grouped-multi", "core-swarm-leader"},
           NEW s \in Scopes
    PROVE  run.wait[s] = None
<1> SUFFICES ASSUME run.wait[s] # None PROVE FALSE
  OBVIOUS
<1>1. Live(run) /\ s \in RouteScopes(run.plan) /\ run.idx[s] \in run.plan.hold[s]
  BY DEF Inv, Progress, WaitsSound
<1>2. Eligible(run.plan)
  BY <1>1 DEF Inv, Base, Named, Progress, Admitted
<1>3. NoWaits(run.plan)
  BY <1>2 DEF Eligible, Authority, Team
<1> QED BY <1>1, <1>3 DEF NoWaits

LEMMA ObserveCourse ==
    ASSUME Inv, NEW d \in Drones, Observe(d)
    PROVE  Course
<1>t. run \in RunType /\ Drones \subseteq Scopes /\ 0 \in Scopes
  BY DEF Inv, Base, TypeInv, Scopes
<1>l. Live(run) /\ ~run.pending /\ out' = {}
  BY DEF Observe, Live, Quiet
<1>1. ASSUME ObserveShared(d) PROVE Course
  <2> DEFINE seen == [run EXCEPT !.arrived = @ \cup {d}]
  <2>1. /\ seen \in RunType /\ SameCrew(run, seen) /\ seen.idx = run.idx
        /\ seen.wait = run.wait /\ seen.state = run.state /\ seen.ret = run.ret
    BY <1>t DEF RunType, SameCrew
  <2>2. run' \in {seen, ReachWaypoint(seen, 0)}
    BY <1>1 DEF ObserveShared
  <2>3. /\ Flies(run, 0)
        /\ deploy.profile = "core-grouped-multi" => run.claimed[0] = run.idx[0]
    BY <1>1 DEF ObserveShared, Flies, RouteScopes
  <2> HIDE DEF seen
  <2>4. CASE run' = seen
    <3>1. Steady(run, run')
      BY <2>1, <2>4 DEF Steady, ReturnOwned
    <3> QED BY <1>l, <3>1 DEF Course
  <2>5. CASE run' = ReachWaypoint(seen, 0)
    <3>1. \/ seen.idx[0] \in seen.plan.hold[0] /\ Halted(seen, run', 0)
          \/ Passed(seen, run', {0})
      BY <1>t, <2>1, <2>5, ReachHalts
    <3>2. CASE seen.idx[0] \in seen.plan.hold[0] /\ Halted(seen, run', 0)
      <4>1. run.idx[0] \in run.plan.hold[0] /\ Halted(run, run', 0)
        BY <2>1, <3>2 DEF Halted, SameCrew
      <4> QED BY <1>t, <1>l, <2>3, <4>1 DEF Course
    <3>3. CASE Passed(seen, run', {0})
      <4>1. Passed(run, run', {0})
        BY <2>1, <3>3 DEF Passed, SameCrew
      <4>2. {0} \in SUBSET Scopes /\ \A s \in {0} : Flies(run, s)
        BY <1>t, <2>3
      <4> QED BY <1>l, <2>3, <4>1, <4>2 DEF Course
    <3> QED BY <3>1, <3>2, <3>3
  <2> QED BY <2>2, <2>4, <2>5
<1>2. ASSUME ObserveSeparate(d) PROVE Course
  <2>1. run' = ReachWaypoint(run, d) /\ Flies(run, d) /\ d \in Scopes
    BY <1>t, <1>2 DEF ObserveSeparate, Flies, RouteScopes
  <2>2. deploy.profile # "core-grouped-multi"
    <3>1. run.plan.mode = "SEPARATE" /\ Eligible(run.plan)
      BY <1>2, <1>l DEF ObserveSeparate, Inv, Base, Named, Progress, Admitted
    <3> QED BY <3>1 DEF Eligible, Team, Authority
  <2>3. \/ run.idx[d] \in run.plan.hold[d] /\ Halted(run, run', d)
        \/ Passed(run, run', {d})
    BY <1>t, <2>1, ReachHalts
  <2>4. {d} \in SUBSET Scopes /\ \A s \in {d} : Flies(run, s)
    BY <2>1
  <2> QED BY <1>l, <2>1, <2>2, <2>3, <2>4 DEF Course
<1> QED BY <1>1, <1>2 DEF Observe

\* Every step takes the run along one of these courses.
LEMMA StepCourse ==
    ASSUME Inv, Next
    PROVE  Course
<1>t. run \in RunType /\ deploy \in Deployments
  BY DEF Inv, Base, TypeInv
<1>o. ReturnOwned(run) => run.state = "COMPLETED"
  BY DEF Inv, Progress, ReturnDiscipline
<1>h. run.pending => Live(run) /\ deploy.profile = "core-swarm-leader"
  BY DEF Inv, Progress, Handed
<1>s. ASSUME Steady(run, run'), run.pending => run'.state = run.state, out' = {}
      PROVE  Course
  BY <1>s, <1>h DEF Course, Live
<1>r. Steady(run, run)
  BY DEF Steady, SameCrew
<1>1. ASSUME NEW id \in RunIds, Cancel(id) PROVE Course
  BY <1>1, <1>t, <1>o, <1>s, <1>r, EndingsSteady DEF Cancel, DispatchFree, Quiet
<1>2. ASSUME NEW d \in Drones, Interrupt(d) PROVE Course
  BY <1>2, <1>t, <1>o, <1>s, EndingsSteady DEF Interrupt, DispatchFree, Quiet
<1>3. ASSUME NEW id \in RunIds, NEW rev \in 0 .. run.rev, PersistenceFault(id, rev)
      PROVE  Course
  BY <1>3, <1>t, <1>o, <1>s, <1>r, EndingsSteady
     DEF PersistenceFault, DispatchFree, Quiet
<1>4. ASSUME NEW id \in RunIds, Fail(id) PROVE Course
  <2>1. ~run.pending
    BY <1>4, <1>h DEF Fail
  <2> QED BY <1>4, <2>1, <1>t, <1>o, <1>s, <1>r, EndingsSteady DEF Fail, Quiet
<1>5. ASSUME NEW m \in sent \cup out, NEW id \in RunIds,
             NoteParticipantRejected(id, m.idx, m.drone)
      PROVE  Course
  <2>1. ASSUME NEW d, run' = [run EXCEPT !.rejects = @ \cup {d}, !.rev = @ + 1]
        PROVE  Steady(run, run') /\ run'.state = run.state
    BY <2>1, <1>t DEF Steady, SameCrew, RunType, ReturnOwned
  <2> QED BY <1>5, <2>1, <1>s, <1>r DEF NoteParticipantRejected, Quiet
<1>6. ASSUME NEW d \in Drones, Observe(d) PROVE Course
  BY <1>6, ObserveCourse
<1>7. ASSUME NEW due \in SUBSET Scopes, Poll(due) PROVE Course
  <2>1. /\ Live(run) /\ due # {} /\ out' = {} /\ run' = Advance(run, due, run.wait)
        /\ \A s \in due : run.wait[s] # None
    BY <1>7 DEF Poll, Quiet
  <2>2. \A s \in due : run.wait[s] = run.idx[s] /\ Flies(run, s)
    BY <2>1 DEF Inv, Progress, WaitsSound, Resting, Flies
  <2>3. Passed(run, run', due)
    BY <1>t, <2>1, <2>2, AdvancePasses
  <2>4. deploy.profile \notin {"core-grouped-multi", "core-swarm-leader"}
    BY <2>1, NoWaiting
  <2> QED BY <1>h, <2>1, <2>2, <2>3, <2>4 DEF Course
<1>8. CASE ClaimReturnIntent
  <2>1. Steady(run, run') /\ ~run.pending
    BY <1>8, <1>t, ReturnSteady
       DEF ClaimReturnIntent, ReturnOwned, ReturnStates, DispatchFree
  <2> QED BY <1>8, <2>1 DEF Course
<1>9. ASSUME NEW id \in RunIds, CompleteReturn(id) PROVE Course
  <2>1. Steady(run, run') /\ run'.state = run.state
    BY <1>9, <1>t, <1>r, ReturnSteady
       DEF CompleteReturn, ReturnOwned, ReturnStates, ReturnTo, RunType
  <2> QED BY <1>9, <2>1, <1>s DEF CompleteReturn, Quiet
<1>10. ASSUME NEW id \in RunIds, NEW s \in {"FAILED", "SUPPRESSED"}, EndReturn(id, s)
       PROVE  Course
  <2>1. Steady(run, run') /\ run'.state = run.state
    BY <1>10, <1>t, <1>r, ReturnSteady DEF EndReturn, ReturnStates, ReturnTo, RunType
  <2> QED BY <1>10, <2>1, <1>s DEF EndReturn, Quiet
<1> QED
  BY <1>1, <1>2, <1>3, <1>4, <1>5, <1>6, <1>7, <1>8, <1>9, <1>10 DEF Next, Course, Started

-----------------------------------------------------------------------------
(* Progress is kept                                                        *)

LEMMA ProgressInit == Init => Progress
<1> SUFFICES ASSUME Init PROVE Progress
  OBVIOUS
<1>1. /\ run.id = 0 /\ run.plan = NoPlan /\ run.idx = [s \in Scopes |-> 0]
      /\ run.wait = NoWait /\ run.state = "NONE" /\ run.pending = FALSE
      /\ run.excluded = {} /\ run.ret = "INACTIVE" /\ sent = {} /\ out = {}
  BY DEF Init, NoRun, FreshRun
<1>2. NoPlan.mode = "GROUPED" /\ NoPlan.len = [s \in Scopes |-> 0]
  BY DEF NoPlan
<1> QED BY <1>1, <1>2
        DEF Progress, Admitted, Resting, Handed, Unmixed, WaitsSound, MembershipSound,
            ReturnDiscipline, NoWait, Live, ReturnOwned

LEMMA StartProgress ==
    ASSUME Inv, Started
    PROVE  Progress'
<1>1. PICK p \in Plans, op \in Ops \cup {NoOp}, id \in RunIds : StartOp(p, op, id)
  BY DEF Started
<1>2. /\ Valid(p) /\ Eligible(p) /\ p \in PlanType /\ deploy' = deploy
      /\ run' = FreshRun(p, op, id) /\ out' = {} /\ sent' = {}
  BY <1>1, PlanAssumption DEF StartOp, CanStart
<1>3. /\ run'.plan = p /\ run'.idx = [s \in Scopes |-> 0] /\ run'.wait = NoWait
      /\ run'.state = "RUNNING" /\ run'.pending = FALSE /\ run'.excluded = {}
      /\ run'.ret = "INACTIVE" /\ run'.retParts = p.parts
      /\ p.mode = "SWARM_LEADER" => run'.active = p.parts /\ run'.leader = p.leader
  BY <1>2 DEF FreshRun
<1>4. /\ RouteScopes(p) # {} /\ RouteScopes(p) \subseteq Scopes
      /\ \A s \in RouteScopes(p) : p.len[s] > 0
      /\ \A s \in Scopes : p.len[s] \in Nat
  BY <1>2 DEF Valid, RouteScopes, Scopes, PlanType
<1>5. Transiting(run') /\ ~Finished(run')
  <2>1. PICK s \in RouteScopes(p) : s \in Scopes
    BY <1>4
  <2>2. run'.idx[s] = 0 /\ run'.wait[s] = None /\ p.len[s] > 0 /\ p.len[s] \in Nat
    BY <1>3, <1>4, <2>1 DEF NoWait
  <2> QED BY <1>3, <2>1, <2>2 DEF Transiting, Finished
<1>6. WaitsSound' /\ Resting'
  BY <1>2, <1>3, <1>5 DEF WaitsSound, Resting, NoWait, ActiveState, PlanType
<1>7. Eligible(p)' /\ Authority' = Authority
  BY <1>2 DEF Eligible, Authority
<1>8. MembershipSound'
  <2> SUFFICES ASSUME p.mode = "SWARM_LEADER" PROVE MembershipSound'
    BY <1>3 DEF MembershipSound
  <2>1. p.leader \in {0} \cup p.parts
    BY <1>2 DEF Valid
  <2>2. Authority => p.leader # 0 /\ Cardinality(p.parts) >= 2
    BY <1>2 DEF Eligible, Solo, Team
  <2> QED BY <1>3, <1>7, <2>1, <2>2 DEF MembershipSound
<1>9. ReturnDiscipline'
  BY <1>2, <1>3 DEF ReturnDiscipline, ReturnOwned, ActiveParticipants
<1> QED BY <1>2, <1>3, <1>6, <1>7, <1>8, <1>9
        DEF Progress, Admitted, Handed, Unmixed, Live

\* What concerns the crew alone is kept while the crew is, if a run that is
\* being handed over lives on.
LEMMA CrewProgress ==
    ASSUME Inv, SameCrew(run, run'), deploy' = deploy,
           Live(run') => Live(run), run.pending => Live(run')
    PROVE  /\ Admitted' /\ Handed' /\ Unmixed' /\ MembershipSound'
           /\ Authority' = Authority
           /\ run'.id # 0 => run'.retParts = ActiveParticipants(run')
<1>1. Authority' = Authority
  BY DEF Authority
<1>2. Admitted'
  BY <1>1 DEF Inv, Progress, Admitted, SameCrew, Eligible
<1>3. Handed' /\ Unmixed' /\ MembershipSound'
  BY <1>1 DEF Inv, Progress, Handed, Unmixed, MembershipSound, SameCrew
<1>4. run'.id # 0 => run'.retParts = ActiveParticipants(run')
  BY DEF Inv, Progress, ReturnDiscipline, ActiveParticipants, SameCrew
<1> QED BY <1>1, <1>2, <1>3, <1>4

\* No Return has gone out for a run that lives.
LEMMA LivesUnreturned ==
    ASSUME Inv, Live(run), sent' = sent \cup out,
           \A m \in out' : m.kind # "RETURN"
    PROVE  ~ReturnOwned(run) /\ \A m \in (sent \cup out)' : m.kind # "RETURN"
  BY DEF Inv, ReturnOnce, Returned

LEMMA SteadyProgress ==
    ASSUME Inv, Steady(run, run'), run.pending => Live(run'),
           deploy' = deploy, sent' = sent \cup out,
           out' = {} \/ ClaimReturnIntent
    PROVE  Progress'
<1>1. Live(run') => Live(run)
  BY DEF Steady, Live
<1>2. /\ Admitted' /\ Handed' /\ Unmixed' /\ MembershipSound'
      /\ Authority' = Authority
      /\ run'.id # 0 => run'.retParts = ActiveParticipants(run')
  BY <1>1, CrewProgress DEF Steady
<1>3. run'.idx = run.idx /\ run'.plan = run.plan /\ run'.excluded = run.excluded
  BY DEF Steady, SameCrew
<1>4. \A s \in Scopes : run'.wait[s] # None => run'.wait[s] = run.wait[s] /\ Live(run')
  BY DEF Steady, Live, NoWait, Inv, Progress, WaitsSound
<1>5. /\ Resting'
      /\ run'.state = "COMPLETED" => Finished(run')
      /\ \A s \in Scopes : run'.idx[s] <= run'.plan.len[s]
      /\ Finished(run') = Finished(run)
  BY <1>3, <1>4 DEF Steady, Inv, Progress, Resting, WaitsSound, Finished
<1>6. Live(run') => run'.state = ActiveState(run') /\ ~Finished(run')
  <2>1. ASSUME Live(run') PROVE run'.state = run.state /\ run'.wait = run.wait
    BY <2>1 DEF Steady
  <2> QED BY <1>3, <2>1 DEF Inv, Progress, WaitsSound, Live, ActiveState, Transiting,
                            Finished
<1>7. WaitsSound'
  BY <1>3, <1>4, <1>5, <1>6 DEF WaitsSound, Inv, Progress
<1>8. \A m \in (sent \cup out)' : m.kind = "RETURN" =>
         Finished(run') /\ m.drone \notin run'.excluded
  <2> SUFFICES ASSUME NEW m \in sent \cup out \cup out', m.kind = "RETURN"
               PROVE  Finished(run) /\ m.drone \notin run.excluded
    BY <1>3, <1>5
  <2>1. CASE m \in sent \cup out
    BY <2>1 DEF Inv, Progress, ReturnDiscipline
  <2>2. CASE m \in out'
    <3>1. /\ run.state = "COMPLETED" /\ ReturnOwned(run) /\ m.drone \in run.retParts
      BY <2>2 DEF ClaimReturnIntent, Emit, Intent, ReturnOwned
    <3>2. Finished(run) /\ m.drone \in ActiveParticipants(run)
      BY <3>1 DEF Inv, Base, Named, Progress, WaitsSound, ReturnDiscipline
    <3> QED BY <3>2 DEF Inv, Progress, MembershipSound, Unmixed, ActiveParticipants
  <2> QED BY <2>1, <2>2
<1>9. ReturnDiscipline'
  BY <1>2, <1>3, <1>8 DEF ReturnDiscipline, Steady, Inv, Progress
<1> QED BY <1>2, <1>5, <1>7, <1>9 DEF Progress

LEMMA PassedProgress ==
    ASSUME Inv, NEW due \in SUBSET Scopes, Live(run), ~run.pending,
           \A s \in due : Flies(run, s), Passed(run, run', due),
           deploy' = deploy, sent' = sent \cup out, out' = {}
    PROVE  Progress'
<1>t. \A s \in Scopes : run.idx[s] \in Nat /\ run.plan.len[s] \in Nat
  BY DEF Inv, Base, TypeInv, RunType, PlanType
<1>1. SameCrew(run, run')
  BY DEF Passed
<1>2. /\ Admitted' /\ Handed' /\ Unmixed' /\ MembershipSound'
      /\ Authority' = Authority
      /\ run'.id # 0 => run'.retParts = ActiveParticipants(run')
  BY <1>1, CrewProgress
<1>3. run'.plan = run.plan
  BY <1>1 DEF SameCrew
<1>4. \A s \in Scopes : /\ run'.idx[s] <= run'.plan.len[s]
                        /\ s \notin due => run'.idx[s] = run.idx[s]
                        /\ run'.wait[s] # None => s \notin due /\ run'.wait[s] = run.wait[s]
  BY <1>t, <1>3 DEF Passed, Flies, Inv, Progress, WaitsSound
<1>5. Resting'
  BY <1>3, <1>4 DEF Resting, Inv, Progress
<1>6. Live(run') \/ Finished(run')
  BY DEF Passed, Live, ActiveState
<1>7. ASSUME NEW s \in Scopes, run'.wait[s] # None
      PROVE  /\ Live(run') /\ s \in RouteScopes(run'.plan)
             /\ run'.wait[s] = run'.idx[s] /\ run'.idx[s] \in run'.plan.hold[s]
  <2>1. /\ s \in RouteScopes(run.plan) /\ run.wait[s] = run.idx[s]
        /\ run.idx[s] \in run.plan.hold[s] /\ run.idx[s] < run.plan.len[s]
        /\ run'.idx[s] = run.idx[s] /\ run'.wait[s] = run.wait[s]
    BY <1>4, <1>7 DEF Inv, Progress, WaitsSound, Resting
  <2>2. ~Finished(run')
    BY <1>t, <1>3, <2>1 DEF Finished
  <2> QED BY <1>3, <1>6, <2>1, <2>2
<1>8. /\ Live(run') => run'.state = ActiveState(run') /\ ~Finished(run')
      /\ run'.state = "COMPLETED" => Finished(run')
  BY DEF Passed, Live, ActiveState
<1>9. WaitsSound'
  BY <1>4, <1>7, <1>8 DEF WaitsSound
<1>10. ~ReturnOwned(run) /\ \A m \in (sent \cup out)' : m.kind # "RETURN"
  BY LivesUnreturned
<1>11. ReturnOwned(run') => run'.state = "COMPLETED" /\ run'.plan.ret /\ Authority
  BY <1>3, <1>10 DEF Passed, ReturnOwned
<1>12. ReturnDiscipline'
  BY <1>2, <1>10, <1>11 DEF ReturnDiscipline
<1> QED BY <1>2, <1>5, <1>9, <1>12 DEF Progress

LEMMA HaltedProgress ==
    ASSUME Inv, NEW s \in Scopes, Live(run), ~run.pending, Flies(run, s),
           run.idx[s] \in run.plan.hold[s], Halted(run, run', s),
           deploy' = deploy, sent' = sent \cup out, out' = {}
    PROVE  Progress'
<1>t. /\ run.wait \in [Scopes -> Nat \cup {None}]
      /\ \A e \in Scopes : run.idx[e] \in Nat /\ run.plan.len[e] \in Nat
  BY DEF Inv, Base, TypeInv, RunType, PlanType
<1>1. SameCrew(run, run') /\ run'.plan = run.plan /\ run'.idx = run.idx
  BY DEF Halted, SameCrew
<1>2. /\ Admitted' /\ Handed' /\ Unmixed' /\ MembershipSound'
      /\ Authority' = Authority
      /\ run'.id # 0 => run'.retParts = ActiveParticipants(run')
  BY <1>1, CrewProgress
<1>3. \A e \in Scopes : run'.wait[e] = IF e = s THEN run.idx[s] ELSE run.wait[e]
  BY <1>t DEF Halted
<1>4. Resting'
  BY <1>1, <1>3 DEF Resting, Inv, Progress, Flies
<1>5. Live(run') /\ run'.state = ActiveState(run') /\ run'.state # "COMPLETED"
  BY DEF Halted, Live, ActiveState
<1>6. ~Finished(run')
  BY <1>t, <1>1 DEF Finished, Flies
<1>7. WaitsSound'
  BY <1>1, <1>3, <1>5, <1>6 DEF WaitsSound, Inv, Progress, Flies
<1>8. ~ReturnOwned(run) /\ \A m \in (sent \cup out)' : m.kind # "RETURN"
  BY LivesUnreturned
<1>9. ReturnDiscipline'
  BY <1>2, <1>8 DEF ReturnDiscipline, Halted, ReturnOwned
<1> QED BY <1>2, <1>4, <1>7, <1>9 DEF Progress

\* A claim only moves a marker.
LEMMA ClaimProgress ==
    ASSUME Inv, ClaimGoto \/ ClaimHold
    PROVE  Progress'
<1>t. run \in RunType
  BY DEF Inv, Base, TypeInv
<1>1. /\ run'.id = run.id /\ run'.plan = run.plan /\ run'.state = run.state
      /\ run'.idx = run.idx /\ run'.wait = run.wait /\ run'.leader = run.leader
      /\ run'.active = run.active /\ run'.excluded = run.excluded
      /\ run'.pending = run.pending /\ run'.ret = run.ret
      /\ run'.retParts = run.retParts
  BY <1>t DEF ClaimGoto, ClaimHold, RunType
<1>2. Live(run) /\ deploy' = deploy /\ sent' = sent \cup out
  BY DEF ClaimGoto, ClaimHold, Emit, Live
<1>3. \A m \in out' : m.kind # "RETURN"
  BY DEF ClaimGoto, ClaimHold, Emit, Intent
<1>4. \A m \in (sent \cup out)' : m.kind # "RETURN"
  BY <1>2, <1>3, LivesUnreturned
<1>5. /\ Authority' = Authority /\ Live(run') = Live(run)
      /\ Finished(run') = Finished(run) /\ ActiveState(run') = ActiveState(run)
      /\ ReturnOwned(run') = ReturnOwned(run)
      /\ ActiveParticipants(run') = ActiveParticipants(run)
  BY <1>1, <1>2 DEF Authority, Live, Finished, ActiveState, Transiting, ReturnOwned,
                    ActiveParticipants
<1>6. Admitted' /\ Resting' /\ Handed' /\ Unmixed'
  BY <1>1, <1>2, <1>5 DEF Inv, Progress, Admitted, Eligible, Resting, Handed, Unmixed
<1>7. WaitsSound' /\ MembershipSound' /\ ReturnDiscipline'
  BY <1>1, <1>4, <1>5 DEF Inv, Progress, WaitsSound, MembershipSound, ReturnDiscipline
<1> QED BY <1>6, <1>7 DEF Progress

\* A swarm that lives flies: its shared route has a waypoint to pass.
LEMMA SwarmFlies ==
    ASSUME Inv, deploy.profile = "core-swarm-leader", Live(run)
    PROVE  /\ run.plan.mode = "SWARM_LEADER" /\ run.id # 0
           /\ Transiting(run) /\ ~Finished(run)
           /\ \A s \in Scopes : run.wait[s] = None
<1>1. run.id # 0 /\ ~Finished(run)
  BY DEF Inv, Base, Named, Progress, WaitsSound
<1>2. run.plan.mode = "SWARM_LEADER"
  BY <1>1 DEF Inv, Progress, Admitted, Eligible, Authority, Team
<1>3. \A s \in Scopes : run.wait[s] = None
  BY NoWaiting
<1>4. PICK s \in RouteScopes(run.plan) : ~(run.idx[s] >= run.plan.len[s])
  BY <1>1 DEF Finished
<1>5. s = 0 /\ s \in Scopes
  BY <1>2, <1>4 DEF RouteScopes, Scopes
<1>6. run.idx[s] \in Nat /\ run.plan.len[s] \in Nat
  BY <1>5 DEF Inv, Base, TypeInv, RunType, PlanType
<1> QED BY <1>1, <1>2, <1>3, <1>4, <1>5, <1>6 DEF Transiting

\* The outcomes of BeginTakeover: the swarm goes on, under its leader or an
\* heir, or it ends.
LEMMA TakeoverOutcomes ==
    ASSUME Inv, NEW d \in Drones, NEW fit \in SUBSET Drones, BeginTakeover(d, fit)
    PROVE  /\ run'.id = run.id /\ run'.plan = run.plan /\ run'.idx = run.idx
           /\ run'.active = Rest(d) /\ run'.excluded = run.excluded \cup {d}
           /\ run'.retParts = Rest(d) /\ run'.ret = run.ret
           /\ run'.held = run.held
           /\ run'.wait \in {run.wait, NoWait}
           /\ \/ /\ run'.state = "RUNNING" /\ run'.pending
                 /\ Cardinality(Rest(d)) >= 2
                 /\ \/ /\ run'.leader = run.leader /\ d # run.leader
                       /\ run'.wait = run.wait /\ run'.claimed = run.claimed
                    \/ /\ run'.leader \in Rest(d) /\ d = run.leader
                       /\ run'.wait = run.wait
                       /\ run'.claimed = [run.claimed EXCEPT ![0] = None]
              \/ /\ run'.state = "INTERRUPTED" /\ run'.leader = 0 /\ ~run'.pending
                 /\ run'.claimed = run.claimed
<1>t. run \in RunType
  BY DEF Inv, Base, TypeInv
<1> DEFINE excluding == [run EXCEPT !.active = Rest(d), !.excluded = @ \cup {d},
                                    !.retParts = Rest(d), !.gen = @ + 1]
<1>1. /\ excluding.id = run.id /\ excluding.plan = run.plan /\ excluding.idx = run.idx
      /\ excluding.active = Rest(d) /\ excluding.excluded = run.excluded \cup {d}
      /\ excluding.retParts = Rest(d) /\ excluding.ret = run.ret
      /\ excluding.held = run.held /\ excluding.wait = run.wait
      /\ excluding.claimed = run.claimed /\ excluding.leader = run.leader
      /\ excluding.pending = run.pending
  BY <1>t DEF RunType
<1>2. excluding \in RunType
  <2>1. /\ Rest(d) \in SUBSET Drones /\ run.excluded \cup {d} \in SUBSET Drones
        /\ run.gen + 1 \in Nat
    BY <1>t DEF RunType, Rest
  <2> QED BY <1>t, <2>1 DEF RunType
<1>3. ~run.pending
  BY DEF BeginTakeover, DispatchFree
<1>4. LET heirs == FirstBy(run.plan, Rest(d) \cap fit) IN
      \/ /\ Cardinality(Rest(d)) >= 2 /\ d # run.leader
         /\ run' = [excluding EXCEPT !.pending = TRUE, !.state = "RUNNING",
                                     !.rev = @ + 1]
      \/ /\ Cardinality(Rest(d)) >= 2 /\ d = run.leader
         /\ \E h \in heirs :
               run' = [excluding EXCEPT !.pending = TRUE, !.leader = h,
                           !.claimed[0] = None, !.arrived = {},
                           !.state = "RUNNING", !.rev = @ + 1]
      \/ run' = [excluding EXCEPT !.leader = 0, !.wait = NoWait,
                                  !.state = "INTERRUPTED", !.rev = @ + 1]
  BY DEF BeginTakeover
<1>h. FirstBy(run.plan, Rest(d) \cap fit) \subseteq Rest(d)
  BY DEF FirstBy
<1> HIDE DEF excluding
<1>5. CASE /\ Cardinality(Rest(d)) >= 2 /\ d # run.leader
           /\ run' = [excluding EXCEPT !.pending = TRUE, !.state = "RUNNING",
                                       !.rev = @ + 1]
  BY <1>1, <1>2, <1>5 DEF RunType
<1>6. ASSUME Cardinality(Rest(d)) >= 2, d = run.leader, NEW h \in Rest(d),
             run' = [excluding EXCEPT !.pending = TRUE, !.leader = h,
                         !.claimed[0] = None, !.arrived = {},
                         !.state = "RUNNING", !.rev = @ + 1]
      PROVE  /\ run'.id = run.id /\ run'.plan = run.plan /\ run'.idx = run.idx
             /\ run'.active = Rest(d) /\ run'.excluded = run.excluded \cup {d}
             /\ run'.retParts = Rest(d) /\ run'.ret = run.ret /\ run'.held = run.held
             /\ run'.wait = run.wait /\ run'.state = "RUNNING" /\ run'.pending
             /\ run'.leader = h /\ run'.claimed = [run.claimed EXCEPT ![0] = None]
  BY <1>1, <1>2, <1>6 DEF RunType
<1>7. CASE run' = [excluding EXCEPT !.leader = 0, !.wait = NoWait,
                                    !.state = "INTERRUPTED", !.rev = @ + 1]
  BY <1>1, <1>2, <1>3, <1>7 DEF RunType
<1> QED BY <1>4, <1>h, <1>5, <1>6, <1>7

LEMMA BeginTakeoverProgress ==
    ASSUME Inv, NEW d \in Drones, NEW fit \in SUBSET Drones, BeginTakeover(d, fit)
    PROVE  Progress'
<1>1. /\ Live(run) /\ d \in run.active /\ deploy' = deploy /\ sent' = sent \cup out
      /\ deploy.profile = "core-swarm-leader" /\ out' = {}
  BY DEF BeginTakeover, Quiet
<1>2. /\ run.plan.mode = "SWARM_LEADER" /\ run.id # 0
      /\ Transiting(run) /\ ~Finished(run)
      /\ \A s \in Scopes : run.wait[s] = None
  BY <1>1, SwarmFlies
<1>3. /\ run'.id = run.id /\ run'.plan = run.plan /\ run'.idx = run.idx
      /\ run'.active = run.active \ {d} /\ run'.excluded = run.excluded \cup {d}
      /\ run'.retParts = run.active \ {d} /\ run'.ret = run.ret
      /\ run'.wait \in {run.wait, NoWait}
      /\ \/ /\ run'.state = "RUNNING" /\ run'.pending
            /\ Cardinality(run.active \ {d}) >= 2 /\ run'.wait = run.wait
            /\ \/ run'.leader = run.leader /\ d # run.leader
               \/ run'.leader \in run.active \ {d}
         \/ run'.state = "INTERRUPTED" /\ run'.leader = 0 /\ ~run'.pending
  BY TakeoverOutcomes DEF Rest
<1>4. \A s \in Scopes : run'.wait[s] = None
  BY <1>2, <1>3 DEF NoWait
<1>5. Authority' = Authority /\ Finished(run') = Finished(run)
  BY <1>1, <1>3 DEF Authority, Finished
<1>6. Live(run') => run'.pending /\ run'.state = ActiveState(run')
  BY <1>2, <1>3 DEF Live, ActiveState, Transiting
<1>7. Admitted' /\ Resting' /\ Handed' /\ Unmixed'
  BY <1>1, <1>2, <1>3, <1>4, <1>5
     DEF Inv, Progress, Admitted, Eligible, Resting, Handed, Unmixed, Live
<1>8. WaitsSound'
  BY <1>2, <1>3, <1>4, <1>5, <1>6 DEF Inv, Progress, WaitsSound
<1>9. MembershipSound'
  <2>1. /\ run.active \cap run.excluded = {}
        /\ run.active \cup run.excluded = run.plan.parts
        /\ run.leader # 0 => run.leader \in run.active
        /\ Authority => run.leader # 0
    BY <1>1, <1>2 DEF Inv, Progress, MembershipSound
  <2>2. run'.leader # 0 => run'.leader \in run'.active
    BY <1>3, <2>1
  <2>3. run'.leader # 0 \/ ~Live(run')
    <3>1. 0 \notin run.active
      BY DroneAssumption DEF Inv, Base, TypeInv, RunType
    <3>2. Authority
      BY <1>1 DEF Authority
    <3> QED BY <1>3, <2>1, <3>1, <3>2 DEF Live
  <2>4. Live(run') => Cardinality(run'.active) >= 2
    BY <1>3 DEF Live
  <2>5. run'.pending => Live(run')
    BY <1>3 DEF Live
  <2> QED BY <1>1, <1>3, <2>1, <2>2, <2>3, <2>4, <2>5 DEF MembershipSound
<1>10. ~ReturnOwned(run) /\ \A m \in (sent \cup out)' : m.kind # "RETURN"
  BY <1>1, LivesUnreturned
<1>11. ReturnDiscipline'
  BY <1>2, <1>3, <1>10 DEF ReturnDiscipline, ReturnOwned, ActiveParticipants
<1> QED BY <1>7, <1>8, <1>9, <1>11 DEF Progress

LEMMA HandedOver ==
    ASSUME Inv, NEW rebound \in BOOLEAN, CompleteTakeover(rebound)
    PROVE  /\ run'.id = run.id /\ run'.plan = run.plan /\ run'.idx = run.idx
           /\ run'.leader = run.leader /\ run'.active = run.active
           /\ run'.excluded = run.excluded /\ run'.retParts = run.retParts
           /\ run'.ret = run.ret /\ run'.held = run.held
           /\ run'.claimed = run.claimed /\ ~run'.pending
           /\ run'.wait \in {run.wait, NoWait}
           /\ run'.state \in {"RUNNING", "INTERRUPTED"}
<1>t. run \in RunType
  BY DEF Inv, Base, TypeInv
<1> DEFINE closed == [run EXCEPT !.pending = FALSE]
<1>1. \/ run' = Transition(closed, "RUNNING")
      \/ run' = Transition([closed EXCEPT !.wait = NoWait], "INTERRUPTED")
  BY DEF CompleteTakeover
<1>2. CASE run' = Transition(closed, "RUNNING")
  BY <1>t, <1>2 DEF Transition, RunType
<1>3. CASE run' = Transition([closed EXCEPT !.wait = NoWait], "INTERRUPTED")
  BY <1>t, <1>3 DEF Transition, RunType
<1> QED BY <1>1, <1>2, <1>3

LEMMA CompleteTakeoverProgress ==
    ASSUME Inv, NEW rebound \in BOOLEAN, CompleteTakeover(rebound)
    PROVE  Progress'
<1>1. /\ Live(run) /\ deploy.profile = "core-swarm-leader"
      /\ deploy' = deploy /\ sent' = sent \cup out /\ out' = {}
  BY DEF CompleteTakeover, Quiet, Inv, Progress, Handed
<1>2. /\ run.plan.mode = "SWARM_LEADER"
      /\ Transiting(run) /\ ~Finished(run)
      /\ \A s \in Scopes : run.wait[s] = None
  BY <1>1, SwarmFlies
<1>3. /\ run'.id = run.id /\ run'.plan = run.plan /\ run'.idx = run.idx
      /\ run'.leader = run.leader /\ run'.active = run.active
      /\ run'.excluded = run.excluded /\ run'.retParts = run.retParts
      /\ run'.ret = run.ret /\ ~run'.pending
      /\ run'.wait \in {run.wait, NoWait}
      /\ run'.state \in {"RUNNING", "INTERRUPTED"}
  BY HandedOver
<1>4. \A s \in Scopes : run'.wait[s] = None
  BY <1>2, <1>3 DEF NoWait
<1>5. /\ Authority' = Authority /\ Finished(run') = Finished(run)
      /\ ActiveParticipants(run') = ActiveParticipants(run)
  BY <1>1, <1>3 DEF Authority, Finished, ActiveParticipants
<1>6. 0 \in Scopes /\ RouteScopes(run.plan) = {0}
  BY <1>2 DEF Scopes, RouteScopes
<1>7. Live(run') => run'.state = ActiveState(run')
  BY <1>2, <1>3, <1>4, <1>6 DEF Live, ActiveState, Transiting
<1>8. Admitted' /\ Resting' /\ Handed' /\ Unmixed' /\ MembershipSound'
  BY <1>1, <1>3, <1>4, <1>5
     DEF Inv, Progress, Admitted, Eligible, Resting, Handed, Unmixed, MembershipSound
<1>9. WaitsSound'
  BY <1>2, <1>3, <1>4, <1>5, <1>7 DEF Inv, Progress, WaitsSound
<1>10. ~ReturnOwned(run) /\ \A m \in (sent \cup out)' : m.kind # "RETURN"
  BY <1>1, LivesUnreturned
<1>11. ReturnDiscipline'
  BY <1>3, <1>5, <1>10 DEF ReturnDiscipline, ReturnOwned, Inv, Progress
<1> QED BY <1>8, <1>9, <1>11 DEF Progress

LEMMA ProgressStep == Inv /\ [Next]_vars => Progress'
<1> SUFFICES ASSUME Inv, [Next]_vars PROVE Progress'
  OBVIOUS
<1>1. CASE UNCHANGED vars
  <2>1. run' = run /\ deploy' = deploy /\ sent' = sent /\ out' = out
    BY <1>1 DEF vars
  <2> QED BY <2>1 DEF Inv, Progress, Admitted, Eligible, Authority, Resting, Handed,
                      Unmixed, WaitsSound, MembershipSound, ReturnDiscipline
<1>2. CASE Started
  BY <1>2, StartProgress
<1>3. CASE Next /\ ~Started
  <2>1. deploy' = deploy /\ sent' = sent \cup out
    BY <1>3, Evolution DEF Inv, Base
  <2>2. Course
    BY <1>3, StepCourse
  <2> QED BY <1>3, <2>1, <2>2, SteadyProgress, PassedProgress, HaltedProgress,
             ClaimProgress, BeginTakeoverProgress, CompleteTakeoverProgress
          DEF Course
<1> QED BY <1>1, <1>2, <1>3

LEMMA InvInit == Init => Inv
  BY BaseInit, ReturnOnceInit, ProgressInit DEF Inv

LEMMA InvStep == Inv /\ [Next]_vars => Inv'
  BY BaseStep, ReturnOnceStep, ProgressStep DEF Inv

-----------------------------------------------------------------------------
(* Theorems                                                                *)

\* Whatever is submitted, a wait is that of the waypoint its scope is at, the
\* label says whether anything flies, and only a finished run is COMPLETED.
THEOREM WaitsAreSound == Spec => []WaitsSound
<1>1. Inv => WaitsSound
  BY DEF Inv, Progress
<1> QED BY <1>1, InvInit, InvStep, PTL DEF Spec

\* However many drones the operators take over, in whatever order, the swarm
\* stays partitioned and under a leader of its own.
THEOREM MembershipIsSound == Spec => []MembershipSound
<1>1. Inv => MembershipSound
  BY DEF Inv, Progress
<1> QED BY <1>1, InvInit, InvStep, PTL DEF Spec

\* A mission returns the drones it still has, and only after it completed.
THEOREM ReturnsAreDisciplined == Spec => []ReturnDiscipline
<1>1. Inv => ReturnDiscipline
  BY DEF Inv, Progress
<1> QED BY <1>1, InvInit, InvStep, PTL DEF Spec

-----------------------------------------------------------------------------
(* In which order a run commands its drones.  What was issued is told by   *)
(* the run's claim markers alone: no drone that is still addressed has     *)
(* been sent beyond the marker of its scope, and the marker never runs     *)
(* ahead of the index.                                                     *)

-----------------------------------------------------------------------------
(* The invariant                                                           *)

Issued == sent \cup out

\* Only the current run's intents are remembered.
Owned == \A m \in Issued : m.id = run.id

\* The markers of a live run never run ahead of its indexes.
Bounded ==
    Live(run) => (\A s \in Scopes : run.claimed[s] <= run.idx[s]) /\ run.held <= run.idx[0]

\* An issued GOTO is at or behind the marker of the drone's scope.  A swarm
\* addresses its leader: who is not was taken over, and is never again.
Known ==
    Live(run) => \A m \in Issued :
        /\ m.kind = "GOTO" =>
              IF run.plan.mode = "SWARM_LEADER" /\ m.drone # run.leader
              THEN m.drone \in run.excluded
              ELSE m.idx <= run.claimed[ScopeOf(run, m.drone)]
        /\ m.kind = "HOLD" => m.idx <= run.held

\* What a group has passed or claimed went out to every participant.
SentTo ==
    deploy.profile = "core-grouped-multi" /\ run.id # 0 =>
        \A k \in Nat, d \in run.plan.parts :
            k < run.idx[0] \/ k <= run.claimed[0] => Intent("GOTO", d, k) \in Issued

Orders == Owned /\ Bounded /\ Known /\ SentTo /\ CommandsAdvance /\ HoldInTime

-----------------------------------------------------------------------------
(* The invariant is kept                                                   *)

LEMMA OrdersInit == Init => Orders
  BY DEF Init, Orders, Issued, Owned, Bounded, Known, SentTo, CommandsAdvance,
         HoldInTime, NoRun, FreshRun, Live

LEMMA StartOrders ==
    ASSUME Inv, Started
    PROVE  Orders'
<1>1. PICK p \in Plans, op \in Ops \cup {NoOp}, id \in RunIds : StartOp(p, op, id)
  BY DEF Started
<1>2. run' = FreshRun(p, op, id) /\ out' = {} /\ sent' = {}
  BY <1>1 DEF StartOp
<1>3. /\ run'.idx = [s \in Scopes |-> 0] /\ run'.claimed = NoWait /\ run'.held = None
  BY <1>2 DEF FreshRun
<1>4. 0 \in Scopes
  BY DEF Scopes
<1>5. Bounded'
  BY <1>3, <1>4 DEF Bounded, NoWait, None
<1>6. SentTo'
  BY <1>3, <1>4 DEF SentTo, NoWait, None
<1> QED BY <1>2, <1>5, <1>6 DEF Orders, Issued, Owned, Known, CommandsAdvance, HoldInTime

LEMMA Typed ==
    ASSUME Inv
    PROVE  /\ \A s \in Scopes : /\ run.idx[s] \in Nat
                                /\ run.claimed[s] \in Nat \cup {None}
           /\ run.claimed \in [Scopes -> Nat \cup {None}]
           /\ run.held \in Nat \cup {None} /\ None \in Int
           /\ 0 \in Scopes /\ Drones \subseteq Scopes
           /\ \A m \in Issued : m.drone \in Drones /\ m.idx \in Nat \cup {None}
                                /\ ScopeOf(run, m.drone) \in Scopes
  BY DEF Inv, Base, TypeInv, RunType, IntentType, Issued, Scopes, ScopeOf, None

\* A step that neither claims nor takes over issues nothing and moves no marker.
LEMMA QuietOrders ==
    ASSUME Inv, Inv', Orders, deploy' = deploy, out' = {}, sent' = sent \cup out,
           run'.id = run.id, run'.plan = run.plan, run'.leader = run.leader,
           run'.excluded = run.excluded, run'.claimed = run.claimed,
           run'.held = run.held, Live(run') => Live(run),
           \A s \in Scopes : run'.idx[s] >= run.idx[s],
           deploy.profile = "core-grouped-multi" =>
              \/ run'.idx[0] = run.idx[0]
              \/ run'.idx[0] = run.idx[0] + 1 /\ run.claimed[0] = run.idx[0]
    PROVE  Orders'
<1>t. /\ \A s \in Scopes : /\ run.idx[s] \in Nat /\ run'.idx[s] \in Nat
                           /\ run.claimed[s] \in Nat \cup {None}
      /\ run.held \in Nat \cup {None} /\ None \in Int /\ 0 \in Scopes
  BY DEF Inv, Base, TypeInv, RunType, Scopes, None
<1>1. Issued' = Issued
  BY DEF Issued
<1>2. Owned' /\ CommandsAdvance' /\ HoldInTime'
  BY <1>1 DEF Orders, Owned, CommandsAdvance, HoldInTime
<1>3. Bounded'
  BY <1>t DEF Orders, Bounded, None
<1>4. Known'
  BY <1>1 DEF Orders, Known, ScopeOf
<1>5. SentTo'
  <2> SUFFICES ASSUME deploy.profile = "core-grouped-multi", run.id # 0,
                      NEW k \in Nat, NEW d \in run.plan.parts,
                      k < run'.idx[0] \/ k <= run.claimed[0]
               PROVE  Intent("GOTO", d, k) \in Issued
    BY <1>1 DEF SentTo, Intent
  <2>1. k < run.idx[0] \/ k <= run.claimed[0]
    BY <1>t
  <2> QED BY <2>1 DEF Orders, SentTo
<1> QED BY <1>2, <1>3, <1>4, <1>5 DEF Orders

LEMMA ReturnOrders ==
    ASSUME Inv, Orders, ClaimReturnIntent
    PROVE  Orders'
<1>1. /\ run'.id = run.id /\ run'.plan = run.plan /\ run'.idx = run.idx
      /\ run'.claimed = run.claimed /\ ~Live(run') /\ run.ret = "PENDING"
  BY DEF ClaimReturnIntent, ReturnTo, Inv, Base, TypeInv, RunType, Live
<1>2. /\ sent' = sent \cup out /\ deploy' = deploy
      /\ \A m \in out' : m.kind = "RETURN" /\ m.id = run.id
  BY DEF ClaimReturnIntent, Emit, Intent
<1>3. \A n \in sent' : n.kind # "RETURN"
  BY <1>1, <1>2 DEF Inv, ReturnOnce, Returned
<1>4. CommandsAdvance' /\ HoldInTime'
  BY <1>2, <1>3 DEF CommandsAdvance, HoldInTime
<1>5. Owned' /\ Bounded' /\ Known'
  BY <1>1, <1>2 DEF Orders, Owned, Issued, Bounded, Known
<1>6. SentTo'
  BY <1>1, <1>2 DEF Orders, SentTo, Issued, Intent
<1> QED BY <1>4, <1>5, <1>6 DEF Orders

LEMMA TakeoverOrders ==
    ASSUME Inv, Orders, NEW d \in Drones, NEW fit \in SUBSET Drones,
           BeginTakeover(d, fit)
    PROVE  Orders'
<1>t. /\ \A s \in Scopes : run.idx[s] \in Nat
      /\ run.claimed \in [Scopes -> Nat \cup {None}]
      /\ run.held \in Nat \cup {None} /\ 0 \in Scopes /\ None \in Int
  BY Typed
<1>1. /\ Live(run) /\ d \in run.active /\ deploy' = deploy /\ sent' = sent \cup out
      /\ deploy.profile = "core-swarm-leader" /\ out' = {}
  BY DEF BeginTakeover, Quiet
<1>2. run.plan.mode = "SWARM_LEADER"
  BY <1>1, SwarmFlies
<1>3. /\ run'.id = run.id /\ run'.plan = run.plan /\ run'.idx = run.idx
      /\ run'.excluded = run.excluded \cup {d} /\ run'.held = run.held
      /\ \/ Live(run') /\ run'.leader = run.leader /\ d # run.leader
            /\ run'.claimed = run.claimed
         \/ Live(run') /\ run'.leader \in run.active \ {d} /\ d = run.leader
            /\ run'.claimed = [run.claimed EXCEPT ![0] = None]
         \/ ~Live(run')
  BY TakeoverOutcomes DEF Rest, Live
<1>4. Issued' = Issued
  BY <1>1 DEF Issued
<1>5. Owned' /\ CommandsAdvance' /\ HoldInTime' /\ SentTo'
  BY <1>1, <1>3, <1>4 DEF Orders, Owned, CommandsAdvance, HoldInTime, SentTo
<1>6. Bounded'
  BY <1>t, <1>1, <1>3 DEF Orders, Bounded, None
<1>7. ASSUME Live(run'), NEW m \in Issued, m.kind = "GOTO"
      PROVE  IF m.drone # run'.leader THEN m.drone \in run'.excluded
             ELSE m.idx <= run'.claimed[ScopeOf(run', m.drone)]
  <2>1. IF m.drone # run.leader THEN m.drone \in run.excluded
        ELSE m.idx <= run.claimed[ScopeOf(run, m.drone)]
    BY <1>1, <1>2, <1>7 DEF Orders, Known
  <2>2. ScopeOf(run', m.drone) = ScopeOf(run, m.drone)
    BY <1>3 DEF ScopeOf
  <2>3. run.active \cap run.excluded = {}
    BY <1>2 DEF Inv, Progress, MembershipSound
  <2> QED BY <1>3, <1>7, <2>1, <2>2, <2>3
<1>8. Known'
  BY <1>1, <1>2, <1>3, <1>4, <1>7 DEF Orders, Known
<1> QED BY <1>5, <1>6, <1>8 DEF Orders

LEMMA ClaimGotoOrders ==
    ASSUME Inv, Orders, ClaimGoto
    PROVE  Orders'
<1> DEFINE scopes == {ScopeOf(run, d) : d \in Addressees(run)}
<1>t. /\ \A s \in Scopes : run.idx[s] \in Nat /\ run.claimed[s] \in Nat \cup {None}
      /\ run.held \in Nat \cup {None} /\ 0 \in Scopes /\ None \in Int
      /\ Drones \subseteq Scopes
      /\ \A m \in Issued : m.drone \in Drones /\ m.idx \in Nat \cup {None}
                           /\ ScopeOf(run, m.drone) \in Scopes
  BY Typed
<1>1. Live(run) /\ deploy' = deploy /\ sent' = sent \cup out
  BY DEF ClaimGoto, Emit, Live
<1>2. out' = {Intent("GOTO", d, run.idx[ScopeOf(run, d)]) : d \in Addressees(run)}
  BY DEF ClaimGoto, Emit
<1>3. /\ run'.id = run.id /\ run'.plan = run.plan /\ run'.idx = run.idx
      /\ run'.leader = run.leader /\ run'.excluded = run.excluded
      /\ run'.held = run.held /\ Live(run')
      /\ run'.claimed = [s \in Scopes |-> IF s \in scopes THEN run.idx[s]
                                          ELSE run.claimed[s]]
  BY <1>1 DEF ClaimGoto, Inv, Base, TypeInv, RunType, Live
<1>4. \A d \in Addressees(run) :
         /\ d \in ArrivalParticipants(run) /\ d \in Drones \cup {0}
         /\ ScopeOf(run, d) \in scopes /\ ScopeOf(run, d) \in Scopes
         /\ Claimable(run, ScopeOf(run, d))
  <2>1. ArrivalParticipants(run) \subseteq Scopes
    BY Typed DEF ArrivalParticipants, Inv, Base, TypeInv, RunType, PlanType, Scopes
  <2> QED BY <2>1, <1>t DEF Addressees, ScopeOf, Scopes
<1> HIDE DEF scopes
<1>5. \A d \in Addressees(run) :
         run.claimed[ScopeOf(run, d)] < run.idx[ScopeOf(run, d)]
  BY <1>t, <1>1, <1>4 DEF Orders, Bounded, Claimable, None
<1>6. \A s \in Scopes : /\ run.claimed[s] <= run'.claimed[s]
                        /\ run'.claimed[s] <= run'.idx[s]
                        /\ run'.claimed[s] \in Nat \cup {None}
  BY <1>t, <1>1, <1>3 DEF Orders, Bounded, None
<1>7. Owned'
  BY <1>1, <1>2, <1>3 DEF Orders, Owned, Issued, Intent
<1>8. Bounded'
  BY <1>1, <1>3, <1>6 DEF Orders, Bounded
<1>9. \A e : ScopeOf(run', e) = ScopeOf(run, e)
  BY <1>3 DEF ScopeOf
<1>10. run.plan.mode = "SWARM_LEADER" => \A d \in Addressees(run) : d = run.leader
  BY <1>4 DEF ArrivalParticipants
<1>11. ASSUME NEW m \in Issued'
       PROVE  /\ m.kind = "GOTO" =>
                    IF run'.plan.mode = "SWARM_LEADER" /\ m.drone # run'.leader
                    THEN m.drone \in run'.excluded
                    ELSE m.idx <= run'.claimed[ScopeOf(run', m.drone)]
              /\ m.kind = "HOLD" => m.idx <= run'.held
  <2>1. CASE m \in Issued
    <3>1. m.idx \in Nat \cup {None} /\ ScopeOf(run, m.drone) \in Scopes
      BY <1>t, <2>1
    <3>2. /\ m.kind = "GOTO" =>
                IF run.plan.mode = "SWARM_LEADER" /\ m.drone # run.leader
                THEN m.drone \in run.excluded
                ELSE m.idx <= run.claimed[ScopeOf(run, m.drone)]
          /\ m.kind = "HOLD" => m.idx <= run.held
      BY <1>1, <2>1 DEF Orders, Known
    <3>3. m.idx <= run.claimed[ScopeOf(run, m.drone)] =>
             m.idx <= run'.claimed[ScopeOf(run, m.drone)]
      BY <1>t, <1>6, <3>1 DEF None
    <3> QED BY <1>3, <1>9, <3>2, <3>3
  <2>2. CASE m \in out'
    <3>1. PICK d \in Addressees(run) :
             m.kind = "GOTO" /\ m.drone = d /\ m.idx = run.idx[ScopeOf(run, d)]
      BY <1>2, <2>2 DEF Intent
    <3>2. m.idx = run'.claimed[ScopeOf(run, d)] /\ m.idx \in Nat
      BY <1>t, <1>3, <1>4, <3>1
    <3> QED BY <1>3, <1>9, <1>10, <3>1, <3>2
  <2> QED BY <1>1, <2>1, <2>2 DEF Issued
<1>12. Known'
  BY <1>11 DEF Known
<1>13. SentTo'
  <2> SUFFICES ASSUME deploy.profile = "core-grouped-multi", run.id # 0,
                      NEW k \in Nat, NEW d \in run.plan.parts,
                      k < run.idx[0] \/ k <= run'.claimed[0]
               PROVE  Intent("GOTO", d, k) \in sent \cup out \cup out'
    BY <1>1, <1>3 DEF SentTo, Intent, Issued
  <2>1. run.plan.mode = "GROUPED"
    BY DEF Inv, Progress, Admitted, Eligible, Authority, Team
  <2>2. k <= run.idx[0]
    BY <1>t, <1>3, <1>6
  <2>3. CASE k < run.idx[0]
    BY <2>3 DEF Orders, SentTo, Issued
  <2>4. CASE k = run.idx[0]
    <3>1. \A e \in Addressees(run) : Claimable(run, 0)
      BY <1>4, <2>1 DEF ScopeOf
    <3>2. Addressees(run) # {}
      BY DEF ClaimGoto
    <3>3. d \in Addressees(run) /\ ScopeOf(run, d) = 0
      BY <2>1, <3>1, <3>2 DEF Addressees, ArrivalParticipants, ScopeOf
    <3> QED BY <1>2, <2>4, <3>3
  <2> QED BY <1>t, <2>2, <2>3, <2>4
<1>14. CommandsAdvance'
  <2> SUFFICES ASSUME NEW d \in Addressees(run), NEW n \in Issued,
                      n.kind = "GOTO", n.drone = d
               PROVE  run.idx[ScopeOf(run, d)] > n.idx
    BY <1>1, <1>2 DEF CommandsAdvance, Issued, Intent
  <2>1. n.idx <= run.claimed[ScopeOf(run, d)]
    BY <1>1, <1>10 DEF Orders, Known
  <2>2. n.idx \in Nat \cup {None} /\ ScopeOf(run, d) \in Scopes
    BY <1>t, <1>4
  <2> QED BY <1>t, <1>5, <2>1, <2>2 DEF None
<1>15. HoldInTime'
  BY <1>2 DEF HoldInTime, Intent
<1> QED BY <1>7, <1>8, <1>12, <1>13, <1>14, <1>15 DEF Orders

LEMMA ClaimHoldOrders ==
    ASSUME Inv, Orders, ClaimHold
    PROVE  Orders'
<1>t. /\ \A s \in Scopes : run.idx[s] \in Nat /\ run.claimed[s] \in Nat \cup {None}
      /\ run.held \in Nat \cup {None} /\ 0 \in Scopes /\ None \in Int
      /\ \A m \in Issued : m.idx \in Nat \cup {None}
  BY Typed
<1>1. /\ Live(run) /\ deploy' = deploy /\ sent' = sent \cup out
      /\ deploy.profile = "core-single-wait"
      /\ run.wait[0] # None /\ run.held # run.wait[0]
      /\ out' = {Intent("HOLD", d, run.wait[0]) : d \in run.plan.parts}
  BY DEF ClaimHold, Emit, Live
<1>2. run.wait[0] = run.idx[0]
  BY <1>t, <1>1 DEF Inv, Progress, WaitsSound
<1>3. /\ run'.id = run.id /\ run'.plan = run.plan /\ run'.idx = run.idx
      /\ run'.leader = run.leader /\ run'.excluded = run.excluded
      /\ run'.claimed = run.claimed /\ run'.wait = run.wait
      /\ run'.held = run.idx[0] /\ Live(run')
  BY <1>1, <1>2 DEF ClaimHold, Inv, Base, TypeInv, RunType, Live
<1>4. run.held < run.idx[0]
  BY <1>t, <1>1, <1>2 DEF Orders, Bounded, None
<1>5. \A m \in out' : m.kind = "HOLD" /\ m.id = run.id /\ m.idx = run.idx[0]
  BY <1>1, <1>2 DEF Intent
<1>6. run.plan.mode = "GROUPED"
  BY <1>1 DEF Inv, Base, Named, Progress, Admitted, Eligible, Authority, Solo
<1>7. \A n \in Issued : /\ n.kind = "HOLD" => n.idx < run.idx[0]
                        /\ n.kind = "GOTO" => n.idx <= run.claimed[0]
  BY <1>t, <1>1, <1>4, <1>6 DEF Orders, Known, ScopeOf, None
<1>8. \A n \in Issued : n.kind = "GOTO" => n.idx <= run.idx[0]
  BY <1>t, <1>1, <1>7 DEF Orders, Bounded, None
<1>9. Owned' /\ Bounded' /\ SentTo'
  BY <1>t, <1>1, <1>3, <1>5 DEF Orders, Owned, Bounded, SentTo, Issued
<1>10. ASSUME NEW m \in Issued'
       PROVE  /\ m.kind = "GOTO" => m.idx <= run'.claimed[ScopeOf(run', m.drone)]
              /\ m.kind = "HOLD" => m.idx <= run'.held
  BY <1>t, <1>1, <1>3, <1>5, <1>6, <1>7, <1>10 DEF Issued, ScopeOf, None
<1>11. Known'
  BY <1>3, <1>6, <1>10 DEF Known
<1>12. CommandsAdvance'
  BY <1>t, <1>1, <1>5, <1>7 DEF CommandsAdvance, Issued, None
<1>13. HoldInTime'
  BY <1>1, <1>2, <1>3, <1>5, <1>8 DEF HoldInTime, Issued
<1> QED BY <1>9, <1>11, <1>12, <1>13 DEF Orders

LEMMA OrdersStep == Inv /\ Inv' /\ Orders /\ [Next]_vars => Orders'
<1> SUFFICES ASSUME Inv, Inv', Orders, [Next]_vars PROVE Orders'
  OBVIOUS
<1>t. 0 \in Scopes /\ \A s \in Scopes : run.idx[s] \in Nat
  BY Typed
<1>1. CASE UNCHANGED vars
  <2>1. run' = run /\ deploy' = deploy /\ sent' = sent /\ out' = out
    BY <1>1 DEF vars
  <2> QED BY <2>1 DEF Orders, Issued, Owned, Bounded, Known, SentTo, CommandsAdvance,
                      HoldInTime, Intent
<1>2. CASE Started
  BY <1>2, StartOrders
<1>3. CASE Next /\ ~Started
  <2>1. deploy' = deploy /\ sent' = sent \cup out
    BY <1>3, Evolution DEF Inv, Base
  <2>2. Course
    BY <1>3, StepCourse
  <2>3. ASSUME Steady(run, run'), out' = {} PROVE Orders'
    <3>1. Live(run') => Live(run)
      BY <2>3 DEF Steady, Live
    <3>2. \A s \in Scopes : run'.idx[s] >= run.idx[s]
      BY <1>t, <2>3 DEF Steady
    <3> QED BY <2>1, <2>3, <3>1, <3>2, QuietOrders DEF Steady, SameCrew
  <2>4. ASSUME NEW due \in SUBSET Scopes, Live(run), Passed(run, run', due), out' = {},
               deploy.profile = "core-grouped-multi" => run.claimed[0] = run.idx[0]
        PROVE  Orders'
    <3>1. \A s \in Scopes : run'.idx[s] = run.idx[s] \/ run'.idx[s] = run.idx[s] + 1
      BY <2>4 DEF Passed
    <3>2. \A s \in Scopes : run'.idx[s] >= run.idx[s]
      BY <1>t, <3>1
    <3> QED BY <1>t, <2>1, <2>4, <3>1, <3>2, QuietOrders DEF Passed, SameCrew
  <2>5. ASSUME NEW s \in Scopes, Live(run), Halted(run, run', s), out' = {} PROVE Orders'
    <3>1. \A e \in Scopes : run'.idx[e] >= run.idx[e]
      BY <1>t, <2>5 DEF Halted
    <3> QED BY <2>1, <2>5, <3>1, QuietOrders DEF Halted, SameCrew
  <2>6. ASSUME NEW rebound \in BOOLEAN, CompleteTakeover(rebound) PROVE Orders'
    <3>1. Live(run) /\ out' = {}
      BY <2>6 DEF CompleteTakeover, Quiet
    <3>2. /\ run'.id = run.id /\ run'.plan = run.plan /\ run'.idx = run.idx
          /\ run'.leader = run.leader /\ run'.excluded = run.excluded
          /\ run'.claimed = run.claimed /\ run'.held = run.held
      BY <2>6, HandedOver
    <3>3. \A e \in Scopes : run'.idx[e] >= run.idx[e]
      BY <1>t, <3>2
    <3> QED BY <2>1, <3>1, <3>2, <3>3, QuietOrders
  <2> QED BY <1>3, <2>2, <2>3, <2>4, <2>5, <2>6, ReturnOrders, ClaimGotoOrders,
             ClaimHoldOrders, TakeoverOrders DEF Course
<1> QED BY <1>1, <1>2, <1>3

LEMMA OrdersAlways == Spec => [](Inv /\ Orders)
<1>1. (Inv /\ Orders) /\ [Next]_vars => (Inv /\ Orders)'
  BY InvStep, OrdersStep
<1> QED BY <1>1, InvInit, OrdersInit, PTL DEF Spec

-----------------------------------------------------------------------------
(* Theorems                                                                *)

\* Whatever wakes the dispatcher, and however often the lead changes, no drone
\* is commanded twice to one place, nor back to one it was sent beyond.
THEOREM CommandsAlwaysAdvance == Spec => []CommandsAdvance
<1>1. Orders => CommandsAdvance
  BY DEF Orders
<1> QED BY <1>1, OrdersAlways, PTL

\* A HOLD goes out during the wait it is for, and to no drone sent onward.
THEOREM HoldsAreInTime == Spec => []HoldInTime
<1>1. Orders => HoldInTime
  BY DEF Orders
<1> QED BY <1>1, OrdersAlways, PTL

\* A group of any size passes a waypoint only after each of it was sent there.
THEOREM GroupsWaitForAll == Spec => []GroupBarrier
<1>1. Inv /\ Orders => GroupBarrier
  <2> SUFFICES ASSUME Inv, Orders, deploy.profile = "core-grouped-multi", run.id # 0,
                      NEW k \in 0 .. run.idx[0] - 1, NEW d \in run.plan.parts
               PROVE  Intent("GOTO", d, k) \in sent \cup out
    BY DEF GroupBarrier
  <2>1. run.idx[0] \in Nat
    BY Typed
  <2>2. k \in Nat /\ k < run.idx[0]
    BY <2>1
  <2> QED BY <2>2 DEF Orders, SentTo, Issued
<1> QED BY <1>1, OrdersAlways, PTL

=================================================================================
