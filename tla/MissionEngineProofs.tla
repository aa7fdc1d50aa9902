------------------------- MODULE MissionEngineProofs -------------------------
(***************************************************************************)
(* Theorems about MissionEngine for every set of drones, plans and         *)
(* deployments: types, the action properties, and that the engine keeps    *)
(* the mission contract.                                                   *)
(***************************************************************************)
EXTENDS MissionEngine, FiniteSetTheorems, TLAPS

-----------------------------------------------------------------------------
(* Types                                                                   *)

\* The type of the engine's state; the deployment is one that was configured.
TypeInv ==
    /\ deploy \in Deployments
    /\ run \in RunType
    /\ nextRunID \in Nat
    /\ named \in Nat
    /\ out \subseteq IntentType
    /\ sent \subseteq IntentType

\* The labels a run may be given.
Labels == TerminalStates \cup {"NONE", "RUNNING", "WAITING"}

LEMMA FiniteScopes == IsFiniteSet(Scopes)
  BY DroneAssumption, FS_Union, FS_Singleton DEF Scopes

LEMMA Waits == NoWait \in [Scopes -> Nat \cup {None}] /\ None \notin Nat
  BY DEF NoWait, None

\* A transition, a change of the Return and the end of the waits keep the type.
LEMMA TransitionTyped ==
    ASSUME NEW r \in RunType, NEW s \in Labels PROVE Transition(r, s) \in RunType
<1>1. r.rev + 1 \in Nat
  BY DEF RunType
<1> QED BY <1>1 DEF Transition, RunType, Labels

LEMMA ReturnTyped ==
    ASSUME NEW r \in RunType, NEW s \in ReturnStates PROVE ReturnTo(r, s) \in RunType
<1>1. r.rev + 1 \in Nat
  BY DEF RunType
<1> QED BY <1>1 DEF ReturnTo, RunType

LEMMA UnwaitTyped ==
    ASSUME NEW r \in RunType PROVE [r EXCEPT !.wait = NoWait] \in RunType
  BY Waits DEF RunType

\* Passing waypoints keeps the type, in every outcome.
LEMMA AdvanceTyped ==
    ASSUME NEW r \in RunType, NEW due \in SUBSET Scopes,
           NEW at \in [Scopes -> Nat \cup {None}], \A s \in due : at[s] # None
    PROVE  Advance(r, due, at) \in RunType
<1> DEFINE moved == [r EXCEPT
            !.idx = [s \in Scopes |-> IF s \in due THEN at[s] + 1 ELSE r.idx[s]],
            !.wait = [s \in Scopes |-> IF s \in due THEN None ELSE r.wait[s]],
            !.arrived = {}, !.rejects = {},
            !.rev = @ + Cardinality(due)]
<1>1. Cardinality(due) \in Nat
  BY FiniteScopes, FS_Subset, FS_CardinalityType
<1>2. r.rev + Cardinality(due) \in Nat
  BY <1>1 DEF RunType
<1>3. [s \in Scopes |-> IF s \in due THEN at[s] + 1 ELSE r.idx[s]] \in [Scopes -> Nat]
  BY DEF RunType, None
<1>4. [s \in Scopes |-> IF s \in due THEN None ELSE r.wait[s]]
        \in [Scopes -> Nat \cup {None}]
  BY DEF RunType
<1>5. moved \in RunType
  BY <1>2, <1>3, <1>4 DEF RunType
<1> HIDE DEF moved
<1>6. ActiveState(moved) \in Labels
  BY DEF ActiveState, Labels
<1>7. [moved EXCEPT !.state = ActiveState(moved)] \in RunType
  BY <1>5, <1>6 DEF RunType, Labels
<1>8. [moved EXCEPT !.state = "COMPLETED"] \in RunType
  BY <1>5 DEF RunType, TerminalStates
<1>9. ArmNaturalReturn([moved EXCEPT !.state = "COMPLETED"]) \in RunType
  BY <1>8, ReturnTyped DEF ArmNaturalReturn, ReturnStates
<1>10. Advance(r, due, at) \in
         {ArmNaturalReturn([moved EXCEPT !.state = "COMPLETED"]),
          [moved EXCEPT !.state = ActiveState(moved)]}
  BY DEF Advance, moved
<1> QED BY <1>7, <1>9, <1>10

LEMMA ReachTyped ==
    ASSUME NEW r \in RunType, NEW s \in Scopes PROVE ReachWaypoint(r, s) \in RunType
<1> DEFINE holding == [r EXCEPT !.wait[s] = r.idx[s]]
<1>1. holding \in RunType
  BY DEF RunType
<1>2. ActiveState(holding) \in Labels
  BY DEF ActiveState, Labels
<1>3. r.idx \in [Scopes -> Nat \cup {None}] /\ \A t \in {s} : r.idx[t] # None
  BY Waits DEF RunType
<1>4. Advance(r, {s}, r.idx) \in RunType
  BY <1>3, AdvanceTyped
<1> HIDE DEF holding
<1>5. Transition(holding, ActiveState(holding)) \in RunType
  BY <1>1, <1>2, TransitionTyped
<1> QED BY <1>4, <1>5 DEF ReachWaypoint, holding

LEMMA EndingsTyped ==
    ASSUME NEW r \in RunType
    PROVE  Cancelled(r) \in RunType /\ Failed(r) \in RunType /\ Faulted(r) \in RunType
           /\ \A d \in Drones : Interrupted(r, d) \in RunType
<1>1. ReturnTo(r, "SUPPRESSED") \in RunType
  BY ReturnTyped DEF ReturnStates
<1>2. [r EXCEPT !.wait = NoWait] \in RunType
  BY UnwaitTyped
<1>3. {"CANCELLED", "INTERRUPTED", "FAILED"} \subseteq Labels
  BY DEF Labels, TerminalStates
<1>4. /\ Transition(ReturnTo(r, "SUPPRESSED"), "CANCELLED") \in RunType
      /\ Transition(ReturnTo(r, "SUPPRESSED"), "INTERRUPTED") \in RunType
      /\ Transition([r EXCEPT !.wait = NoWait], "INTERRUPTED") \in RunType
      /\ Transition([r EXCEPT !.wait = NoWait], "FAILED") \in RunType
  BY <1>1, <1>2, <1>3, TransitionTyped
<1>5. r.rev + 2 \in Nat
  BY DEF RunType
<1>6. [r EXCEPT !.state = "CANCELLED", !.rev = @ + 2, !.wait = NoWait] \in RunType
  BY <1>5, Waits DEF RunType, TerminalStates
<1>7. Transition(ReturnTo([r EXCEPT !.wait = NoWait], "FAILED"), "INTERRUPTED") \in RunType
  BY <1>2, <1>3, ReturnTyped, TransitionTyped DEF ReturnStates
<1> QED BY <1>1, <1>4, <1>6, <1>7 DEF Cancelled, Failed, Faulted, Interrupted

LEMMA FreshTyped ==
    ASSUME NEW p \in PlanType, NEW op \in Ops \cup {NoOp}, NEW id \in Nat
    PROVE  FreshRun(p, op, id) \in RunType
<1>1. p.parts \in SUBSET Drones /\ p.leader \in {0} \cup Drones
  BY DEF PlanType
<1>2. [s \in Scopes |-> 0] \in [Scopes -> Nat]
  OBVIOUS
<1> QED BY <1>1, <1>2, Waits DEF FreshRun, RunType, ReturnStates

LEMMA NoRunTyped == NoRun \in RunType
<1>1. NoPlan \in PlanType
  BY DEF NoPlan, PlanType, Modes
<1>2. FreshRun(NoPlan, NoOp, 0) \in RunType
  BY <1>1, FreshTyped
<1> QED BY <1>2 DEF NoRun, RunType

LEMMA IntentTyped ==
    ASSUME TypeInv, NEW k \in {"GOTO", "HOLD", "RETURN"}, NEW d \in Drones,
           NEW i \in Nat \cup {None}
    PROVE  Intent(k, d, i) \in IntentType
  BY DEF Intent, IntentType, TypeInv, RunType

\* The drones a claim addresses are participants, hence drones.
LEMMA Participants ==
    ASSUME NEW r \in RunType
    PROVE  /\ r.plan.parts \subseteq Drones
           /\ ActiveParticipants(r) \subseteq Drones
           /\ \A d \in Drones : ScopeOf(r, d) \in Scopes
  BY DEF RunType, PlanType, ActiveParticipants, ScopeOf, Scopes

-----------------------------------------------------------------------------

LEMMA TypeInit == Init => TypeInv
  BY NoRunTyped DEF Init, TypeInv

\* A swarm that navigates has a leader.
Led ==
    Authority /\ Live(run) /\ run.plan.mode = "SWARM_LEADER" => run.leader # 0

\* Every step keeps the types.
LEMMA TypeStep == TypeInv /\ Led /\ [Next]_vars => TypeInv'
<1> SUFFICES ASSUME TypeInv, Led, [Next]_vars PROVE TypeInv'
  OBVIOUS
<1>t. /\ deploy \in Deployments /\ run \in RunType /\ nextRunID \in Nat
      /\ named \in Nat /\ out \subseteq IntentType /\ sent \subseteq IntentType
  BY DEF TypeInv
<1>q. ASSUME NEW id \in Nat, Quiet(id), run' \in RunType PROVE TypeInv'
  BY <1>t, <1>q DEF Quiet, TypeInv
<1>e. ASSUME NEW I \in SUBSET IntentType, Emit(I), run' \in RunType PROVE TypeInv'
  BY <1>t, <1>e DEF Emit, TypeInv
<1>i. RunIds \subseteq Nat /\ 0 \in Nat /\ 0 \in Scopes /\ Drones \subseteq Scopes
  BY DEF RunIds, Scopes
<1>1. ASSUME NEW p \in Plans, NEW op \in Ops \cup {NoOp}, NEW id \in RunIds,
             StartOp(p, op, id)
      PROVE  TypeInv'
  <2>1. p \in PlanType /\ id \in Nat
    BY <1>i, PlanAssumption
  <2>2. run' \in RunType
    BY <1>1, <2>1, FreshTyped DEF StartOp
  <2> QED BY <1>1, <1>t, <2>1, <2>2 DEF StartOp, TypeInv
<1>2. ASSUME NEW id \in RunIds, Cancel(id) PROVE TypeInv'
  BY <1>2, <1>t, <1>q, <1>i, EndingsTyped DEF Cancel
<1>3. ASSUME NEW d \in Drones, Interrupt(d) PROVE TypeInv'
  BY <1>3, <1>t, <1>q, <1>i, EndingsTyped DEF Interrupt
<1>4. ASSUME NEW id \in RunIds, Fail(id) PROVE TypeInv'
  BY <1>4, <1>t, <1>q, <1>i, EndingsTyped DEF Fail
<1>5. ASSUME NEW m \in sent \cup out, NEW id \in RunIds,
             NoteParticipantRejected(id, m.idx, m.drone)
      PROVE  TypeInv'
  <2>1. m.drone \in Drones
    BY <1>t DEF IntentType
  <2>2. run.rev + 1 \in Nat
    BY <1>t DEF RunType
  <2>3. [run EXCEPT !.rejects = @ \cup {m.drone}, !.rev = @ + 1] \in RunType
    BY <1>t, <2>1, <2>2 DEF RunType
  <2> QED BY <1>5, <1>t, <1>q, <1>i, <2>3 DEF NoteParticipantRejected
<1>6. ASSUME NEW d \in Drones, Observe(d) PROVE TypeInv'
  <2>1. ASSUME ObserveShared(d) PROVE run' \in RunType
    <3> DEFINE seen == [run EXCEPT !.arrived = @ \cup {d}]
    <3>1. seen \in RunType
      BY <1>t DEF RunType
    <3>2. run' \in {seen, ReachWaypoint(seen, 0)}
      BY <2>1 DEF ObserveShared
    <3> HIDE DEF seen
    <3> QED BY <1>i, <3>1, <3>2, ReachTyped
  <2>2. ASSUME ObserveSeparate(d) PROVE run' \in RunType
    BY <1>t, <1>i, <2>2, ReachTyped DEF ObserveSeparate
  <2> QED BY <1>6, <1>q, <1>i, <2>1, <2>2 DEF Observe
<1>7. ASSUME NEW due \in SUBSET Scopes, Poll(due) PROVE TypeInv'
  <2>1. run.wait \in [Scopes -> Nat \cup {None}] /\ \A s \in due : run.wait[s] # None
    BY <1>t, <1>7 DEF RunType, Poll
  <2>2. Advance(run, due, run.wait) \in RunType
    BY <1>t, <2>1, AdvanceTyped
  <2> QED BY <1>7, <1>q, <1>i, <2>2 DEF Poll
<1>8. CASE ClaimGoto
  <2>1. run' \in RunType
    BY <1>t, <1>8 DEF ClaimGoto, RunType
  <2>2. {Intent("GOTO", d, run.idx[ScopeOf(run, d)]) : d \in Addressees(run)}
          \in SUBSET IntentType
    <3>1. ASSUME NEW d \in Addressees(run)
          PROVE  d \in Drones /\ run.idx[ScopeOf(run, d)] \in Nat
      <4>1. d \in Drones
        <5>1. d \in ArrivalParticipants(run) /\ Claimable(run, ScopeOf(run, d))
          BY DEF Addressees
        <5>2. run.plan.mode # "SWARM_LEADER" => d \in run.plan.parts
          BY <5>1 DEF ArrivalParticipants
        <5>3. run.plan.mode = "SWARM_LEADER" => d = run.leader
          BY <5>1 DEF ArrivalParticipants
        <5>4. run.plan.mode = "SWARM_LEADER" => run.leader # 0
          BY <1>8 DEF ClaimGoto, Led, Live
        <5> QED BY <1>t, <5>2, <5>3, <5>4, Participants DEF RunType
      <4> QED BY <1>t, <4>1, Participants DEF RunType
    <3> QED BY <3>1, IntentTyped
  <2> QED BY <1>8, <1>e, <2>1, <2>2 DEF ClaimGoto
<1>9. CASE ClaimHold
  <2>1. run.wait[0] \in Nat
    BY <1>t, <1>i, <1>9 DEF ClaimHold, RunType
  <2>2. run' \in RunType
    BY <1>t, <1>9, <2>1 DEF ClaimHold, RunType
  <2>3. {Intent("HOLD", d, run.wait[0]) : d \in run.plan.parts} \in SUBSET IntentType
    BY <1>t, <2>1, Participants, IntentTyped
  <2> QED BY <1>9, <1>e, <2>2, <2>3 DEF ClaimHold
<1>10. ASSUME NEW d \in Drones, NEW fit \in SUBSET Drones, BeginTakeover(d, fit)
       PROVE  TypeInv'
  <2>1. run.gen + 1 \in Nat /\ run.rev + 1 \in Nat
    BY <1>t DEF RunType
  <2>2. Rest(d) \subseteq Drones
    BY <1>t DEF Rest, RunType
  <2>3. FirstBy(run.plan, Rest(d) \cap fit) \subseteq Drones
    BY <2>2 DEF FirstBy
  <2> DEFINE excluding == [run EXCEPT !.active = Rest(d), !.excluded = @ \cup {d},
                                      !.retParts = Rest(d), !.gen = @ + 1]
  <2>4. excluding \in RunType /\ excluding.rev + 1 \in Nat
    BY <1>t, <2>1, <2>2 DEF RunType
  <2>5. \/ run' = [excluding EXCEPT !.pending = TRUE, !.state = "RUNNING", !.rev = @ + 1]
        \/ \E h \in Drones :
              run' = [excluding EXCEPT !.pending = TRUE, !.leader = h,
                         !.claimed[0] = None, !.arrived = {},
                         !.state = "RUNNING", !.rev = @ + 1]
        \/ run' = [excluding EXCEPT !.leader = 0, !.wait = NoWait,
                                    !.state = "INTERRUPTED", !.rev = @ + 1]
    BY <1>10, <2>3 DEF BeginTakeover
  <2> HIDE DEF excluding
  <2>6. CASE run' = [excluding EXCEPT !.pending = TRUE, !.state = "RUNNING", !.rev = @ + 1]
    <3>1. run' \in RunType
      BY <2>4, <2>6 DEF RunType
    <3> QED BY <1>10, <1>q, <1>i, <3>1 DEF BeginTakeover
  <2>7. ASSUME NEW h \in Drones,
               run' = [excluding EXCEPT !.pending = TRUE, !.leader = h,
                          !.claimed[0] = None, !.arrived = {},
                          !.state = "RUNNING", !.rev = @ + 1]
        PROVE  TypeInv'
    <3>1. [excluding.claimed EXCEPT ![0] = None] \in [Scopes -> Nat \cup {None}]
      BY <2>4 DEF RunType
    <3>2. run' = [excluding EXCEPT !.pending = TRUE, !.leader = h,
                     !.claimed = [excluding.claimed EXCEPT ![0] = None], !.arrived = {},
                     !.state = "RUNNING", !.rev = @ + 1]
      BY <2>7
    <3>3. run' \in RunType
      BY <2>4, <3>1, <3>2 DEF RunType
    <3> QED BY <1>10, <1>q, <1>i, <3>3 DEF BeginTakeover
  <2>8. CASE run' = [excluding EXCEPT !.leader = 0, !.wait = NoWait,
                                      !.state = "INTERRUPTED", !.rev = @ + 1]
    <3>1. run' \in RunType
      BY <2>4, <2>8, Waits DEF RunType, TerminalStates
    <3> QED BY <1>10, <1>q, <1>i, <3>1 DEF BeginTakeover
  <2> QED BY <2>5, <2>6, <2>7, <2>8
<1>11. ASSUME NEW rebound \in BOOLEAN, CompleteTakeover(rebound) PROVE TypeInv'
  <2> DEFINE closed == [run EXCEPT !.pending = FALSE]
  <2>1. closed \in RunType
    BY <1>t DEF RunType
  <2>2. run' \in {Transition(closed, "RUNNING"),
                  Transition([closed EXCEPT !.wait = NoWait], "INTERRUPTED")}
    BY <1>11 DEF CompleteTakeover
  <2> HIDE DEF closed
  <2>3. run' \in RunType
    BY <2>1, <2>2, UnwaitTyped, TransitionTyped DEF Labels, TerminalStates
  <2>4. run.id \in Nat
    BY <1>t DEF RunType
  <2> QED BY <1>11, <1>q, <2>3, <2>4 DEF CompleteTakeover
<1>12. CASE ClaimReturnIntent
  <2>1. run' \in RunType
    BY <1>t, <1>12, ReturnTyped DEF ClaimReturnIntent, ReturnStates
  <2>2. {Intent("RETURN", d, None) : d \in run.retParts} \in SUBSET IntentType
    <3>1. run.retParts \subseteq Drones
      BY <1>t DEF RunType
    <3>2. \A d \in Drones : Intent("RETURN", d, None) \in IntentType
      BY IntentTyped
    <3> QED BY <3>1, <3>2
  <2> QED BY <1>12, <1>e, <2>1, <2>2 DEF ClaimReturnIntent
<1>13. ASSUME NEW id \in RunIds, CompleteReturn(id) PROVE TypeInv'
  BY <1>13, <1>t, <1>q, <1>i, ReturnTyped DEF CompleteReturn, ReturnStates
<1>14. ASSUME NEW id \in RunIds, NEW s \in {"FAILED", "SUPPRESSED"}, EndReturn(id, s)
       PROVE  TypeInv'
  BY <1>14, <1>t, <1>q, <1>i, ReturnTyped DEF EndReturn, ReturnStates
<1>15. CASE UNCHANGED vars
  BY <1>15 DEF vars, TypeInv
<1>16. ASSUME NEW id \in RunIds, NEW rev \in 0 .. run.rev, PersistenceFault(id, rev)
       PROVE  TypeInv'
  BY <1>16, <1>t, <1>q, <1>i, EndingsTyped DEF PersistenceFault
<1> QED
  BY <1>16, <1>1, <1>2, <1>3, <1>4, <1>5, <1>6, <1>7, <1>8, <1>9, <1>10, <1>11, <1>12,
     <1>13, <1>14, <1>15 DEF Next

-----------------------------------------------------------------------------
(* What one step does to the run it leaves in place                        *)

Started == \E p \in Plans, op \in Ops \cup {NoOp}, id \in RunIds : StartOp(p, op, id)

\* How a run r may turn into q.
Evolves(r, q) ==
    /\ q.id = r.id /\ q.plan = r.plan
    /\ Durable(q) # Durable(r) => q.rev > r.rev
    /\ ~Live(r) => ~Live(q) /\ q.idx = r.idx /\ q.active = r.active
    /\ ~Live(r) /\ q.state # r.state =>
          ReturnOwned(r) /\ q.state \in {"CANCELLED", "INTERRUPTED"}
    /\ q.ret # r.ret =>
          \/ ReturnOwned(r) /\ q.ret # "PENDING"
          \/ Live(r) /\ q.state = "COMPLETED" /\ q.ret = "PENDING"
    /\ Live(q) /\ r.leader # 0 => q.leader # 0

LEMMA EvolvesNot == ASSUME NEW r PROVE Evolves(r, r)
  BY DEF Evolves

LEMMA EndingsEvolve ==
    ASSUME NEW r \in RunType
    PROVE  Evolves(r, Cancelled(r)) /\ Evolves(r, Failed(r)) /\ Evolves(r, Faulted(r))
           /\ \A d \in Drones : Evolves(r, Interrupted(r, d))
<1>1. r.rev \in Nat
  BY DEF RunType
<1>2. Evolves(r, r)
  BY EvolvesNot
<1>3. ASSUME ReturnOwned(r)
      PROVE  /\ Evolves(r, ReturnTo(r, "SUPPRESSED"))
             /\ r.state = "COMPLETED" =>
                   Evolves(r, Transition(ReturnTo(r, "SUPPRESSED"), "CANCELLED"))
             /\ Evolves(r, Transition(ReturnTo(r, "SUPPRESSED"), "INTERRUPTED"))
  BY <1>1, <1>3 DEF Evolves, ReturnTo, Transition, RunType, Durable, Live, ReturnOwned
<1>4. ASSUME Live(r)
      PROVE  /\ Evolves(r, [r EXCEPT !.state = "CANCELLED", !.rev = @ + 2, !.wait = NoWait])
             /\ Evolves(r, Transition([r EXCEPT !.wait = NoWait], "INTERRUPTED"))
             /\ Evolves(r, Transition([r EXCEPT !.wait = NoWait], "FAILED"))
  BY <1>1, <1>4 DEF Evolves, Transition, RunType, Durable, Live
<1>5. ReturnTo(r, "SUPPRESSED").state = r.state
  BY DEF ReturnTo, RunType
<1>6. ASSUME ReturnOwned(r)
      PROVE  Evolves(r, Transition(ReturnTo([r EXCEPT !.wait = NoWait], "FAILED"), "INTERRUPTED"))
  BY <1>1, <1>6 DEF Evolves, ReturnTo, Transition, RunType, Durable, Live, ReturnOwned
<1> QED BY <1>2, <1>3, <1>4, <1>5, <1>6 DEF Cancelled, Failed, Faulted, Interrupted

\* A live run that passes waypoints, or reaches one, evolves.
LEMMA AdvanceEvolves ==
    ASSUME NEW r \in RunType, Live(r), NEW due \in SUBSET Scopes, due # {}, NEW at
    PROVE  Evolves(r, Advance(r, due, at)) /\ Advance(r, due, at).rev > r.rev
<1> DEFINE moved == [r EXCEPT
            !.idx = [s \in Scopes |-> IF s \in due THEN at[s] + 1 ELSE r.idx[s]],
            !.wait = [s \in Scopes |-> IF s \in due THEN None ELSE r.wait[s]],
            !.arrived = {}, !.rejects = {},
            !.rev = @ + Cardinality(due)]
<1>1. Cardinality(due) \in Nat /\ Cardinality(due) > 0
  BY FiniteScopes, FS_Subset, FS_CardinalityType, FS_EmptySet
<1>2. /\ moved.id = r.id /\ moved.plan = r.plan /\ moved.rev = r.rev + Cardinality(due)
      /\ moved.ret = r.ret /\ moved.leader = r.leader
      /\ moved = [moved EXCEPT !.id = moved.id]
      /\ DOMAIN moved = DOMAIN r
  BY DEF RunType
<1>3. r.rev \in Nat
  BY DEF RunType
<1> HIDE DEF moved
<1>4. ASSUME NEW q, q = [moved EXCEPT !.state = ActiveState(moved)]
      PROVE  Evolves(r, q) /\ q.rev > r.rev
  BY <1>1, <1>2, <1>3, <1>4 DEF Evolves, RunType
<1>5. ASSUME NEW q, q = [moved EXCEPT !.state = "COMPLETED"]
      PROVE  /\ Evolves(r, q) /\ q.rev > r.rev
             /\ Evolves(r, ReturnTo(q, "PENDING")) /\ ReturnTo(q, "PENDING").rev > r.rev
  <2>1. /\ q.id = r.id /\ q.plan = r.plan /\ q.rev = r.rev + Cardinality(due)
        /\ q.ret = r.ret /\ q.leader = r.leader /\ q.state = "COMPLETED"
    BY <1>2, <1>5 DEF RunType
  <2>2. LET p == ReturnTo(q, "PENDING")
        IN /\ p.id = r.id /\ p.plan = r.plan /\ p.rev = q.rev + 1
           /\ p.ret = "PENDING" /\ p.leader = r.leader /\ p.state = "COMPLETED"
    BY <1>2, <1>5, <2>1 DEF RunType, ReturnTo
  <2> QED BY <1>1, <1>3, <2>1, <2>2 DEF Evolves, Live
<1>6. Advance(r, due, at) \in
         {[moved EXCEPT !.state = ActiveState(moved)],
          [moved EXCEPT !.state = "COMPLETED"],
          ReturnTo([moved EXCEPT !.state = "COMPLETED"], "PENDING")}
  BY DEF Advance, ArmNaturalReturn, moved
<1> QED BY <1>4, <1>5, <1>6

LEMMA ReachEvolves ==
    ASSUME NEW r \in RunType, Live(r), NEW s \in Scopes
    PROVE  Evolves(r, ReachWaypoint(r, s)) /\ ReachWaypoint(r, s).rev > r.rev
<1> DEFINE holding == [r EXCEPT !.wait[s] = r.idx[s]]
<1>1. Evolves(r, Advance(r, {s}, r.idx)) /\ Advance(r, {s}, r.idx).rev > r.rev
  BY AdvanceEvolves
<1>2. r.rev \in Nat
  BY DEF RunType
<1>3. ASSUME NEW q, q = Transition(holding, ActiveState(holding))
      PROVE  Evolves(r, q) /\ q.rev > r.rev
  <2>1. q.id = r.id /\ q.plan = r.plan /\ q.rev = r.rev + 1 /\ q.ret = r.ret
        /\ q.leader = r.leader
    BY <1>3 DEF Transition, RunType
  <2> QED BY <1>2, <2>1 DEF Evolves
<1> HIDE DEF holding
<1> QED BY <1>1, <1>3 DEF ReachWaypoint, holding

\* What a step lets out, told by the run it leaves in place.
Speaks ==
    \/ out' = {}
    \/ Live(run) /\ Live(run') /\ \A m \in out' : m.kind # "RETURN"
    \/ run.ret = "PENDING" /\ run'.ret = "RETURNING" /\ \A m \in out' : m.kind = "RETURN"

\* Every step starts a run or lets the run evolve, and a call that names
\* another run changes nothing.
LEMMA Evolution ==
    ASSUME TypeInv, Next
    PROVE  /\ UNCHANGED deploy
           /\ \/ Started
              \/ /\ Evolves(run, run') /\ Speaks
                 /\ named' \in {0, run.id} \/ run' = run
                 /\ sent' = sent \cup out
                 /\ UNCHANGED nextRunID
<1> DEFINE Goal == /\ UNCHANGED <<deploy, nextRunID>>
                   /\ Evolves(run, run') /\ Speaks
                   /\ named' \in {0, run.id} \/ run' = run
                   /\ sent' = sent \cup out
<1>t. run \in RunType
  BY DEF TypeInv
<1>n. run.rev \in Nat
  BY <1>t DEF RunType
<1>s. Evolves(run, run)
  BY EvolvesNot
<1>q. ASSUME NEW id, Quiet(id), Evolves(run, run'), id \in {0, run.id} \/ run' = run
      PROVE  Goal
  BY <1>q DEF Quiet, Speaks
<1> HIDE DEF Goal
<1>1. ASSUME NEW p \in Plans, NEW op \in Ops \cup {NoOp}, NEW id \in RunIds,
             StartOp(p, op, id)
      PROVE  UNCHANGED deploy /\ Started
  BY <1>1 DEF StartOp, Started
<1>2. ASSUME NEW id \in RunIds, Cancel(id) PROVE Goal
  BY <1>2, <1>t, <1>q, <1>s, EndingsEvolve DEF Cancel
<1>3. ASSUME NEW d \in Drones, Interrupt(d) PROVE Goal
  BY <1>3, <1>t, <1>q, EndingsEvolve DEF Interrupt
<1>4. ASSUME NEW id \in RunIds, Fail(id) PROVE Goal
  BY <1>4, <1>t, <1>q, <1>s, EndingsEvolve DEF Fail
<1>f. ASSUME NEW id \in RunIds, NEW rev \in 0 .. run.rev, PersistenceFault(id, rev)
      PROVE  Goal
  BY <1>f, <1>t, <1>q, <1>s, EndingsEvolve DEF PersistenceFault
<1>5. ASSUME NEW m \in sent \cup out, NEW id \in RunIds,
             NoteParticipantRejected(id, m.idx, m.drone)
      PROVE  Goal
  <2>1. ASSUME NEW d, run' = [run EXCEPT !.rejects = @ \cup {d}, !.rev = @ + 1], Live(run)
        PROVE  Evolves(run, run')
    BY <2>1, <1>t, <1>n DEF Evolves, RunType, Live
  <2> QED BY <1>5, <1>q, <1>s, <2>1 DEF NoteParticipantRejected
<1>6. ASSUME NEW d \in Drones, Observe(d) PROVE Goal
  <2>l. Live(run)
    BY <1>6 DEF Observe, Live
  <2>1. ASSUME ObserveShared(d) PROVE Evolves(run, run')
    <3> DEFINE seen == [run EXCEPT !.arrived = @ \cup {d}]
    <3>1. seen \in RunType /\ Live(seen)
      BY <1>t, <2>l DEF RunType, Live
    <3>2. /\ seen.id = run.id /\ seen.plan = run.plan /\ seen.rev = run.rev
          /\ seen.leader = run.leader /\ seen.ret = run.ret
          /\ Durable(seen) = Durable(run) /\ Evolves(run, seen)
      BY <1>t, <2>l DEF RunType, Durable, Evolves, Live
    <3>3. run' \in {seen, ReachWaypoint(seen, 0)}
      BY <2>1 DEF ObserveShared
    <3> HIDE DEF seen
    <3>4. Evolves(seen, ReachWaypoint(seen, 0)) /\ ReachWaypoint(seen, 0).rev > seen.rev
      BY <3>1, ReachEvolves DEF Scopes
    <3>5. ASSUME NEW q, Evolves(seen, q), q.rev > seen.rev PROVE Evolves(run, q)
      BY <2>l, <3>1, <3>2, <3>5 DEF Evolves, ReturnOwned
    <3> QED BY <3>2, <3>3, <3>4, <3>5
  <2>2. ASSUME ObserveSeparate(d) PROVE Evolves(run, run')
    BY <1>t, <2>l, <2>2, ReachEvolves DEF ObserveSeparate, Scopes
  <2> QED BY <1>6, <1>q, <2>1, <2>2 DEF Observe
<1>7. ASSUME NEW due \in SUBSET Scopes, Poll(due) PROVE Goal
  BY <1>7, <1>t, <1>q, AdvanceEvolves DEF Poll
<1>8. ASSUME ClaimGoto PROVE Goal
  <2>1. Live(run) /\ Live(run') /\ Evolves(run, run')
    BY <1>8, <1>t DEF ClaimGoto, Evolves, RunType, Durable, Live
  <2>2. \A m \in out' : m.kind # "RETURN"
    BY <1>8 DEF ClaimGoto, Emit, Intent
  <2> QED BY <1>8, <2>1, <2>2 DEF ClaimGoto, Emit, Speaks, Goal
<1>9. ASSUME ClaimHold PROVE Goal
  <2>1. Live(run) /\ Live(run') /\ Evolves(run, run')
    BY <1>9, <1>t DEF ClaimHold, Evolves, RunType, Durable, Live
  <2>2. \A m \in out' : m.kind # "RETURN"
    BY <1>9 DEF ClaimHold, Emit, Intent
  <2> QED BY <1>9, <2>1, <2>2 DEF ClaimHold, Emit, Speaks, Goal
<1>10. ASSUME NEW d \in Drones, NEW fit \in SUBSET Drones, BeginTakeover(d, fit)
       PROVE  Goal
  <2>1. Live(run)
    BY <1>10 DEF BeginTakeover
  <2>2. \A h \in FirstBy(run.plan, Rest(d) \cap fit) : h # 0
    BY <1>t, DroneAssumption DEF FirstBy, Rest, RunType
  <2> DEFINE excluding == [run EXCEPT !.active = Rest(d), !.excluded = @ \cup {d},
                                      !.retParts = Rest(d), !.gen = @ + 1]
  <2>a. /\ excluding.id = run.id /\ excluding.plan = run.plan
        /\ excluding.rev = run.rev /\ excluding.ret = run.ret
        /\ excluding.leader = run.leader /\ DOMAIN excluding = DOMAIN run
    BY <1>t DEF RunType
  <2>b. \/ run' = [excluding EXCEPT !.pending = TRUE, !.state = "RUNNING", !.rev = @ + 1]
        \/ \E h \in FirstBy(run.plan, Rest(d) \cap fit) :
              run' = [excluding EXCEPT !.pending = TRUE, !.leader = h,
                         !.claimed[0] = None, !.arrived = {},
                         !.state = "RUNNING", !.rev = @ + 1]
        \/ run' = [excluding EXCEPT !.leader = 0, !.wait = NoWait,
                                    !.state = "INTERRUPTED", !.rev = @ + 1]
    BY <1>10 DEF BeginTakeover
  <2> HIDE DEF excluding
  <2>3. /\ run'.id = run.id /\ run'.plan = run.plan /\ run'.rev > run.rev
        /\ run'.ret = run.ret
        /\ Live(run') => run'.leader = run.leader \/ run'.leader # 0
    <3>d. {"id", "plan", "rev", "ret", "leader", "state", "claimed"} \subseteq DOMAIN excluding
      BY <1>t, <2>a DEF RunType
    <3>1. CASE run' = [excluding EXCEPT !.pending = TRUE, !.state = "RUNNING", !.rev = @ + 1]
      BY <1>n, <2>a, <3>d, <3>1
    <3>2. ASSUME NEW h \in FirstBy(run.plan, Rest(d) \cap fit), NEW c,
                 run' = [excluding EXCEPT !.pending = TRUE, !.leader = h,
                            !.claimed = c, !.arrived = {},
                            !.state = "RUNNING", !.rev = @ + 1]
          PROVE  /\ run'.id = run.id /\ run'.plan = run.plan /\ run'.rev > run.rev
                 /\ run'.ret = run.ret /\ run'.leader # 0
      BY <1>n, <2>2, <2>a, <3>d, <3>2
    <3>3. CASE run' = [excluding EXCEPT !.leader = 0, !.wait = NoWait,
                                        !.state = "INTERRUPTED", !.rev = @ + 1]
      BY <1>n, <2>a, <3>d, <3>3 DEF Live
    <3> QED BY <2>b, <3>1, <3>2, <3>3
  <2>4. Evolves(run, run')
    BY <2>1, <2>3 DEF Evolves
  <2> QED BY <1>10, <1>q, <2>4 DEF BeginTakeover
<1>11. ASSUME NEW rebound \in BOOLEAN, CompleteTakeover(rebound) PROVE Goal
  <2>1. /\ run'.id = run.id /\ run'.plan = run.plan /\ run'.rev > run.rev
        /\ run'.ret = run.ret /\ run'.leader = run.leader
    BY <1>11, <1>t, <1>n DEF CompleteTakeover, Transition, RunType
  <2>2. Evolves(run, run')
    BY <1>11, <2>1 DEF Evolves, CompleteTakeover
  <2> QED BY <1>11, <1>q, <2>2 DEF CompleteTakeover
\* A change of the Return alone.
<1>r. ASSUME NEW s \in ReturnStates \ {"PENDING"}, ReturnOwned(run) PROVE Evolves(run, ReturnTo(run, s))
  BY <1>r, <1>t, <1>n DEF Evolves, ReturnTo, RunType, Durable, Live
<1>12. ASSUME ClaimReturnIntent PROVE Goal
  <2>1. Evolves(run, run') /\ run.ret = "PENDING" /\ run'.ret = "RETURNING"
    BY <1>12, <1>r, <1>t DEF ClaimReturnIntent, ReturnOwned, ReturnStates, ReturnTo, RunType
  <2>2. \A m \in out' : m.kind = "RETURN"
    BY <1>12 DEF ClaimReturnIntent, Emit, Intent
  <2> QED BY <1>12, <2>1, <2>2 DEF ClaimReturnIntent, Emit, Speaks, Goal
<1>13. ASSUME NEW id \in RunIds, CompleteReturn(id) PROVE Goal
  BY <1>13, <1>q, <1>r, <1>s DEF CompleteReturn, ReturnOwned, ReturnStates
<1>14. ASSUME NEW id \in RunIds, NEW s \in {"FAILED", "SUPPRESSED"}, EndReturn(id, s)
       PROVE  Goal
  BY <1>14, <1>q, <1>r, <1>s DEF EndReturn, ReturnStates
<1>15. CASE ~Started
  <2>1. Goal
    BY <1>15, <1>2, <1>3, <1>f, <1>4, <1>5, <1>6, <1>7, <1>8, <1>9, <1>10, <1>11, <1>12,
       <1>13, <1>14 DEF Next, Started
  <2> QED BY <2>1 DEF Goal
<1> QED BY <1>1, <1>15 DEF Started

-----------------------------------------------------------------------------
(* Types and the action properties                                         *)

LEMMA LedInit == Init => Led
  BY DEF Init, Led, Live, NoRun, FreshRun

LEMMA LedStep == TypeInv /\ Led /\ [Next]_vars => Led'
<1> SUFFICES ASSUME TypeInv, Led, [Next]_vars PROVE Led'
  OBVIOUS
<1>1. CASE Started
  <2>1. PICK p \in Plans, op \in Ops \cup {NoOp}, id \in RunIds : StartOp(p, op, id)
    BY <1>1 DEF Started
  <2>2. run'.plan = p /\ (p.mode = "SWARM_LEADER" => run'.leader = p.leader)
    BY <2>1 DEF StartOp, FreshRun
  <2>3. Authority /\ p.mode = "SWARM_LEADER" => p.leader # 0
    BY <2>1 DEF StartOp, CanStart, Eligible, Solo, Team
  <2>4. Authority' = Authority
    BY <2>1 DEF StartOp, Authority
  <2> QED BY <2>2, <2>3, <2>4 DEF Led
<1>2. CASE UNCHANGED deploy /\ Evolves(run, run')
  BY <1>2 DEF Led, Authority, Evolves
<1>3. CASE UNCHANGED vars
  BY <1>3 DEF vars, Led, Authority, Live
<1> QED BY <1>1, <1>2, <1>3, Evolution

\* Whatever the plans and the deployment, the engine's state has its type.
THEOREM TypeCorrect == Spec => []TypeOK
<1>1. TypeInv => TypeOK
  BY DEF TypeInv, TypeOK
<1>2. (TypeInv /\ Led) /\ [Next]_vars => (TypeInv /\ Led)'
  BY TypeStep, LedStep
<1> QED BY <1>1, <1>2, TypeInit, LedInit, PTL DEF Spec

\* Run ids name runs: the newest id is that of the current run.
Named == nextRunID = run.id /\ (run.id = 0 => ~Live(run) /\ ~ReturnOwned(run))

LEMMA NamedInit == Init => Named
  BY DEF Init, Named, NoRun, FreshRun, Live, ReturnOwned

LEMMA NewRun ==
    ASSUME TypeInv, Named, Started
    PROVE  /\ run'.id > run.id /\ named' = run'.id /\ nextRunID' = run'.id
           /\ Live(run') /\ run'.ret = "INACTIVE" /\ out' = {} /\ sent' = {}
           /\ ~Live(run) /\ ~ReturnOwned(run) /\ run'.id \in Nat
<1>1. PICK p \in Plans, op \in Ops \cup {NoOp}, id \in RunIds : StartOp(p, op, id)
  BY DEF Started
<1>2. run' = FreshRun(p, op, id) /\ id > nextRunID
  BY <1>1 DEF StartOp, CanStart
<1>3. run'.id = id /\ Live(run') /\ run'.ret = "INACTIVE"
  BY <1>2 DEF FreshRun, Live
<1> QED BY <1>1, <1>2, <1>3 DEF StartOp, CanStart, Named, RunIds

LEMMA NamedStep == TypeInv /\ Named /\ [Next]_vars => Named'
<1> SUFFICES ASSUME TypeInv, Named, [Next]_vars PROVE Named'
  OBVIOUS
<1>1. CASE Started
  BY <1>1, NewRun DEF Named, TypeInv, RunType
<1>2. CASE UNCHANGED nextRunID /\ Evolves(run, run')
  <2>1. run.id = 0 => ~Live(run') /\ run'.ret = run.ret
    BY <1>2 DEF Named, Evolves
  <2> QED BY <1>2, <2>1 DEF Named, Evolves, ReturnOwned
<1>3. CASE UNCHANGED vars
  BY <1>3 DEF vars, Named, Live, ReturnOwned
<1> QED BY <1>1, <1>2, <1>3, Evolution

\* The invariant the action properties rest on.
Base == TypeInv /\ Led /\ Named

LEMMA BaseInit == Init => Base
  BY TypeInit, LedInit, NamedInit DEF Base

LEMMA BaseStep == Base /\ [Next]_vars => Base'
  BY TypeStep, LedStep, NamedStep DEF Base

\* Of every run, each change an operator may see after a restart takes a new
\* revision.
THEOREM RevisionsMarkChanges == Spec => RevisionBoundary
<1>1. Base /\ [Next]_vars =>
        [run'.id = run.id /\ Durable(run') # Durable(run) => run'.rev > run.rev]_vars
  <2> SUFFICES ASSUME Base, Next, run'.id = run.id, Durable(run') # Durable(run)
               PROVE  run'.rev > run.rev
    OBVIOUS
  <2>1. ~Started
    BY NewRun DEF Base, TypeInv, RunType
  <2> QED BY <2>1, Evolution DEF Base, Evolves
<1> QED BY <1>1, BaseInit, BaseStep, PTL DEF Spec, RevisionBoundary

\* No step re-opens a run that ended, moves it on, or revives its Return.
THEOREM TheEndIsFinal == Spec => EndedIsFinal
<1> DEFINE Final == run'.id = run.id /\ Terminal(run) =>
          /\ run'.idx = run.idx /\ run'.active = run.active
          /\ run'.state # run.state =>
                ReturnOwned(run) /\ run'.state \in {"CANCELLED", "INTERRUPTED"}
          /\ run.ret \in {"COMPLETED", "SUPPRESSED", "FAILED"} =>
                run'.ret = run.ret
<1>1. Base /\ [Next]_vars => [Final]_vars
  <2> SUFFICES ASSUME Base, Next, run'.id = run.id, Terminal(run) PROVE Final
    OBVIOUS
  <2>1. ~Started
    BY NewRun DEF Base, TypeInv, RunType
  <2>2. ~Live(run)
    BY DEF Terminal, TerminalStates, Live
  <2> QED BY <2>1, <2>2, Evolution DEF Base, Evolves, ReturnOwned
<1> QED BY <1>1, BaseInit, BaseStep, PTL DEF Spec, EndedIsFinal

\* A call that names another run than the current one changes nothing.
THEOREM StaleCallsChangeNothing == Spec => StaleCallsInert
<1>1. Base /\ [Next]_vars => [named' \notin {0, run'.id} => run' = run]_vars
  <2> SUFFICES ASSUME Base, Next, named' \notin {0, run'.id} PROVE run' = run
    OBVIOUS
  <2>1. ~Started
    BY NewRun DEF Base
  <2> QED BY <2>1, Evolution DEF Base, Evolves
<1> QED BY <1>1, BaseInit, BaseStep, PTL DEF Spec, StaleCallsInert

-----------------------------------------------------------------------------
(* The engine keeps the mission contract                                   *)

Returned == \E m \in sent \cup out : m.kind = "RETURN"

\* No run has both authorities, and none returns before its Return is claimed.
ReturnOnce ==
    /\ ReturnOwned(run) => ~Live(run)
    /\ Live(run) \/ run.ret = "PENDING" => ~Returned

LEMMA ReturnOnceInit == Init => ReturnOnce
  BY DEF Init, ReturnOnce, Returned, NoRun, FreshRun, ReturnOwned

LEMMA ReturnOnceStep == Base /\ ReturnOnce /\ [Next]_vars => ReturnOnce'
<1> SUFFICES ASSUME Base, ReturnOnce, [Next]_vars PROVE ReturnOnce'
  OBVIOUS
<1>1. CASE Started
  BY <1>1, NewRun DEF Base, ReturnOnce, Returned, ReturnOwned
<1>2. CASE Evolves(run, run') /\ Speaks /\ sent' = sent \cup out
  <2>1. ReturnOwned(run') => ~Live(run')
    BY <1>2 DEF Evolves, ReturnOnce, ReturnOwned, Live
  <2>2. ASSUME Live(run') \/ run'.ret = "PENDING"
        PROVE  ~Returned'
    <3>1. Live(run) \/ run.ret = "PENDING"
      BY <1>2, <2>2 DEF Evolves, ReturnOwned
    <3>2. \A m \in out' : m.kind # "RETURN"
      BY <1>2, <2>2, <2>1 DEF Speaks, ReturnOwned
    <3> QED BY <1>2, <3>1, <3>2 DEF ReturnOnce, Returned
  <2> QED BY <2>1, <2>2 DEF ReturnOnce
<1>3. CASE UNCHANGED vars
  BY <1>3 DEF vars, ReturnOnce, Returned, ReturnOwned, Live
<1> QED BY <1>1, <1>2, <1>3, Evolution DEF Base

\* The contract's step, over the engine's state.
LEMMA ContractStep ==
    Base /\ ReturnOnce /\ [Next]_vars => [Contract!Next]_(Contract!vars)
<1> SUFFICES ASSUME Base, ReturnOnce, [Next]_vars
             PROVE  [Contract!Next]_(Contract!vars)
  OBVIOUS
<1>1. CASE Started
  <2>1. /\ run'.id > run.id /\ run'.id # 0 /\ run'.id \in Nat
        /\ Live(run') /\ ~Live(run) /\ ~ReturnOwned(run)
        /\ out' = {} /\ sent' = {}
    BY <1>1, NewRun DEF Base, TypeInv, RunType
  <2>2. Phase \in {"none", "ended"} /\ Phase' = "active" /\ Order' = "none"
    BY <2>1 DEF Phase, Order
  <2>3. Contract!Start
    BY <2>1, <2>2 DEF Contract!Start
  <2> QED BY <2>3 DEF Contract!Next
<1>2. CASE Evolves(run, run') /\ Speaks /\ sent' = sent \cup out
  <2>1. run'.id = run.id /\ (run.id = 0 => ~Live(run) /\ ~ReturnOwned(run))
    BY <1>2 DEF Evolves, Base, Named
  <2>2. CASE out' = {}
    <3>1. Order' = "none" /\ (Returned' <=> Returned)
      BY <1>2, <2>2 DEF Order, Returned
    <3>2. ~Live(run) => ~Live(run') /\ (ReturnOwned(run') => ReturnOwned(run))
      BY <1>2 DEF Evolves, ReturnOwned
    <3>3. \/ Phase' = Phase
          \/ Phase = "active" /\ Phase' \in {"ended", "return"}
          \/ Phase = "return" /\ Phase' = "ended"
      BY <2>1, <3>2 DEF Phase
    <3> QED BY <2>1, <3>1, <3>3
            DEF Contract!Next, Contract!Work, Contract!End, Contract!Settle, Returned
  <2>3. CASE out' # {} /\ Live(run) /\ Live(run') /\ \A m \in out' : m.kind # "RETURN"
    <3>1. Order' = "navigate" /\ (Returned' <=> Returned)
      BY <1>2, <2>3 DEF Order, Returned
    <3>2. Phase = "active" /\ Phase' = "active"
      BY <2>1, <2>3 DEF Phase
    <3> QED BY <2>1, <3>1, <3>2 DEF Contract!Next, Contract!Navigate, Returned
  <2>4. CASE /\ out' # {} /\ run.ret = "PENDING" /\ run'.ret = "RETURNING"
             /\ \A m \in out' : m.kind = "RETURN"
    <3>1. Order' = "return" /\ Returned' /\ ~Returned
      BY <1>2, <2>4 DEF Order, Returned, ReturnOnce
    <3>2. ~Live(run) /\ ~Live(run') /\ ReturnOwned(run) /\ ReturnOwned(run')
      BY <1>2, <2>4 DEF ReturnOnce, ReturnOwned, Evolves
    <3>3. Phase = "return" /\ Phase' = "return"
      BY <2>1, <3>2 DEF Phase
    <3> QED BY <2>1, <3>1, <3>3 DEF Contract!Next, Contract!Return, Returned
  <2> QED BY <1>2, <2>2, <2>3, <2>4 DEF Speaks
<1>3. CASE UNCHANGED vars
  BY <1>3 DEF vars, Contract!vars, Phase, Order, Live, ReturnOwned
<1> QED BY <1>1, <1>2, <1>3, Evolution DEF Base

LEMMA ContractInit == Init => Contract!Init
  BY DEF Init, Contract!Init, NoRun, FreshRun, Phase, Order

\* For every set of drones, plans and deployments the engine implements the
\* mission contract: one run at a time, no order from a run that has ended,
\* and one Return at most after it.
THEOREM EngineKeepsContract == Spec => ContractKept
<1>1. (Base /\ ReturnOnce) /\ [Next]_vars => (Base /\ ReturnOnce)'
  BY BaseStep, ReturnOnceStep
<1> QED BY <1>1, BaseInit, ReturnOnceInit, ContractInit, ContractStep, PTL
        DEF Spec, ContractKept, Contract!Spec

=============================================================================
