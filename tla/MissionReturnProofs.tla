--------------------------- MODULE MissionReturnProofs ---------------------------
(***************************************************************************)
(* The safety of MissionReturn, for any fleet, plans and requests: its     *)
(* ReturnAuthority, that its leases keep the reservation table's promise,  *)
(* that a Return ends once, and that each step of a goroutine or of the    *)
(* sequence is one nearer to its end.                                      *)
(*                                                                         *)
(* ReturnAuthority is not inductive: it does not say whose batch is        *)
(* registered, that the runs of goroutines, sequence and results are past  *)
(* or current ones, nor which drones are accounted for half-way through a  *)
(* Return.  Inv adds that, one conjunct per idea; every action preserves   *)
(* it in a lemma of its own.                                               *)
(***************************************************************************)
EXTENDS MissionReturn, FiniteSetTheorems, TLAPS

\* The goroutine has claimed a batch and not unregistered it yet.
Working(j) == jobs[j].pc \in {"record", "next", "rtl", "ack", "close"}

\* The registered batch is being worked on; one that no longer is registered has
\* neither an open guard nor a reservation.
Leases ==
    /\ batch # Nobody => Working(batch)
    /\ \A j \in Callers :
          /\ Working(j) => jobs[j].run # 0
          /\ Working(j) /\ batch # j =>
                jobs[j].open = {} /\ \A d \in Drones : held[d] # j
          /\ ~Working(j) /\ jobs[j].pc # "release" => jobs[j].claims = {}
          /\ jobs[j].pc \in {"rtl", "ack"} => jobs[j].target \in Drones
          /\ \A d \in jobs[j].open : held[d] = j
    /\ NoLeaseLeaks

\* Nothing is about a run that is still to come, and a run that flies has not
\* begun to return.
Dated ==
    /\ \A j \in Callers : jobs[j].run <= run.id
    /\ seq.run <= run.id
    /\ \A r \in results : r.run <= run.id
    /\ \A r \in revoked : r <= run.id
    /\ run.id = 0 => ~run.flying /\ run.state = "inactive"
    /\ run.flying => run.state = "inactive"
    /\ run.id # 0 => run.crew # {}

\* A revoked run neither flies nor returns, and what could write for it, its
\* batch or the sequence, is shut.
Silence ==
    /\ run.id \in revoked => ~run.flying /\ ~ReturnActive
    /\ \A j \in Callers : batch = j => jobs[j].run \notin revoked
    /\ seq.open => seq.run \notin revoked
    /\ RevokedIsSilent

\* A sequence that may write stays off the drones of a mission that returns by
\* leases; a run returns in one way only.
Apart ==
    /\ seq.phase = "off" => ~seq.open /\ seq.run = 0
    /\ seq.open /\ run.policy = "rtl" /\ (run.flying \/ ReturnActive) =>
          seq.drones \cap run.crew = {}
    /\ seq.run = run.id /\ run.id # 0 => run.policy = "swarm"
    /\ SoleOwner /\ OnePilot

\* Half-way, each drone of the run is still to be served, was brought home, or
\* has left the fleet; no result says success while one is still to be served.
Home ==
    /\ \A j \in Callers : jobs[j].run = run.id /\ ~jobs[j].failed =>
          /\ Working(j) => run.crew \subseteq jobs[j].todo \cup told
          /\ jobs[j].pc = "close" => jobs[j].todo = {}
          /\ jobs[j].pc = "release" => run.crew \subseteq told
    /\ seq.run = run.id /\ run.id # 0 =>
          /\ run.crew \subseteq seq.drones
          /\ seq.phase \in {"land", "rtl"} =>
                run.crew \subseteq seq.left \cup told \cup gone
    /\ \A r \in results : r.run = run.id /\ r.outcome = "succeeded" =>
          run.crew \subseteq told \cup gone
    /\ CompletedMeansHome

\* The inductive invariant.
Inv == TypeOK /\ Leases /\ Dated /\ Silence /\ Apart /\ Home

USE CallerAssumption DEF Silent, dispatch, fleet, history, others, seqKept, takeoverKept

-----------------------------------------------------------------------------
(* Pieces                                                                  *)

\* A goroutine's record changes to another.
LEMMA JobTyped ==
    ASSUME TypeOK, NEW j \in Callers, NEW job \in JobType,
           jobs' = [jobs EXCEPT ![j] = job]
    PROVE  jobs' \in [Callers -> JobType]
BY DEF TypeOK

LEMMA FreshJobs == IdleJob \in JobType /\ AskingJob \in JobType
<1>1. IdleJob \in JobType
  BY BoundAssumption DEF IdleJob, JobType
<1> QED
  BY <1>1 DEF AskingJob, IdleJob, JobType

\* A goroutine whose guards may be closed, with nothing else changed.
Narrowed(j) ==
    /\ jobs'[j].pc = jobs[j].pc /\ jobs'[j].run = jobs[j].run
    /\ jobs'[j].claims = jobs[j].claims /\ jobs'[j].todo = jobs[j].todo
    /\ jobs'[j].target = jobs[j].target /\ jobs'[j].failed = jobs[j].failed
    /\ jobs'[j].open \subseteq jobs[j].open

LEMMA EndedTyped ==
    ASSUME TypeOK, NEW r \in Nat, NEW state \in {"suppressed", "failed"}
    PROVE  /\ Ended(r, state) \in RunType
           /\ [Ended(r, state) EXCEPT !.flying = FALSE] \in RunType
BY DEF TypeOK, RunType, Ended, ReturnActive, Pending

\* What a takeover leaves of the leases it takes drones from.
LEMMA Preempting ==
    ASSUME TypeOK, Leases, NEW T \in SUBSET Drones,
           jobs' = [j \in Callers |-> [jobs[j] EXCEPT !.open = Preempted(j, T)]],
           held' = Holding(T), batch' = batch
    PROVE  /\ jobs' \in [Callers -> JobType]
           /\ held' \in [Drones -> Callers \cup {"free", "command"}]
           /\ Leases'
           /\ \A j \in Callers : Narrowed(j)
           /\ \A d \in Drones : held'[d] = "command" => held[d] = "command" \/ d \in T
<1> DEFINE Kept(j) == [jobs[j] EXCEPT !.open = Preempted(j, T)]
<1>1. ASSUME NEW j \in Callers
      PROVE  Kept(j) \in JobType
  <2>1. jobs[j] \in JobType
    BY DEF TypeOK
  <2>2. Preempted(j, T) \in SUBSET Drones
    BY <2>1 DEF JobType, Preempted
  <2> QED
    BY <2>1, <2>2 DEF JobType
<1>2. jobs' \in [Callers -> JobType]
  BY <1>1
<1>3. held' \in [Drones -> Callers \cup {"free", "command"}]
  BY DEF TypeOK, Holding
<1>4. \A j \in Callers : Narrowed(j)
  BY DEF TypeOK, JobType, Narrowed, Preempted
<1>5. (batch # Nobody => Working(batch))'
  BY <1>4 DEF Leases, Working, Narrowed, Nobody, TypeOK
<1>6. ASSUME NEW j \in Callers
      PROVE  /\ Working(j)' => jobs'[j].run # 0
             /\ Working(j)' /\ batch' # j =>
                   jobs'[j].open = {} /\ \A d \in Drones : held'[d] # j
             /\ ~Working(j)' /\ jobs'[j].pc # "release" => jobs'[j].claims = {}
             /\ jobs'[j].pc \in {"rtl", "ack"} => jobs'[j].target \in Drones
             /\ \A d \in jobs'[j].open : held'[d] = j
             /\ \A d \in Drones : held'[d] = j => d \in jobs'[j].claims
  <2>1. Narrowed(j)
    BY <1>4
  <2>2. \A d \in jobs'[j].open : d \in Drones /\ held'[d] = j
    BY DEF TypeOK, JobType, Leases, Preempted, Holding
  <2>3. \A d \in Drones : held'[d] = j => held[d] = j
    BY DEF TypeOK, Holding
  <2>4. Working(j)' /\ batch' # j => jobs'[j].open = {} /\ \A d \in Drones : held'[d] # j
    BY <2>1, <2>3 DEF Leases, Working, Narrowed, TypeOK, Nobody, Holding
  <2> QED
    BY <2>1, <2>2, <2>3, <2>4 DEF Leases, Working, NoLeaseLeaks, Narrowed
<1>7. Leases'
  BY <1>5, <1>6 DEF Leases, NoLeaseLeaks
<1> QED
  BY <1>2, <1>3, <1>4, <1>7 DEF Holding

LEMMA Closing ==
    ASSUME TypeOK, Leases, NEW T \in SUBSET Drones, CloseBatch(T)
    PROVE  /\ jobs' \in [Callers -> JobType]
           /\ held' \in [Drones -> Callers \cup {"free", "command"}]
           /\ batch' \in {batch, Nobody}
           /\ batch' # Nobody => jobs[batch].run # run.id
           /\ Leases'
           /\ \A j \in Callers : Narrowed(j)
           /\ \A d \in Drones : held'[d] = "command" => held[d] = "command" \/ d \in T
<1> DEFINE Open(j) == IF OwnBatch /\ j = batch THEN {} ELSE Preempted(j, T)
           Kept(j) == [jobs[j] EXCEPT !.open = Open(j)]
<1>1. ASSUME NEW j \in Callers
      PROVE  Kept(j) \in JobType
  <2>1. jobs[j] \in JobType
    BY DEF TypeOK
  <2>2. Preempted(j, T) \in SUBSET Drones
    BY <2>1 DEF JobType, Preempted
  <2> QED
    BY <2>1, <2>2 DEF JobType
<1>2. jobs' \in [Callers -> JobType]
  BY <1>1 DEF CloseBatch
<1>3. held' \in [Drones -> Callers \cup {"free", "command"}]
  BY DEF TypeOK, Holding, CloseBatch
<1>4. \A j \in Callers : Narrowed(j)
  BY DEF CloseBatch, TypeOK, JobType, Narrowed, Preempted
<1>5. (batch # Nobody => Working(batch))'
  BY <1>4 DEF Leases, Working, Narrowed, CloseBatch, OwnBatch, Nobody, TypeOK
<1>6. ASSUME NEW j \in Callers
      PROVE  /\ Working(j)' => jobs'[j].run # 0
             /\ Working(j)' /\ batch' # j =>
                   jobs'[j].open = {} /\ \A d \in Drones : held'[d] # j
             /\ ~Working(j)' /\ jobs'[j].pc # "release" => jobs'[j].claims = {}
             /\ jobs'[j].pc \in {"rtl", "ack"} => jobs'[j].target \in Drones
             /\ \A d \in jobs'[j].open : held'[d] = j
             /\ \A d \in Drones : held'[d] = j => d \in jobs'[j].claims
  <2>1. Narrowed(j)
    BY <1>4
  <2>2. \A d \in jobs'[j].open : d \in Drones /\ held'[d] = j
    BY DEF TypeOK, JobType, Leases, Preempted, Holding, CloseBatch, OwnBatch
  <2>3. \A d \in Drones : held'[d] = j => held[d] = j
    BY DEF TypeOK, Holding, CloseBatch, OwnBatch
  <2>4. Working(j)' /\ batch' # j => jobs'[j].open = {} /\ \A d \in Drones : held'[d] # j
    <3>1. CASE OwnBatch /\ j = batch
      BY <3>1 DEF CloseBatch, TypeOK, JobType
    <3>2. CASE j # batch
      BY <2>1, <2>3, <3>2 DEF Leases, Working, Narrowed
    <3>3. CASE ~OwnBatch
      BY <2>1, <2>3, <3>3 DEF Leases, Working, Narrowed, CloseBatch
    <3> QED
      BY <3>1, <3>2, <3>3
  <2> QED
    BY <2>1, <2>2, <2>3, <2>4 DEF Leases, Working, NoLeaseLeaks, Narrowed
<1>7. Leases'
  BY <1>5, <1>6 DEF Leases, NoLeaseLeaks
<1> QED
  BY <1>2, <1>3, <1>4, <1>7 DEF CloseBatch, OwnBatch, Holding

-----------------------------------------------------------------------------
(* The mission                                                             *)

LEMMA StartMissionKeeps ==
    ASSUME NEW p \in Plans, StartMission(p), Inv
    PROVE  Inv'
<1>1. TypeOK'
  <2>1. p \in PlanType /\ run.id + 1 \in 0..MaxRun
    BY PlanAssumption, BoundAssumption DEF StartMission, Inv, TypeOK, RunType
  <2>2. run' \in RunType
    BY <2>1 DEF StartMission, PlanType, RunType
  <2> QED
    BY <2>2, BoundAssumption DEF StartMission, Inv, TypeOK
<1>2. Leases' /\ Dated' /\ Silence' /\ Apart' /\ Home'
  BY DroneAssumption, TargetAssumption, PlanAssumption
  DEF StartMission, Inv, TypeOK, RunType, JobType, SeqType, ResultType, Leases, Working,
      NoLeaseLeaks, Nobody, Dated, Silence, RevokedIsSilent, ReturnActive, Pending, Apart,
      SoleOwner, OnePilot, Home, CompletedMeansHome
<1> QED
  BY <1>1, <1>2 DEF Inv

LEMMA SendMissionKeeps ==
    ASSUME NEW j \in Callers, SendMission(j), Inv
    PROVE  Inv'
<1>1. TypeOK'
  <2>1. jobs[j] \in JobType /\ run \in RunType
    BY DEF Inv, TypeOK
  <2>2. [jobs[j] EXCEPT !.pc = "send", !.run = run.id] \in JobType
    BY <2>1 DEF JobType, RunType
  <2>3. jobs' \in [Callers -> JobType]
    BY <2>1, <2>2, JobTyped, FreshJobs DEF SendMission, Inv
  <2> QED
    BY <2>3, BoundAssumption
    DEF SendMission, Inv, TypeOK, RunType, JobType, SeqType, ResultType, Leases
<1>2. Leases' /\ Dated' /\ Silence' /\ Apart' /\ Home'
  BY DroneAssumption, TargetAssumption, PlanAssumption
  DEF SendMission, Inv, TypeOK, RunType, JobType, SeqType, ResultType, Leases, Working,
      NoLeaseLeaks, Nobody, Dated, Silence, RevokedIsSilent, ReturnActive, Pending, Apart,
      SoleOwner, OnePilot, Home, CompletedMeansHome
<1> QED
  BY <1>1, <1>2 DEF Inv

LEMMA SendReturnsKeeps ==
    ASSUME NEW j \in Callers, SendReturns(j), Inv
    PROVE  Inv'
<1>1. TypeOK'
  <2>1. run' \in RunType
    BY DEF SendReturns, Inv, TypeOK, RunType
  <2>2. jobs' \in [Callers -> JobType]
    BY JobTyped, FreshJobs DEF SendReturns, Inv
  <2> QED
    BY <2>1, <2>2, BoundAssumption DEF SendReturns, Inv, TypeOK
<1>2. Leases' /\ Dated' /\ Silence' /\ Apart' /\ Home'
  BY DroneAssumption, TargetAssumption, PlanAssumption
  DEF SendReturns, AskingJob, IdleJob, Inv, TypeOK, RunType, JobType, SeqType,
      ResultType, Leases, Working, NoLeaseLeaks, Nobody, Dated, Silence, RevokedIsSilent,
      ReturnActive, Pending, Apart, SoleOwner, OnePilot, Home, CompletedMeansHome
<1> QED
  BY <1>1, <1>2 DEF Inv

LEMMA CompleteKeeps ==
    ASSUME Complete, Inv
    PROVE  Inv'
<1>1. TypeOK'
  <2>1. run' \in RunType
    BY DEF Complete, Inv, TypeOK, RunType
  <2>2. jobs' \in [Callers -> JobType]
    BY JobTyped, FreshJobs DEF Complete, Inv
  <2> QED
    BY <2>1, <2>2, BoundAssumption DEF Complete, Inv, TypeOK
<1>2. Leases' /\ Dated' /\ Silence' /\ Apart' /\ Home'
  BY DroneAssumption, TargetAssumption, PlanAssumption
  DEF Complete, AskingJob, IdleJob, Inv, TypeOK, RunType, JobType, SeqType, ResultType,
      Leases, Working, NoLeaseLeaks, Nobody, Dated, Silence, RevokedIsSilent, ReturnActive,
      Pending, Apart, SoleOwner, OnePilot, Home, CompletedMeansHome
<1> QED
  BY <1>1, <1>2 DEF Inv

-----------------------------------------------------------------------------
(* The dispatchers                                                         *)

LEMMA AskKeeps ==
    ASSUME NEW j \in Callers, Ask(j), Inv
    PROVE  Inv'
<1>1. TypeOK'
  BY DroneAssumption, PlanAssumption, TargetAssumption, BoundAssumption
  DEF Ask, Inv, TypeOK, RunType, JobType, SeqType, ResultType
<1>2. Leases' /\ Dated' /\ Silence' /\ Apart' /\ Home'
  BY DroneAssumption, TargetAssumption, PlanAssumption
  DEF Ask, Inv, TypeOK, RunType, JobType, SeqType, ResultType, Leases, Working,
      NoLeaseLeaks, Nobody, Dated, Silence, RevokedIsSilent, ReturnActive, Pending, Apart,
      SoleOwner, OnePilot, Home, CompletedMeansHome
<1> QED
  BY <1>1, <1>2 DEF Inv

LEMMA SaveKeeps ==
    ASSUME NEW j \in Callers, NEW ok \in BOOLEAN, Save(j, ok), Inv
    PROVE  Inv'
<1>1. TypeOK'
  BY DroneAssumption, PlanAssumption, TargetAssumption, BoundAssumption
  DEF Save, Ended, Inv, TypeOK, RunType, JobType, SeqType, ResultType
<1>2. Leases' /\ Dated' /\ Silence' /\ Apart' /\ Home'
  BY DroneAssumption, TargetAssumption, PlanAssumption
  DEF Save, Ended, Inv, TypeOK, RunType, JobType, SeqType, ResultType, Leases, Working,
      NoLeaseLeaks, Nobody, Dated, Silence, RevokedIsSilent, ReturnActive, Pending, Apart,
      SoleOwner, OnePilot, Home, CompletedMeansHome
<1> QED
  BY <1>1, <1>2 DEF Inv

LEMMA ClaimNothingKeeps ==
    ASSUME NEW j \in Callers, ClaimNothing(j), Inv
    PROVE  Inv'
<1>1. TypeOK'
  BY DroneAssumption, PlanAssumption, TargetAssumption, BoundAssumption
  DEF ClaimNothing, Inv, TypeOK, RunType, JobType, SeqType, ResultType
<1>2. Leases' /\ Dated' /\ Silence' /\ Apart' /\ Home'
  BY DroneAssumption, TargetAssumption, PlanAssumption
  DEF ClaimNothing, Inv, TypeOK, RunType, JobType, SeqType, ResultType, Leases, Working,
      NoLeaseLeaks, Nobody, Dated, Silence, RevokedIsSilent, ReturnActive, Pending, Apart,
      SoleOwner, OnePilot, Home, CompletedMeansHome
<1> QED
  BY <1>1, <1>2 DEF Inv

LEMMA ClaimSuppressedKeeps ==
    ASSUME NEW j \in Callers, ClaimSuppressed(j), Inv
    PROVE  Inv'
<1>1. TypeOK'
  <2>1. run.id \in Nat
    BY BoundAssumption DEF Inv, TypeOK, RunType
  <2>2. run' \in RunType
    BY <2>1, EndedTyped DEF ClaimSuppressed, Inv
  <2> QED
    BY <2>2, BoundAssumption DEF ClaimSuppressed, Inv, TypeOK, JobType
<1>2. Leases' /\ Dated' /\ Silence' /\ Apart' /\ Home'
  BY DroneAssumption, TargetAssumption, PlanAssumption
  DEF ClaimSuppressed, Claimable, Ended, Inv, TypeOK, RunType, JobType, SeqType,
      ResultType, Leases, Working, NoLeaseLeaks, Nobody, Dated, Silence, RevokedIsSilent,
      ReturnActive, Pending, Apart, SoleOwner, OnePilot, Home, CompletedMeansHome
<1> QED
  BY <1>1, <1>2 DEF Inv

LEMMA ClaimRtlKeeps ==
    ASSUME NEW j \in Callers, ClaimRtl(j), Inv
    PROVE  Inv'
<1>1. TypeOK'
  BY DroneAssumption, PlanAssumption, TargetAssumption, BoundAssumption
  DEF ClaimRtl, Claimable, Blocked, Contested, Batch, Inv, TypeOK, RunType, JobType,
      SeqType, ResultType
<1>2. Leases' /\ Dated' /\ Silence' /\ Apart' /\ Home'
  BY DroneAssumption, TargetAssumption, PlanAssumption
  DEF ClaimRtl, Claimable, Blocked, Contested, Batch, Inv, TypeOK, RunType, JobType,
      SeqType, ResultType, Leases, Working, NoLeaseLeaks, Nobody, Dated, Silence,
      RevokedIsSilent, ReturnActive, Pending, Apart, SoleOwner, OnePilot, Home,
      CompletedMeansHome
<1> QED
  BY <1>1, <1>2 DEF Inv

LEMMA ClaimSwarmKeeps ==
    ASSUME NEW j \in Callers, NEW accepted \in BOOLEAN, ClaimSwarm(j, accepted), Inv
    PROVE  Inv'
<1>1. TypeOK'
  BY DroneAssumption, PlanAssumption, TargetAssumption, BoundAssumption
  DEF ClaimSwarm, Claimable, Contested, Blocked, Accepts, Selected, StartSeq, Inv,
      TypeOK, RunType, JobType, SeqType, ResultType
<1>2. Leases' /\ Dated' /\ Silence' /\ Apart' /\ Home'
  BY DroneAssumption, TargetAssumption, PlanAssumption
  DEF ClaimSwarm, Claimable, Contested, Blocked, Accepts, Selected, StartSeq, Inv,
      TypeOK, RunType, JobType, SeqType, ResultType, Leases, Working, NoLeaseLeaks, Nobody,
      Dated, Silence, RevokedIsSilent, ReturnActive, Pending, Apart, SoleOwner, OnePilot,
      Home, CompletedMeansHome
<1> QED
  BY <1>1, <1>2 DEF Inv

LEMMA RecordKeeps ==
    ASSUME NEW j \in Callers, NEW ok \in BOOLEAN, Record(j, ok), Inv
    PROVE  Inv'
<1>1. TypeOK'
  <2>1. jobs[j] \in JobType /\ jobs[j].run \in Nat
    BY BoundAssumption DEF Inv, TypeOK, JobType
  <2>2. [jobs[j] EXCEPT !.pc = "next"] \in JobType
    BY <2>1 DEF JobType
  <2>3. jobs' \in [Callers -> JobType]
    BY <2>2, JobTyped, FreshJobs DEF Record, Inv, TypeOK
  <2>4. run' \in RunType
    BY <2>1, EndedTyped DEF Record, Inv, TypeOK
  <2>5. held' \in [Drones -> Callers \cup {"free", "command"}]
    BY DEF Record, Inv, TypeOK
  <2>6. batch' \in Callers \cup {Nobody} /\ unsaved' \in BOOLEAN
    BY DEF Record, Inv, TypeOK
  <2> QED
    BY <2>3, <2>4, <2>5, <2>6, BoundAssumption DEF Record, Inv, TypeOK
<1>2. Leases' /\ Dated' /\ Silence' /\ Apart' /\ Home'
  BY DroneAssumption, TargetAssumption, PlanAssumption
  DEF Record, Ended, IdleJob, Inv, TypeOK, RunType, JobType, SeqType, ResultType,
      Leases, Working, NoLeaseLeaks, Nobody, Dated, Silence, RevokedIsSilent, ReturnActive,
      Pending, Apart, SoleOwner, OnePilot, Home, CompletedMeansHome
<1> QED
  BY <1>1, <1>2 DEF Inv

LEMMA BeginKeeps ==
    ASSUME NEW j \in Callers, NEW d \in Drones, Begin(j, d), Inv
    PROVE  Inv'
<1>1. TypeOK'
  <2>1. jobs[j] \in JobType /\ run \in RunType
    BY DEF Inv, TypeOK
  <2>2. [jobs[j] EXCEPT !.pc = "rtl", !.target = d] \in JobType
    BY <2>1, DroneAssumption DEF JobType, RunType
  <2>3. [jobs[j] EXCEPT !.pc = "close", !.failed = TRUE] \in JobType
    BY <2>1 DEF JobType, RunType
  <2>4. jobs' \in [Callers -> JobType]
    BY <2>1, <2>2, <2>3, JobTyped, FreshJobs DEF Begin, Inv
  <2> QED
    BY <2>4, BoundAssumption
    DEF Begin, Inv, TypeOK, RunType, JobType, SeqType, ResultType, Leases
<1>2. Leases' /\ Dated' /\ Silence' /\ Apart' /\ Home'
  BY DroneAssumption, TargetAssumption, PlanAssumption
  DEF Begin, Inv, TypeOK, RunType, JobType, SeqType, ResultType, Leases, Working,
      NoLeaseLeaks, Nobody, Dated, Silence, RevokedIsSilent, ReturnActive, Pending, Apart,
      SoleOwner, OnePilot, Home, CompletedMeansHome
<1> QED
  BY <1>1, <1>2 DEF Inv

LEMMA RtlWriteKeeps ==
    ASSUME NEW j \in Callers, RtlWrite(j), Inv
    PROVE  Inv'
<1>1. TypeOK'
  BY DroneAssumption, PlanAssumption, TargetAssumption, BoundAssumption
  DEF RtlWrite, Inv, TypeOK, RunType, JobType, SeqType, ResultType
<1>2. Leases' /\ Dated' /\ Silence' /\ Apart' /\ Home'
  BY DroneAssumption, TargetAssumption, PlanAssumption
  DEF RtlWrite, Inv, TypeOK, RunType, JobType, SeqType, ResultType, Leases, Working,
      NoLeaseLeaks, Nobody, Dated, Silence, RevokedIsSilent, ReturnActive, Pending, Apart,
      SoleOwner, OnePilot, Home, CompletedMeansHome
<1> QED
  BY <1>1, <1>2 DEF Inv

LEMMA RtlAcceptedKeeps ==
    ASSUME NEW j \in Callers, RtlAccepted(j), Inv
    PROVE  Inv'
<1> DEFINE todo == jobs[j].todo \ {jobs[j].target}
           job == [jobs[j] EXCEPT !.pc = IF todo = {} THEN "close" ELSE "next",
                                  !.todo = todo, !.target = 0]
<1>1. TypeOK'
  <2>1. jobs[j] \in JobType
    BY DEF Inv, TypeOK
  <2>2. job \in JobType
    BY <2>1 DEF JobType
  <2>3. jobs' \in [Callers -> JobType]
    BY <2>2, JobTyped DEF RtlAccepted, Inv
  <2>4. told' \subseteq Drones
    BY DEF RtlAccepted, Heard, Inv, TypeOK, Leases
  <2> QED
    BY <2>3, <2>4, BoundAssumption DEF RtlAccepted, Inv, TypeOK
<1>2. Leases' /\ Dated' /\ Silence' /\ Apart' /\ Home'
  BY DroneAssumption, TargetAssumption, PlanAssumption
  DEF RtlAccepted, Heard, Inv, TypeOK, RunType, JobType, SeqType, ResultType, Leases,
      Working, NoLeaseLeaks, Nobody, Dated, Silence, RevokedIsSilent, ReturnActive, Pending,
      Apart, SoleOwner, OnePilot, Home, CompletedMeansHome
<1> QED
  BY <1>1, <1>2 DEF Inv

LEMMA RtlFailsKeeps ==
    ASSUME NEW j \in Callers, RtlFails(j), Inv
    PROVE  Inv'
<1>1. TypeOK'
  <2>1. jobs[j] \in JobType /\ run \in RunType
    BY DEF Inv, TypeOK
  <2>2. [jobs[j] EXCEPT !.pc = "close", !.failed = TRUE] \in JobType
    BY <2>1 DEF JobType, RunType
  <2>3. jobs' \in [Callers -> JobType]
    BY <2>1, <2>2, JobTyped, FreshJobs DEF RtlFails, Inv
  <2> QED
    BY <2>3, BoundAssumption
    DEF RtlFails, Inv, TypeOK, RunType, JobType, SeqType, ResultType, Leases
<1>2. Leases' /\ Dated' /\ Silence' /\ Apart' /\ Home'
  BY DroneAssumption, TargetAssumption, PlanAssumption
  DEF RtlFails, Inv, TypeOK, RunType, JobType, SeqType, ResultType, Leases, Working,
      NoLeaseLeaks, Nobody, Dated, Silence, RevokedIsSilent, ReturnActive, Pending, Apart,
      SoleOwner, OnePilot, Home, CompletedMeansHome
<1> QED
  BY <1>1, <1>2 DEF Inv

LEMMA UnregisterKeeps ==
    ASSUME NEW j \in Callers, Unregister(j), Inv
    PROVE  Inv'
<1>1. TypeOK'
  <2>1. jobs[j] \in JobType /\ run \in RunType
    BY DEF Inv, TypeOK
  <2>2. [jobs[j] EXCEPT !.pc = "release", !.todo = {}, !.target = 0,
                         !.current = (batch = j)] \in JobType
    BY <2>1, DroneAssumption DEF JobType, RunType
  <2>3. jobs' \in [Callers -> JobType]
    BY <2>1, <2>2, JobTyped, FreshJobs DEF Unregister, Inv
  <2> QED
    BY <2>3, BoundAssumption
    DEF Unregister, Inv, TypeOK, RunType, JobType, SeqType, ResultType, Leases
<1>2. Leases' /\ Dated' /\ Silence' /\ Apart' /\ Home'
  BY DroneAssumption, TargetAssumption, PlanAssumption
  DEF Unregister, Inv, TypeOK, RunType, JobType, SeqType, ResultType, Leases, Working,
      NoLeaseLeaks, Nobody, Dated, Silence, RevokedIsSilent, ReturnActive, Pending, Apart,
      SoleOwner, OnePilot, Home, CompletedMeansHome
<1> QED
  BY <1>1, <1>2 DEF Inv

LEMMA ReleaseKeeps ==
    ASSUME NEW j \in Callers, NEW d \in Drones, Release(j, d), Inv
    PROVE  Inv'
<1>1. TypeOK'
  <2>1. jobs[j] \in JobType /\ run \in RunType
    BY DEF Inv, TypeOK
  <2>2. [jobs[j] EXCEPT !.claims = @ \ {d}, !.open = @ \ {d}] \in JobType
    BY <2>1 DEF JobType, RunType
  <2>3. jobs' \in [Callers -> JobType]
    BY <2>1, <2>2, JobTyped, FreshJobs DEF Release, Inv, TypeOK
  <2> QED
    BY <2>3, BoundAssumption
    DEF Release, Inv, TypeOK, RunType, JobType, SeqType, ResultType, Leases
<1>2. Leases' /\ Dated' /\ Silence' /\ Apart' /\ Home'
  BY DroneAssumption, TargetAssumption, PlanAssumption
  DEF Release, Inv, TypeOK, RunType, JobType, SeqType, ResultType, Leases, Working,
      NoLeaseLeaks, Nobody, Dated, Silence, RevokedIsSilent, ReturnActive, Pending, Apart,
      SoleOwner, OnePilot, Home, CompletedMeansHome
<1> QED
  BY <1>1, <1>2 DEF Inv

LEMMA SettleKeeps ==
    ASSUME NEW j \in Callers, Settle(j), Inv
    PROVE  Inv'
<1>1. TypeOK'
  BY DroneAssumption, PlanAssumption, TargetAssumption, BoundAssumption
  DEF Settle, Ended, Completed, IdleJob, Inv, TypeOK, RunType, JobType, SeqType,
      ResultType
<1>2. Leases' /\ Dated' /\ Silence' /\ Apart' /\ Home'
  BY DroneAssumption, TargetAssumption, PlanAssumption
  DEF Settle, Ended, Completed, IdleJob, Inv, TypeOK, RunType, JobType, SeqType,
      ResultType, Leases, Working, NoLeaseLeaks, Nobody, Dated, Silence, RevokedIsSilent,
      ReturnActive, Pending, Apart, SoleOwner, OnePilot, Home, CompletedMeansHome
<1> QED
  BY <1>1, <1>2 DEF Inv

-----------------------------------------------------------------------------
(* The sequence and its result                                             *)

LEMMA SeqGotoKeeps ==
    ASSUME NEW d \in Drones, SeqGoto(d), Inv
    PROVE  Inv'
<1>1. TypeOK'
  BY DroneAssumption, PlanAssumption, TargetAssumption, BoundAssumption
  DEF SeqGoto, SeqMaySend, Turn, SeqWrites, seqKept, Inv, TypeOK, RunType, JobType,
      SeqType, ResultType
<1>2. Leases' /\ Dated' /\ Silence' /\ Apart' /\ Home'
  BY DroneAssumption, TargetAssumption, PlanAssumption
  DEF SeqGoto, SeqMaySend, Turn, SeqWrites, seqKept, Inv, TypeOK, RunType, JobType,
      SeqType, ResultType, Leases, Working, NoLeaseLeaks, Nobody, Dated, Silence,
      RevokedIsSilent, ReturnActive, Pending, Apart, SoleOwner, OnePilot, Home,
      CompletedMeansHome
<1> QED
  BY <1>1, <1>2 DEF Inv

LEMMA SeqOrderKeeps ==
    ASSUME NEW d \in Drones, SeqOrder(d), Inv
    PROVE  Inv'
<1>1. TypeOK'
  BY DroneAssumption, PlanAssumption, TargetAssumption, BoundAssumption
  DEF SeqOrder, SeqMaySend, Turn, SeqWrites, seqKept, Inv, TypeOK, RunType, JobType,
      SeqType, ResultType
<1>2. Leases' /\ Dated' /\ Silence' /\ Apart' /\ Home'
  BY DroneAssumption, TargetAssumption, PlanAssumption
  DEF SeqOrder, SeqMaySend, Turn, SeqWrites, seqKept, Inv, TypeOK, RunType, JobType,
      SeqType, ResultType, Leases, Working, NoLeaseLeaks, Nobody, Dated, Silence,
      RevokedIsSilent, ReturnActive, Pending, Apart, SoleOwner, OnePilot, Home,
      CompletedMeansHome
<1> QED
  BY <1>1, <1>2 DEF Inv

LEMMA SeqLandedKeeps ==
    ASSUME SeqLanded, Inv
    PROVE  Inv'
<1>1. TypeOK'
  <2>1. seq \in SeqType
    BY DEF Inv, TypeOK
  <2>2. seq' \in SeqType /\ told' \subseteq Drones
    BY <2>1 DEF SeqLanded, Heard, Inv, TypeOK, SeqType
  <2> QED
    BY <2>2, BoundAssumption DEF SeqLanded, Inv, TypeOK
<1>2. Leases' /\ Dated' /\ Silence' /\ Apart' /\ Home'
  BY DroneAssumption, TargetAssumption, PlanAssumption
  DEF SeqLanded, Heard, seqKept, Inv, TypeOK, RunType, JobType, SeqType, ResultType,
      Leases, Working, NoLeaseLeaks, Nobody, Dated, Silence, RevokedIsSilent, ReturnActive,
      Pending, Apart, SoleOwner, OnePilot, Home, CompletedMeansHome
<1> QED
  BY <1>1, <1>2 DEF Inv

LEMMA SeqPhaseDoneKeeps ==
    ASSUME SeqPhaseDone, Inv
    PROVE  Inv'
<1>1. PICK phase \in {"travel", "land"} : seq' = Into(phase, seq.drones)
  BY DEF SeqPhaseDone
<1>2. seq \in SeqType
  BY DEF Inv, TypeOK
<1>3. /\ seq' \in SeqType
      /\ seq'.phase = phase /\ seq'.left = seq.drones
      /\ seq'.drones = seq.drones /\ seq'.run = seq.run /\ seq'.open = seq.open
  BY <1>1, <1>2 DEF Into, SeqType
<1>4. TypeOK'
  BY <1>3, BoundAssumption DEF SeqPhaseDone, SeqMoves, Inv, TypeOK
<1>5. Leases' /\ Dated' /\ Silence' /\ Apart' /\ Home'
  BY <1>3
  DEF SeqPhaseDone, SeqMoves, Inv, TypeOK, RunType, JobType, SeqType, ResultType,
      Leases, Working, NoLeaseLeaks, Nobody, Dated, Silence, RevokedIsSilent, ReturnActive,
      Pending, Apart, SoleOwner, OnePilot, Home, CompletedMeansHome
<1> QED
  BY <1>4, <1>5 DEF Inv

LEMMA SeqGotoFailsKeeps ==
    ASSUME NEW d \in Drones, SeqGotoFails(d), Inv
    PROVE  Inv'
<1>1. TypeOK'
  <2>1. seq \in SeqType
    BY DEF Inv, TypeOK
  <2>2. seq' \in SeqType
    BY <2>1 DEF SeqGotoFails, SeqType
  <2> QED
    BY <2>2, BoundAssumption DEF SeqGotoFails, SeqMoves, Inv, TypeOK
<1>2. Leases' /\ Dated' /\ Silence' /\ Apart' /\ Home'
  BY DroneAssumption, TargetAssumption, PlanAssumption
  DEF SeqGotoFails, Turn, SeqMoves, seqKept, Inv, TypeOK, RunType, JobType, SeqType,
      ResultType, Leases, Working, NoLeaseLeaks, Nobody, Dated, Silence, RevokedIsSilent,
      ReturnActive, Pending, Apart, SoleOwner, OnePilot, Home, CompletedMeansHome
<1> QED
  BY <1>1, <1>2 DEF Inv

LEMMA FallBackKeeps ==
    ASSUME FallBack, Inv
    PROVE  Inv'
<1>1. seq \in SeqType
  BY DEF Inv, TypeOK
<1>2. PICK left \in SUBSET Drones :
         /\ seq' = Into("rtl", left)
         /\ left = seq.drones \/ (seq.phase = "land" /\ left = seq.left)
  BY <1>1 DEF FallBack, SeqType
<1>3. /\ seq' \in SeqType
      /\ seq'.phase = "rtl" /\ seq'.left = left
      /\ seq'.drones = seq.drones /\ seq'.run = seq.run /\ seq'.open = seq.open
  BY <1>1, <1>2 DEF Into, SeqType
<1>4. TypeOK'
  BY <1>3, BoundAssumption DEF FallBack, SeqMoves, Inv, TypeOK
<1>5. Leases' /\ Dated' /\ Silence' /\ Apart' /\ Home'
  BY <1>2, <1>3
  DEF FallBack, SeqMoves, Inv, TypeOK, RunType, JobType, SeqType, ResultType, Leases,
      Working, NoLeaseLeaks, Nobody, Dated, Silence, RevokedIsSilent, ReturnActive, Pending,
      Apart, SoleOwner, OnePilot, Home, CompletedMeansHome
<1> QED
  BY <1>4, <1>5 DEF Inv

LEMMA SeqSkipKeeps ==
    ASSUME NEW d \in Drones, SeqSkip(d), Inv
    PROVE  Inv'
<1>1. TypeOK'
  BY DroneAssumption, PlanAssumption, TargetAssumption, BoundAssumption
  DEF SeqSkip, Turn, SeqMoves, seqKept, Inv, TypeOK, RunType, JobType, SeqType,
      ResultType
<1>2. Leases' /\ Dated' /\ Silence' /\ Apart' /\ Home'
  BY DroneAssumption, TargetAssumption, PlanAssumption
  DEF SeqSkip, Turn, SeqMoves, seqKept, Inv, TypeOK, RunType, JobType, SeqType,
      ResultType, Leases, Working, NoLeaseLeaks, Nobody, Dated, Silence, RevokedIsSilent,
      ReturnActive, Pending, Apart, SoleOwner, OnePilot, Home, CompletedMeansHome
<1> QED
  BY <1>1, <1>2 DEF Inv

LEMMA SeqEndsKeeps ==
    ASSUME NEW outcome \in {"succeeded", "cancelled", "failed"}, SeqEnds(outcome), Inv
    PROVE  Inv'
<1>1. TypeOK'
  BY DroneAssumption, PlanAssumption, TargetAssumption, BoundAssumption
  DEF SeqEnds, SeqOutcomes, NoSeq, seqKept, Inv, TypeOK, RunType, JobType, SeqType,
      ResultType
<1>2. Leases' /\ Dated' /\ Silence' /\ Apart' /\ Home'
  BY DroneAssumption, TargetAssumption, PlanAssumption
  DEF SeqEnds, SeqOutcomes, NoSeq, seqKept, Inv, TypeOK, RunType, JobType, SeqType,
      ResultType, Leases, Working, NoLeaseLeaks, Nobody, Dated, Silence, RevokedIsSilent,
      ReturnActive, Pending, Apart, SoleOwner, OnePilot, Home, CompletedMeansHome
<1> QED
  BY <1>1, <1>2 DEF Inv

LEMMA DeliverKeeps ==
    ASSUME NEW r \in results, Deliver(r), Inv
    PROVE  Inv'
<1>1. TypeOK'
  BY DroneAssumption, PlanAssumption, TargetAssumption, BoundAssumption
  DEF Deliver, Completed, Ended, Inv, TypeOK, RunType, JobType, SeqType, ResultType
<1>2. Leases' /\ Dated' /\ Silence' /\ Apart' /\ Home'
  BY DroneAssumption, TargetAssumption, PlanAssumption
  DEF Deliver, Completed, Ended, Inv, TypeOK, RunType, JobType, SeqType, ResultType,
      Leases, Working, NoLeaseLeaks, Nobody, Dated, Silence, RevokedIsSilent, ReturnActive,
      Pending, Apart, SoleOwner, OnePilot, Home, CompletedMeansHome
<1> QED
  BY <1>1, <1>2 DEF Inv

-----------------------------------------------------------------------------
(* Commands of drones nobody owns, and the fleet                           *)

LEMMA CommandKeeps ==
    ASSUME NEW d \in Drones, Command(d), Inv
    PROVE  Inv'
<1>1. TypeOK'
  BY BoundAssumption DEF Command, Inv, TypeOK
<1>2. Leases'
  BY DEF Command, Inv, TypeOK, Leases, Working, NoLeaseLeaks
<1>3. Dated' /\ Silence'
  BY <1>1
  DEF Command, Inv, TypeOK, Dated, Silence, RevokedIsSilent, ReturnActive, Pending
<1>4. Apart'
  BY DEF Command, Owned, Inv, TypeOK, Apart, SoleOwner, OnePilot, ReturnActive, Pending
<1>5. Home'
  BY DEF Command, Inv, Home, Working, CompletedMeansHome
<1> QED
  BY <1>1, <1>2, <1>3, <1>4, <1>5 DEF Inv

LEMMA CommandEndsKeeps ==
    ASSUME NEW d \in Drones, CommandEnds(d), Inv
    PROVE  Inv'
<1>1. TypeOK'
  BY BoundAssumption DEF CommandEnds, Inv, TypeOK
<1>2. Leases'
  BY DEF CommandEnds, Inv, TypeOK, Leases, Working, NoLeaseLeaks
<1>3. Dated' /\ Silence'
  BY <1>1
  DEF CommandEnds, Inv, TypeOK, Dated, Silence, RevokedIsSilent, ReturnActive, Pending
<1>4. Apart'
  BY DEF CommandEnds, Inv, TypeOK, Apart, SoleOwner, OnePilot, ReturnActive, Pending
<1>5. Home'
  BY DEF CommandEnds, Inv, Home, Working, CompletedMeansHome
<1> QED
  BY <1>1, <1>2, <1>3, <1>4, <1>5 DEF Inv

\* What the fleet does leaves the mission and its dispatch alone.
LEMMA FleetKeeps ==
    ASSUME Inv, TypeOK', wrote' = 0, gone \subseteq gone',
           UNCHANGED <<run, jobs, batch, held, seq, results, told, revoked>>
    PROVE  Inv'
<1>1. Leases' /\ Dated'
  BY DEF Inv, Leases, Working, NoLeaseLeaks, Dated
<1>2. Silence'
  BY DEF Inv, TypeOK, Silence, RevokedIsSilent, ReturnActive, Pending
<1>3. Apart'
  BY DEF Inv, Apart, SoleOwner, OnePilot, ReturnActive, Pending
<1>4. Home'
  BY DEF Inv, Home, Working, CompletedMeansHome
<1> QED
  BY <1>1, <1>2, <1>3, <1>4 DEF Inv

LEMMA LatchKeeps ==
    ASSUME NEW d \in Fallible, Latch(d), Inv
    PROVE  Inv'
<1>1. TypeOK'
  BY BoundAssumption, TargetAssumption DEF Latch, Inv, TypeOK
<1> QED
  BY <1>1, FleetKeeps DEF Latch

LEMMA StickKeeps ==
    ASSUME NEW d \in Fallible, Stick(d), Inv
    PROVE  Inv'
<1>1. TypeOK'
  BY BoundAssumption, TargetAssumption DEF Stick, Inv, TypeOK
<1> QED
  BY <1>1, FleetKeeps DEF Stick

LEMMA UnlatchKeeps ==
    ASSUME NEW d \in Drones, Unlatch(d), Inv
    PROVE  Inv'
<1>1. TypeOK'
  BY BoundAssumption DEF Unlatch, Inv, TypeOK
<1> QED
  BY <1>1, FleetKeeps DEF Unlatch

LEMMA DisconnectKeeps ==
    ASSUME NEW d \in Leavers, Disconnect(d), Inv
    PROVE  Inv'
<1>1. TypeOK'
  BY BoundAssumption, TargetAssumption DEF Disconnect, Inv, TypeOK
<1> QED
  BY <1>1, FleetKeeps DEF Disconnect

-----------------------------------------------------------------------------
(* Operators and faults                                                    *)

\* What happens to the sequence when the mission's Return is invalidated: it
\* is let alone, revoked, or another one starts for drones nobody leases.
SeqAfter ==
    \/ seq' \in {seq, [seq EXCEPT !.open = FALSE]}
    \/ /\ seq' \in SeqType /\ seq'.phase = "stage" /\ seq'.run = 0
       /\ \A j \in Callers : jobs[j].open \cap seq'.drones = {}

\* If the run is revoked, so is its sequence.
RevokedAfter ==
    \/ revoked' = revoked
    \/ /\ ReturnActive
       /\ revoked' = revoked \cup {run.id}
       /\ seq'.open => seq'.run # run.id

\* The run ends, and guards of its leases may be closed.
LEMMA RunEnds ==
    ASSUME Inv, NEW state \in {"suppressed", "failed"},
           run' = [Ended(run.id, state) EXCEPT !.flying = FALSE],
           SeqAfter, RevokedAfter,
           jobs' \in [Callers -> JobType],
           held' \in [Drones -> Callers \cup {"free", "command"}],
           batch' \in {batch, Nobody},
           Leases', \A j \in Callers : Narrowed(j),
           revoked' = revoked \/ (batch' # Nobody => jobs[batch].run # run.id),
           busy' \subseteq Callers, alarms' \subseteq Drones, unsaved' \in BOOLEAN,
           wrote' = 0, UNCHANGED <<results, latched, gone, rescues, stuck, told>>
    PROVE  Inv'
<1>1. run.id \in Nat /\ seq \in SeqType /\ run \in RunType
  BY BoundAssumption DEF Inv, TypeOK, RunType
<1>2. /\ run' \in RunType
      /\ run'.id = run.id /\ run'.crew = run.crew /\ run'.policy = run.policy
      /\ ~run'.flying /\ ~ReturnActive'
      /\ run'.state = "completed" => run.state = "completed"
      /\ run.state = "inactive" => run'.state = "inactive"
  <2> DEFINE after == Ended(run.id, state)
  <2>1. run' = [after EXCEPT !.flying = FALSE] /\ after \in RunType /\ run' \in RunType
    BY <1>1, EndedTyped DEF Inv
  <2>2. \/ after = run /\ ~ReturnActive
        \/ after = [run EXCEPT !.state = state] /\ ReturnActive
    BY DEF Ended
  <2> HIDE DEF after
  <2>3. /\ run'.id = after.id /\ run'.crew = after.crew /\ run'.policy = after.policy
        /\ run'.state = after.state /\ ~run'.flying
    BY <2>1 DEF RunType
  <2>4. /\ after.id = run.id /\ after.crew = run.crew /\ after.policy = run.policy
        /\ \/ after.state = run.state /\ ~ReturnActive
           \/ after.state = state /\ ReturnActive
    <3>1. CASE after = run /\ ~ReturnActive
      BY <3>1
    <3>2. CASE after = [run EXCEPT !.state = state] /\ ReturnActive
      BY <3>2, <1>1 DEF RunType
    <3> QED
      BY <2>2, <3>1, <3>2
  <2> QED
    BY <2>1, <2>3, <2>4 DEF ReturnActive, Pending
<1>3. /\ seq' \in SeqType
      /\ seq'.phase = "off" => ~seq'.open /\ seq'.run = 0
      /\ seq'.run # 0 => /\ seq'.run = seq.run /\ seq'.phase = seq.phase
                         /\ seq'.drones = seq.drones /\ seq'.left = seq.left
                         /\ seq'.open => seq.open
      /\ seq'.open => \A j \in Callers : jobs[j].open \cap seq'.drones = {}
  <2>1. CASE seq' = seq
    BY <1>1, <2>1 DEF Inv, Apart, OnePilot, TypeOK, JobType
  <2>2. CASE seq' = [seq EXCEPT !.open = FALSE]
    BY <1>1, <2>2 DEF SeqType, Inv, Apart
  <2>3. CASE /\ seq' \in SeqType /\ seq'.phase = "stage" /\ seq'.run = 0
             /\ \A j \in Callers : jobs[j].open \cap seq'.drones = {}
    BY <2>3
  <2> QED
    BY <2>1, <2>2, <2>3 DEF SeqAfter
<1>4. revoked' \subseteq 1..MaxRun /\ \A r \in revoked' : r <= run'.id
  BY <1>1, <1>2 DEF RevokedAfter, Inv, TypeOK, Dated, RunType, ReturnActive, Pending
<1>5. TypeOK'
  BY <1>2, <1>3, <1>4, BoundAssumption DEF Inv, TypeOK
<1>6. Dated'
  <2>1. \A j \in Callers : jobs'[j].run <= run'.id
    BY <1>2 DEF Narrowed, Inv, Dated
  <2>2. seq'.run <= run'.id
    BY <1>1, <1>2, <1>3 DEF Inv, Dated
  <2> QED
    BY <2>1, <2>2, <1>2, <1>4 DEF Inv, Dated
<1>7. Silence'
  <2>1. run'.id \in revoked' => ~run'.flying /\ ~ReturnActive'
    BY <1>2
  <2>2. \A j \in Callers : batch' = j => jobs'[j].run \notin revoked'
    BY DEF RevokedAfter, Narrowed, Inv, Silence, Nobody
  <2>3. seq'.open => seq'.run \notin revoked'
    BY <1>3, <1>4 DEF RevokedAfter, Inv, Silence, TypeOK, SeqType
  <2>4. RevokedIsSilent'
    BY <1>5 DEF RevokedIsSilent, TypeOK
  <2> QED
    BY <2>1, <2>2, <2>3, <2>4 DEF Silence
<1>8. Apart'
  BY <1>2, <1>3 DEF Narrowed, Inv, Apart, SoleOwner, OnePilot, Leases, ReturnActive, Pending
<1>9. Home'
  BY <1>2, <1>3 DEF Narrowed, Inv, Home, Working, CompletedMeansHome
<1> QED
  BY <1>5, <1>6, <1>7, <1>8, <1>9 DEF Inv

LEMMA Invalidating ==
    ASSUME Inv, NEW T \in SUBSET Drones, NEW state \in {"suppressed", "failed"},
           Invalidate(T, state), SeqAfter, RevokedAfter,
           busy' \subseteq Callers, alarms' \subseteq Drones, unsaved' \in BOOLEAN,
           wrote' = 0, UNCHANGED <<results, latched, gone, rescues, stuck, told>>
    PROVE  Inv'
<1>1. CloseBatch(T) /\ run' = [Ended(run.id, state) EXCEPT !.flying = FALSE]
  BY DEF Invalidate
<1> QED
  BY <1>1, Closing, RunEnds DEF Inv

LEMMA TakeOverKeeps ==
    ASSUME NEW T \in Targets, TakeOver(T), Inv
    PROVE  Inv'
<1>1. SeqAfter
  BY DEF TakeOver, RevokeSeq, SeqAfter
<1>2. RevokedAfter
  BY DEF TakeOver, Revoke, RevokeSeq, RevokedAfter, Inv, TypeOK, SeqType
<1> QED
  BY <1>1, <1>2, Invalidating, TargetAssumption DEF TakeOver, Inv, TypeOK

LEMMA TakeOverOthersKeeps ==
    ASSUME NEW T \in Targets, TakeOverOthers(T), Inv
    PROVE  Inv'
<1>1. /\ jobs' \in [Callers -> JobType]
      /\ held' \in [Drones -> Callers \cup {"free", "command"}]
      /\ Leases'
      /\ \A j \in Callers : Narrowed(j)
      /\ \A d \in Drones : held'[d] = "command" => held[d] = "command" \/ d \in T
  BY Preempting, TargetAssumption DEF TakeOverOthers, Inv
<1>2. TypeOK'
  BY <1>1, BoundAssumption DEF TakeOverOthers, Inv, TypeOK
<1>3. Dated' /\ Silence'
  BY <1>1, <1>2
  DEF TakeOverOthers, Narrowed, Inv, Dated, Silence, RevokedIsSilent, ReturnActive,
      Pending, TypeOK
<1>4. Apart'
  <2>1. UNCHANGED <<run, seq>> /\ (ReturnActive => T \cap run.crew = {})
    BY DEF TakeOverOthers, Owned
  <2>2. SoleOwner'
    BY <1>1, <2>1 DEF Inv, TypeOK, RunType, Apart, SoleOwner, ReturnActive, Pending
  <2>3. OnePilot'
    BY <1>1, <2>1 DEF Inv, Apart, OnePilot, Leases, Narrowed
  <2> QED
    BY <2>1, <2>2, <2>3 DEF Inv, Apart, ReturnActive, Pending
<1>5. Home'
  BY <1>1 DEF TakeOverOthers, Narrowed, Inv, Home, Working, CompletedMeansHome
<1> QED
  BY <1>1, <1>2, <1>3, <1>4, <1>5 DEF Inv

LEMMA TakeOverSwarmKeeps ==
    ASSUME NEW T \in Targets, TakeOverSwarm(T), Inv
    PROVE  Inv'
<1>1. /\ jobs' \in [Callers -> JobType]
      /\ held' \in [Drones -> Callers \cup {"free", "command"}]
      /\ Leases'
      /\ \A j \in Callers : Narrowed(j)
  BY Preempting, TargetAssumption DEF TakeOverSwarm, Inv
<1> DEFINE Smaller ==
               /\ run' \in RunType
               /\ run'.id = run.id /\ run'.policy = "swarm" /\ run'.state = "inactive"
               /\ run'.crew \subseteq run.crew
               /\ run.crew # {} => run'.crew # {}
<1>2. Smaller /\ run.policy = "swarm" /\ run.flying /\ run.state = "inactive"
  <2>1. run \in RunType /\ run.state = "inactive" /\ run.id # 0
    BY DEF TakeOverSwarm, Inv, TypeOK, Dated
  <2>2. CASE run' = [run EXCEPT !.flying = FALSE]
    BY <2>1, <2>2 DEF TakeOverSwarm, RunType
  <2>3. ASSUME NEW d \in run.crew \ T, run' = [run EXCEPT !.crew = @ \ T, !.lead = d]
        PROVE  Smaller
    BY <2>1, <2>3 DEF TakeOverSwarm, RunType
  <2> QED
    BY <2>1, <2>2, <2>3 DEF TakeOverSwarm
<1> HIDE DEF Smaller
<1>3. /\ wrote' = 0 /\ busy' \subseteq Callers
      /\ UNCHANGED <<batch, seq, revoked, results, fleet, told, unsaved>>
  BY DEF TakeOverSwarm, Inv, TypeOK
<1>4. TypeOK'
  BY <1>1, <1>2, <1>3, BoundAssumption DEF Smaller, Inv, TypeOK
<1>5. Dated' /\ Silence'
  BY <1>1, <1>2, <1>3
  DEF Smaller, Narrowed, Inv, Dated, Silence, RevokedIsSilent, ReturnActive, Pending,
      TypeOK, RunType
<1>6. Apart'
  BY <1>1, <1>2, <1>3 DEF Smaller, Narrowed, Inv, Leases, Apart, SoleOwner, OnePilot
<1>7. Home'
  BY <1>1, <1>2, <1>3 DEF Smaller, Narrowed, Inv, Dated, Home, Working, CompletedMeansHome
<1> QED
  BY <1>1, <1>4, <1>5, <1>6, <1>7 DEF Inv

LEMMA CancelMissionKeeps ==
    ASSUME CancelMission, Inv
    PROVE  Inv'
<1>1. SeqAfter /\ RevokedAfter
  BY DEF CancelMission, SeqAfter, RevokedAfter
<1> QED
  BY <1>1, Invalidating DEF CancelMission, Inv, TypeOK

LEMMA SaveFailsKeeps ==
    ASSUME SaveFails, Inv
    PROVE  Inv'
<1>1. SeqAfter /\ RevokedAfter
  BY DEF SaveFails, SeqAfter, RevokedAfter
<1> QED
  BY <1>1, Invalidating DEF SaveFails, Inv, TypeOK

LEMMA SwarmStopKeeps ==
    ASSUME SwarmStop, Inv
    PROVE  Inv'
<1>1. seq \in SeqType
  BY DEF Inv, TypeOK
<1>2. CASE ReturnActive
  <2>1. SeqAfter /\ RevokedAfter
    BY <1>1, <1>2 DEF SwarmStop, RevokeSeq, Revoke, SeqAfter, RevokedAfter, SeqType
  <2> QED
    BY <1>2, <2>1, Invalidating DEF SwarmStop, Inv, TypeOK
<1>3. CASE ~ReturnActive
  <2>1. UNCHANGED <<run, jobs, batch, held, revoked>>
    BY <1>3 DEF SwarmStop, Revoke
  <2>2. /\ seq' \in SeqType /\ ~seq'.open
        /\ seq'.phase = seq.phase /\ seq'.run = seq.run
        /\ seq'.drones = seq.drones /\ seq'.left = seq.left
    BY <1>1 DEF SwarmStop, RevokeSeq, SeqType
  <2>3. TypeOK'
    BY <2>1, <2>2, BoundAssumption DEF SwarmStop, Inv, TypeOK
  <2> QED
    BY <2>1, <2>2, <2>3
    DEF SwarmStop, Inv, TypeOK, Leases, Working, NoLeaseLeaks, Nobody, Dated, Silence,
        RevokedIsSilent, ReturnActive, Pending, Apart, SoleOwner, OnePilot, Home,
        CompletedMeansHome
<1> QED
  BY <1>2, <1>3

LEMMA SwarmReturnKeeps ==
    ASSUME NEW T \in Requests, NEW accepted \in BOOLEAN, SwarmReturn(T, accepted), Inv
    PROVE  Inv'
<1>1. seq \in SeqType /\ run \in RunType /\ run.id \in Nat /\ T \subseteq Drones
  BY TargetAssumption, BoundAssumption DEF Inv, TypeOK, RunType
<1>2. SeqAfter
  <2>1. CASE accepted
    <3>1. seq' = StartSeq(0, T) /\ Selected(T) \subseteq Drones
      BY <1>1, <2>1 DEF SwarmReturn, Selected
    <3>2. seq' \in SeqType /\ seq'.phase = "stage" /\ seq'.run = 0 /\ seq'.drones = Selected(T)
      BY <3>1, BoundAssumption DEF StartSeq, SeqType
    <3>3. \A d \in Selected(T) : held[d] = "free"
      BY <1>1 DEF SwarmReturn, Selected
    <3> QED
      BY <3>2, <3>3 DEF SeqAfter, Inv, Leases
  <2>2. CASE ~accepted
    BY <2>2 DEF SwarmReturn, SeqAfter
  <2> QED
    BY <2>1, <2>2
<1>3. CASE T # {} /\ T \cap Owned # {}
  <2>1. seq'.open => seq'.run # run.id \/ ~ReturnActive
    BY <1>1, <1>3 DEF SwarmReturn, StartSeq, SeqType, ReturnActive, Pending, Inv, Dated
  <2>2. RevokedAfter
    BY <1>3, <2>1 DEF SwarmReturn, Revoke, RevokedAfter
  <2>3. Invalidate({}, "suppressed") /\ busy' = {}
    BY <1>3 DEF SwarmReturn
  <2> QED
    BY <1>2, <2>2, <2>3, Invalidating DEF SwarmReturn, takeoverKept, Inv, TypeOK
<1>4. CASE T = {}
  <2>1. /\ run' = [Ended(run.id, "suppressed") EXCEPT !.flying = FALSE]
        /\ UNCHANGED <<jobs, batch, held, busy, revoked>>
    BY <1>4 DEF SwarmReturn
  <2>2. Leases' /\ \A j \in Callers : Narrowed(j)
    BY <2>1 DEF Inv, Leases, Working, NoLeaseLeaks, Narrowed
  <2> QED
    BY <1>2, <2>1, <2>2, RunEnds DEF SwarmReturn, RevokedAfter, Inv, TypeOK
<1>5. CASE T # {} /\ T \cap Owned = {}
  <2>1. /\ UNCHANGED <<run, jobs, batch, held, busy, revoked>>
        /\ wrote' = 0 /\ UNCHANGED <<results, fleet, told, unsaved>>
    BY <1>5 DEF SwarmReturn
  <2>2. \/ seq' = seq
        \/ /\ seq' \in SeqType /\ seq'.phase = "stage" /\ seq'.run = 0 /\ seq'.drones = T
           /\ \A j \in Callers : jobs[j].open \cap seq'.drones = {}
    <3>1. CASE accepted
      <4>1. seq' = StartSeq(0, T) /\ Selected(T) = T
        BY <1>5, <3>1 DEF SwarmReturn, Selected
      <4>2. seq' \in SeqType /\ seq'.phase = "stage" /\ seq'.run = 0 /\ seq'.drones = T
        BY <1>1, <4>1, BoundAssumption DEF StartSeq, SeqType
      <4> QED
        BY <1>5, <4>2 DEF SwarmReturn, Inv, Leases
    <3>2. CASE ~accepted
      BY <1>5, <3>2 DEF SwarmReturn
    <3> QED
      BY <3>1, <3>2
  <2>3. TypeOK'
    BY <2>1, <2>2, BoundAssumption DEF Inv, TypeOK
  <2>4. Leases' /\ Dated' /\ Silence' /\ Home'
    BY <1>1, <2>1, <2>2, <2>3
    DEF Inv, Leases, Working, NoLeaseLeaks, Dated, Silence, RevokedIsSilent,
        ReturnActive, Pending, Home, CompletedMeansHome, TypeOK
  <2>5. Apart'
    BY <1>1, <1>5, <2>1, <2>2
    DEF Inv, Apart, SoleOwner, OnePilot, Leases, Owned, ReturnActive, Pending, RunType
  <2> QED
    BY <2>3, <2>4, <2>5 DEF Inv
<1> QED
  BY <1>3, <1>4, <1>5

LEMMA AlarmKeeps ==
    ASSUME NEW d \in Drones, Alarm(d), Inv
    PROVE  Inv'
<1>1. CASE d \in Interrupting
  <2>1. SeqAfter
    BY <1>1 DEF Alarm, RevokeSeq, SeqAfter
  <2>2. RevokedAfter
    BY <1>1
    DEF Alarm, RevokeSeq, Revoke, RevokedAfter, Inv, TypeOK, RunType, SeqType, Apart,
        Dated, ReturnActive, Pending
  <2> QED
    BY <1>1, <2>1, <2>2, Invalidating DEF Alarm, Inv, TypeOK
<1>2. CASE d \notin Interrupting
  <2>1. /\ UNCHANGED <<run, jobs, batch, held, busy, seq, revoked>>
        /\ wrote' = 0 /\ alarms' \subseteq alarms
        /\ UNCHANGED <<results, latched, gone, rescues, stuck, told, unsaved>>
    BY <1>2 DEF Alarm
  <2>2. TypeOK'
    BY <2>1, BoundAssumption DEF Inv, TypeOK
  <2> QED
    BY <2>1, <2>2, FleetKeeps
<1> QED
  BY <1>1, <1>2
-----------------------------------------------------------------------------
(* Theorems                                                                *)

LEMMA InitInv == Init => Inv
<1> SUFFICES ASSUME Init PROVE Inv
  OBVIOUS
<1>1. NoRun \in RunType /\ NoSeq \in SeqType /\ IdleJob \in JobType
  BY FreshJobs, BoundAssumption DEF NoRun, NoSeq, RunType, SeqType
<1>2. TypeOK
  <2>1. run \in RunType /\ seq \in SeqType /\ jobs \in [Callers -> JobType]
    BY <1>1 DEF Init
  <2>2. batch \in Callers \cup {Nobody} /\ held \in [Drones -> Callers \cup {"free", "command"}]
    BY DEF Init
  <2>3. busy \subseteq Callers /\ results \subseteq ResultType
    BY DEF Init
  <2>4. latched \subseteq Drones /\ alarms \subseteq Drones /\ gone \subseteq Drones
    BY DEF Init
  <2>5. told \subseteq Drones /\ revoked \subseteq 1..MaxRun /\ unsaved \in BOOLEAN
    BY DEF Init
  <2>6. rescues \subseteq Drones /\ stuck \subseteq Drones
    BY DEF Init
  <2>7. wrote \in 0..MaxRun
    BY BoundAssumption DEF Init
  <2> QED
    BY <2>1, <2>2, <2>3, <2>4, <2>5, <2>6, <2>7 DEF TypeOK
<1>3. Leases /\ Dated /\ Silence /\ Apart /\ Home
  BY DEF Init, NoRun, NoSeq, IdleJob, Nobody, Leases, NoLeaseLeaks, Working, Dated,
         Silence, RevokedIsSilent, ReturnActive, Pending, Apart, SoleOwner, OnePilot, Home,
         CompletedMeansHome
<1> QED
  BY <1>2, <1>3 DEF Inv

LEMMA NextInv == Inv /\ [Next]_vars => Inv'
<1> SUFFICES ASSUME Inv, [Next]_vars PROVE Inv'
  OBVIOUS
<1>1. CASE UNCHANGED vars
  <2>1. TypeOK'
    BY <1>1 DEF vars, Inv, TypeOK
  <2>2. Leases' /\ Dated' /\ Silence' /\ Apart' /\ Home'
    BY <1>1
    DEF vars, Inv, Leases, NoLeaseLeaks, Working, Dated, Silence, RevokedIsSilent,
        ReturnActive, Pending, Apart, SoleOwner, OnePilot, Home, CompletedMeansHome
  <2> QED
    BY <2>1, <2>2 DEF Inv
<1>2. ASSUME NEW j \in Callers, JobStep(j) PROVE Inv'
  BY <1>2, SendReturnsKeeps, AskKeeps, SaveKeeps, ClaimNothingKeeps, ClaimSuppressedKeeps,
     ClaimRtlKeeps, ClaimSwarmKeeps, RecordKeeps, BeginKeeps, RtlWriteKeeps,
     RtlAcceptedKeeps, RtlFailsKeeps, UnregisterKeeps, ReleaseKeeps, SettleKeeps
  DEF JobStep
<1>3. CASE SeqStep
  BY <1>3, SeqGotoKeeps, SeqOrderKeeps, SeqLandedKeeps, SeqPhaseDoneKeeps,
     SeqGotoFailsKeeps, FallBackKeeps, SeqSkipKeeps, SeqEndsKeeps
  DEF SeqStep
<1>4. CASE ResultStep
  BY <1>4, DeliverKeeps DEF ResultStep
<1>5. CASE MissionStep
  BY <1>5, SendMissionKeeps, CompleteKeeps, CommandEndsKeeps, AlarmKeeps, UnlatchKeeps
  DEF MissionStep
<1>6. CASE Event
  <2>1. \A d \in UNION Targets : d \in Drones
    BY TargetAssumption
  <2> QED
    BY <1>6, <2>1, StartMissionKeeps, CommandKeeps, TakeOverKeeps, TakeOverOthersKeeps,
       TakeOverSwarmKeeps, CancelMissionKeeps, SwarmStopKeeps, SwarmReturnKeeps,
       SaveFailsKeeps, LatchKeeps, StickKeeps, DisconnectKeeps
    DEF Event
<1> QED
  BY <1>1, <1>2, <1>3, <1>4, <1>5, <1>6 DEF Next

\* Every variable keeps to its type, for any fleet, plans and requests.
THEOREM ReturnTypes == Spec => []TypeOK
<1>1. Inv => TypeOK
  BY DEF Inv
<1> QED
  BY InitInv, NextInv, <1>1, PTL DEF Spec

\* The Return of a mission has its drones to itself, gives them up at once when
\* they are taken, leaks no lease, and tells the truth about its end
\* (dispatchReturnAuthority, invalidateReturnLocked, returnSeq).
THEOREM ReturnHasAuthority == Spec => []ReturnAuthority
<1>1. Inv => ReturnAuthority
  BY DEF Inv, Leases, Silence, Apart, Home, ReturnAuthority
<1> QED
  BY InitInv, NextInv, <1>1, PTL DEF Spec

-----------------------------------------------------------------------------
(* The end of a Return                                                     *)

EndStates == {"completed", "suppressed", "failed"}

\* An engine method that is about another run, or finds the Return over, does
\* nothing.
LEMMA LateCalls ==
    ASSUME NEW r, NEW state, r # run.id \/ run.state \in EndStates
    PROVE  Ended(r, state) = run /\ Completed(r) = run
BY DEF Ended, Completed, ReturnActive, Pending, EndStates

\* What each step does to a run whose Return has ended.
LEMMA JobEndsOnce ==
    ASSUME Inv, run.state \in EndStates, NEW j \in Callers, JobStep(j)
    PROVE  run' = run \/ run' = [run EXCEPT !.flying = FALSE]
<1>1. ~run.flying
  BY DEF Inv, Dated, EndStates
<1>2. run.state # "pending"
  BY DEF EndStates
<1>3. CASE SendReturns(j)
  BY <1>3 DEF SendReturns
<1>4. CASE \E ok \in BOOLEAN : Save(j, ok) \/ Record(j, ok)
  BY <1>4, LateCalls DEF Save, Record
<1>5. CASE ClaimSuppressed(j) \/ ClaimRtl(j) \/ \E a \in BOOLEAN : ClaimSwarm(j, a)
  BY <1>2, <1>5 DEF ClaimSuppressed, ClaimRtl, ClaimSwarm, Claimable
<1>6. CASE Settle(j)
  BY <1>6, LateCalls DEF Settle
<1>7. CASE \/ Ask(j) \/ ClaimNothing(j) \/ RtlWrite(j) \/ RtlAccepted(j)
           \/ RtlFails(j) \/ Unregister(j)
           \/ \E d \in Drones : Begin(j, d) \/ Release(j, d)
  BY <1>7 DEF Ask, ClaimNothing, RtlWrite, RtlAccepted, RtlFails, Unregister,
              Begin, Release
<1> QED
  BY <1>3, <1>4, <1>5, <1>6, <1>7 DEF JobStep

LEMMA RunEndsOnce ==
    ASSUME Inv, [Next]_vars, run.state \in EndStates, run'.id = run.id
    PROVE  run'.state = run.state /\ ~run'.flying
<1>1. ~run.flying /\ ~ReturnActive /\ run \in RunType
  BY DEF Inv, Dated, EndStates, ReturnActive, Pending, TypeOK
<1>2. CASE UNCHANGED vars
  BY <1>1, <1>2 DEF vars
<1>3. CASE \E j \in Callers : JobStep(j)
  <2>1. run' = run \/ run' = [run EXCEPT !.flying = FALSE]
    BY <1>3, JobEndsOnce
  <2> QED
    BY <1>1, <2>1 DEF RunType
<1>4. CASE SeqStep
  BY <1>1, <1>4 DEF SeqStep, SeqGoto, SeqOrder, SeqGotoFails, SeqSkip, SeqLanded,
                    SeqPhaseDone, FallBack, SeqEnds, SeqMoves, SeqWrites
<1>5. CASE ResultStep
  <2>1. \A r \in results : r.outcome \in {"succeeded", "cancelled", "failed"}
    BY DEF Inv, TypeOK, ResultType
  <2>2. run' = run
    BY <1>5, <2>1, LateCalls DEF ResultStep, Deliver
  <2> QED
    BY <1>1, <2>2
<1>6. CASE MissionStep
  <2>1. run' = run \/ run' = [run EXCEPT !.flying = FALSE]
    BY <1>1, <1>6, LateCalls DEF MissionStep, SendMission, Complete, CommandEnds,
                                 Alarm, Unlatch, Invalidate
  <2> QED
    BY <1>1, <2>1 DEF RunType
<1>7. CASE Event
  <2>1. CASE \E p \in Plans : StartMission(p)
    BY <1>1, <2>1 DEF StartMission, RunType
  <2>2. CASE ~\E p \in Plans : StartMission(p)
    <3>1. run' = run \/ run' = [run EXCEPT !.flying = FALSE]
      BY <1>1, <1>7, <2>2, LateCalls
         DEF Event, Command, TakeOver, TakeOverOthers, TakeOverSwarm, CancelMission,
             SwarmStop, SwarmReturn, SaveFails, Latch, Stick, Disconnect, Invalidate
    <3> QED
      BY <1>1, <3>1 DEF RunType
  <2> QED
    BY <2>1, <2>2
<1> QED
  BY <1>2, <1>3, <1>4, <1>5, <1>6, <1>7 DEF Next

\* A result of an earlier run, delivered late.
LEMMA LateResults ==
    ASSUME Inv, [Next]_vars, NEW r \in results \ results', r.run # run.id
    PROVE  run' = run
<1>1. CASE ResultStep
  <2>1. PICK s \in results : Deliver(s)
    BY <1>1 DEF ResultStep
  <2>2. s = r
    BY <2>1 DEF Deliver
  <2>3. r.outcome \in {"succeeded", "cancelled", "failed"}
    BY DEF Inv, TypeOK, ResultType
  <2> QED
    BY <2>1, <2>2, <2>3, LateCalls DEF Deliver
<1>2. CASE ~ResultStep
  <2>1. CASE SeqStep
    BY <2>1 DEF SeqStep, SeqGoto, SeqOrder, SeqGotoFails, SeqSkip, SeqLanded,
                SeqPhaseDone, FallBack, SeqEnds, SeqMoves, SeqWrites
  <2>2. CASE \E j \in Callers : JobStep(j)
    BY <2>2 DEF JobStep, SendReturns, Ask, Save, Record, ClaimNothing,
                ClaimSuppressed, ClaimRtl, ClaimSwarm, RtlWrite, RtlAccepted,
                RtlFails, Unregister, Settle, Begin, Release
  <2>3. CASE MissionStep
    BY <2>3 DEF MissionStep, SendMission, Complete, CommandEnds, Alarm, Unlatch
  <2>4. CASE Event
    BY <2>4 DEF Event, StartMission, Command, TakeOver, TakeOverOthers,
                TakeOverSwarm, CancelMission, SwarmStop, SwarmReturn, SaveFails,
                Latch, Stick, Disconnect
  <2> QED
    BY <1>2, <2>1, <2>2, <2>3, <2>4 DEF Next, vars
<1> QED
  BY <1>1, <1>2

\* A goroutine whose batch is an earlier run's.
LEMMA LateBatches ==
    ASSUME NEW j \in Callers, JobStep(j), jobs[j].pc \in {"record", "release"},
           jobs[j].run # run.id
    PROVE  run' = run
<1>1. CASE \E ok \in BOOLEAN : Record(j, ok)
  BY <1>1, LateCalls DEF Record
<1>2. CASE Settle(j)
  BY <1>2, LateCalls DEF Settle
<1>3. CASE \E d \in Drones : Release(j, d)
  BY <1>3 DEF Release
<1> QED
  BY <1>1, <1>2, <1>3 DEF JobStep, SendReturns, Ask, Save, ClaimNothing,
     ClaimSuppressed, ClaimRtl, ClaimSwarm, Claimable, RtlWrite, RtlAccepted,
     RtlFails, Unregister, Begin

\* What was said of the end of a Return stays, whatever unwinds late; what is
\* about an earlier run leaves the current one alone (SuppressReturn, FailReturn,
\* CompleteReturn with the run's id).
THEOREM ReturnEndsOnce == Spec => EndsOnce
<1>1. Inv /\ [Next]_vars =>
      [/\ run'.id = run.id /\ run.state \in {"completed", "suppressed", "failed"} =>
             run'.state = run.state /\ ~run'.flying
       /\ \A r \in results \ results' : r.run # run.id => run' = run
       /\ \A j \in Callers :
             JobStep(j) /\ jobs[j].pc \in {"record", "release"} /\ jobs[j].run # run.id
                 => run' = run]_vars
  BY RunEndsOnce, LateResults, LateBatches DEF EndStates
<1>2. Spec => []Inv
  BY InitInv, NextInv, PTL DEF Spec
<1> QED
  BY <1>1, <1>2, PTL DEF Spec, EndsOnce
-----------------------------------------------------------------------------
(* The leases of batches refine the reservation table                      *)

\* The guards of the goroutines J that let a write through.
Passes(J) == UNION {{j} \X J[j].open : j \in Callers}
Strength(h) ==
    [d \in Drones |-> IF h[d] = "free" THEN 0 ELSE IF h[d] = "command" THEN 2 ELSE 1]

LEMMA PassesPairs ==
    ASSUME NEW J, NEW p
    PROVE  p \in Passes(J) <=> \E j \in Callers : \E d \in J[j].open : p = <<j, d>>
BY DEF Passes

\* An open guard is of a lease in force; without a lease there is neither.
LEMMA Guarding ==
    ASSUME Inv
    PROVE  /\ \A j \in Callers : \A d \in jobs[j].open : d \in Drones /\ held[d] = j
           /\ \A j \in Callers : ~HasLease(j) =>
                 jobs[j].open = {} /\ \A d \in Drones : held[d] # j
           /\ held \in [Drones -> Callers \cup {"free", "command"}]
<1>1. \A j \in Callers : jobs[j] \in JobType
  BY DEF Inv, TypeOK
<1>2. \A j \in Callers : \A d \in jobs[j].open : d \in Drones /\ held[d] = j
  BY <1>1 DEF Inv, Leases, JobType
<1>3. \A j \in Callers : ~HasLease(j) => jobs[j].claims = {}
  BY DEF Inv, Leases, Working, HasLease
<1> QED
  BY <1>2, <1>3 DEF Inv, TypeOK, Leases, NoLeaseLeaks

LEMMA TableUntouched ==
    ASSUME UNCHANGED held,
           \A j \in Callers : jobs'[j].open = jobs[j].open /\ (HasLease(j)' <=> HasLease(j))
    PROVE  UNCHANGED Table!vars
<1>1. {j \in Callers : HasLease(j)}' = {j \in Callers : HasLease(j)}
  OBVIOUS
<1>2. \A p : p \in Passes(jobs') <=> p \in Passes(jobs)
  <2> SUFFICES ASSUME NEW p PROVE p \in Passes(jobs') <=> p \in Passes(jobs)
    OBVIOUS
  <2>1. (\E j \in Callers : \E d \in jobs'[j].open : p = <<j, d>>)
        <=> (\E j \in Callers : \E d \in jobs[j].open : p = <<j, d>>)
    OBVIOUS
  <2> QED
    BY <2>1, PassesPairs
<1>3. Passes(jobs') = Passes(jobs)
  BY <1>2
<1>4. Strength(held)' = Strength(held)
  BY DEF Strength
<1> QED
  BY <1>1, <1>3, <1>4 DEF Table!vars, Passes, Strength

\* A takeover of the drones T that also closes the batches R.
LEMMA TakingSeizes ==
    ASSUME Inv, NEW T \in SUBSET Drones, NEW R \in SUBSET Callers,
           \A j \in R : HasLease(j),
           \A j \in Callers : /\ HasLease(j)' <=> HasLease(j)
                              /\ jobs'[j].open = IF j \in R THEN {}
                                                 ELSE Preempted(j, T),
           held' = [d \in Drones |-> IF d \in T THEN "command"
                                     ELSE IF held[d] \in R THEN "free" ELSE held[d]]
    PROVE  Table!Next
<1>1. {j \in Callers : HasLease(j)}' = {j \in Callers : HasLease(j)}
  OBVIOUS
<1>2. \A j \in Callers \ R : jobs'[j].open = jobs[j].open \ T
  <2> SUFFICES ASSUME NEW j \in Callers \ R
               PROVE  jobs'[j].open = jobs[j].open \ T
    OBVIOUS
  <2>1. jobs'[j].open = jobs[j].open \ {d \in T : held[d] = j}
    BY DEF Preempted
  <2>2. \A d \in jobs[j].open : held[d] = j
    BY Guarding
  <2> QED
    BY <2>1, <2>2
<1>3. Passes(jobs') = {p \in Passes(jobs) : p[2] \notin T /\ p[1] \notin R}
  <2>1. ASSUME NEW p \in Passes(jobs')
        PROVE  p \in {q \in Passes(jobs) : q[2] \notin T /\ q[1] \notin R}
    <3>1. PICK j \in Callers : \E d \in jobs'[j].open : p = <<j, d>>
      BY <2>1, PassesPairs
    <3>2. PICK d \in jobs'[j].open : p = <<j, d>>
      BY <3>1
    <3>3. j \notin R /\ d \in jobs[j].open /\ d \notin T
      BY <1>2, <3>2
    <3>4. p \in Passes(jobs)
      BY <3>2, <3>3, PassesPairs
    <3> QED
      BY <3>2, <3>3, <3>4
  <2>2. ASSUME NEW p \in Passes(jobs), p[2] \notin T, p[1] \notin R
        PROVE  p \in Passes(jobs')
    <3>1. PICK j \in Callers : \E d \in jobs[j].open : p = <<j, d>>
      BY <2>2, PassesPairs
    <3>2. PICK d \in jobs[j].open : p = <<j, d>>
      BY <3>1
    <3>3. d \in jobs'[j].open
      BY <1>2, <2>2, <3>2
    <3> QED
      BY <3>2, <3>3, PassesPairs
  <2> QED
    BY <2>1, <2>2
<1>4. held' = [d \in Drones |-> IF d \in T THEN "command"
                  ELSE IF d \in {x \in Drones : held[x] \in R} THEN "free"
                  ELSE held[d]]
  OBVIOUS
<1>5. Strength(held') = [d \in Drones |-> IF d \in T THEN 2
                  ELSE IF d \in {x \in Drones : held[x] \in R} THEN 0
                  ELSE Strength(held)[d]]
  BY DEF Strength
<1>6. \A d \in T : Strength(held)[d] <= 2
  BY DEF Strength
<1>7. Table!Rewrite(T, "command", 2, {d \in Drones : held[d] \in R})
  BY <1>4, <1>5 DEF Table!Rewrite, Strength
<1>8. Table!Seize(2, T, R)
  BY <1>1, <1>3, <1>6, <1>7 DEF Table!Seize, Passes, Strength
<1>9. R \in SUBSET {j \in Callers : HasLease(j)}
  OBVIOUS
<1> QED
  BY <1>8, <1>9 DEF Table!Next

\* preemptLease alone.
LEMMA PreemptingSeizes ==
    ASSUME Inv, NEW T \in SUBSET Drones,
           jobs' = [j \in Callers |-> [jobs[j] EXCEPT !.open = Preempted(j, T)]],
           held' = Holding(T)
    PROVE  Table!Next
<1>1. \A j \in Callers : /\ HasLease(j)' <=> HasLease(j)
                         /\ jobs'[j].open = Preempted(j, T)
  BY DEF Inv, TypeOK, JobType, HasLease
<1>2. held' = [d \in Drones |-> IF d \in T THEN "command"
                                ELSE IF held[d] \in {} THEN "free" ELSE held[d]]
  BY DEF Holding
<1> PICK R : R = {}
  OBVIOUS
<1>3. /\ R \in SUBSET Callers
      /\ \A j \in R : HasLease(j)
      /\ \A j \in Callers : jobs'[j].open = IF j \in R THEN {} ELSE Preempted(j, T)
      /\ held' = [d \in Drones |-> IF d \in T THEN "command"
                                   ELSE IF held[d] \in R THEN "free" ELSE held[d]]
  BY <1>1, <1>2
<1> QED
  BY <1>1, <1>3, TakingSeizes

\* invalidateReturnLocked, with or without a takeover.
LEMMA ClosingSeizes ==
    ASSUME Inv, NEW T \in SUBSET Drones, CloseBatch(T)
    PROVE  Table!Next
<1> DEFINE Own == IF OwnBatch THEN {batch} ELSE {}
<1>1. Own \subseteq Callers /\ \A j \in Own : HasLease(j)
  BY DEF Inv, TypeOK, Leases, OwnBatch, HasLease, Working
<1>2. \A j \in Callers : /\ HasLease(j)' <=> HasLease(j)
                         /\ jobs'[j].open = IF j \in Own THEN {} ELSE Preempted(j, T)
  BY DEF CloseBatch, Inv, TypeOK, JobType, HasLease
<1>3. held' = [d \in Drones |-> IF d \in T THEN "command"
                                ELSE IF held[d] \in Own THEN "free" ELSE held[d]]
  <2>1. OwnBatch => batch \in Callers
    BY DEF OwnBatch, Inv, TypeOK
  <2>2. CASE OwnBatch
    BY <2>1, <2>2 DEF CloseBatch, Holding
  <2>3. CASE ~OwnBatch
    BY <2>3 DEF CloseBatch, Holding
  <2> QED
    BY <2>2, <2>3
<1> HIDE DEF Own
<1> PICK R : R = Own
  OBVIOUS
<1> QED
  BY <1>1, <1>2, <1>3, TakingSeizes

\* prepareReturnBatchLocked
LEMMA ClaimingGrants ==
    ASSUME Inv, NEW j \in Callers, ClaimRtl(j)
    PROVE  Table!Next
<1> DEFINE b == Batch(run.id, run.crew)
<1>1. PICK S \in SUBSET Drones : S = run.crew
  BY DEF Inv, TypeOK, RunType
<1>2. /\ jobs' = [jobs EXCEPT ![j] = b]
      /\ held' = [d \in Drones |-> IF d \in S THEN j ELSE held[d]]
      /\ \A d \in S : held[d] = "free"
      /\ ~HasLease(j)
  BY <1>1 DEF ClaimRtl, Contested, Claimable, HasLease
<1>3. b.open = S /\ b.pc = "record"
  BY <1>1 DEF Batch
<1> HIDE DEF b
<1>4. /\ jobs'[j] = b /\ \A k \in Callers \ {j} : jobs'[k] = jobs[k]
      /\ \A k \in Callers : k = j \/ (HasLease(k)' <=> HasLease(k))
      /\ HasLease(j)'
  BY <1>2, <1>3 DEF Inv, TypeOK, HasLease
<1>5. {k \in Callers : HasLease(k)}' = {k \in Callers : HasLease(k)} \cup {j}
  BY <1>4
<1>6. /\ jobs[j].open = {}
      /\ \A k \in Callers : \A d \in jobs[k].open : d \notin S
  BY <1>2, Guarding
<1>7. Passes(jobs') = {p \in Passes(jobs) : p[2] \notin S} \cup ({j} \X S)
  <2>1. ASSUME NEW p \in Passes(jobs')
        PROVE  p \in {q \in Passes(jobs) : q[2] \notin S} \cup ({j} \X S)
    <3>1. PICK k \in Callers : \E d \in jobs'[k].open : p = <<k, d>>
      BY <2>1, PassesPairs
    <3>2. PICK d \in jobs'[k].open : p = <<k, d>>
      BY <3>1
    <3>3. CASE k = j
      BY <1>3, <1>4, <3>2, <3>3
    <3>4. CASE k # j
      <4>1. d \in jobs[k].open /\ d \notin S
        BY <1>4, <1>6, <3>2, <3>4
      <4>2. p \in Passes(jobs)
        BY <3>2, <4>1, PassesPairs
      <4> QED
        BY <3>2, <4>1, <4>2
    <3> QED
      BY <3>3, <3>4
  <2>2. ASSUME NEW p \in Passes(jobs) PROVE p \in Passes(jobs')
    <3>1. PICK k \in Callers : \E d \in jobs[k].open : p = <<k, d>>
      BY <2>2, PassesPairs
    <3>2. PICK d \in jobs[k].open : p = <<k, d>>
      BY <3>1
    <3>3. k # j /\ d \in jobs'[k].open
      BY <1>4, <1>6, <3>2
    <3> QED
      BY <3>2, <3>3, PassesPairs
  <2>3. ASSUME NEW p \in {j} \X S PROVE p \in Passes(jobs')
    <3>1. PICK d \in S : p = <<j, d>>
      BY <2>3
    <3>2. d \in jobs'[j].open
      BY <1>3, <1>4, <3>1
    <3> QED
      BY <3>1, <3>2, PassesPairs
  <2> QED
    BY <2>1, <2>2, <2>3
<1>8. j \notin {"free", "command"}
  OBVIOUS
<1>9. Strength(held') = [d \in Drones |-> IF d \in S THEN 1
                           ELSE IF d \in {} THEN 0 ELSE Strength(held)[d]]
  BY <1>2, <1>8 DEF Strength
<1>10. \A d \in S : Strength(held)[d] <= 1
  BY <1>2 DEF Strength
<1>11. held' = [d \in Drones |-> IF d \in S THEN j
                           ELSE IF d \in {} THEN "free" ELSE held[d]]
  BY <1>2
<1>12. Table!Rewrite(S, j, 1, {})
  BY <1>9, <1>11 DEF Table!Rewrite, Strength
<1>13. Table!Grant(j, 1, S)
  BY <1>2, <1>5, <1>7, <1>10, <1>12 DEF Table!Grant, Passes, Strength
<1> QED
  BY <1>13 DEF Table!Next

\* A batch that ends: its record is refused, or all its leases are back.
LEMMA EndingRetires ==
    ASSUME Inv, NEW j \in Callers, HasLease(j), jobs' = [jobs EXCEPT ![j] = IdleJob],
           held' = [d \in Drones |-> IF held[d] = j THEN "free" ELSE held[d]]
    PROVE  Table!Next
<1>1. IdleJob.open = {} /\ IdleJob.pc = "idle"
  BY DEF IdleJob
<1>2. /\ jobs'[j] = IdleJob /\ \A k \in Callers \ {j} : jobs'[k] = jobs[k]
  BY DEF Inv, TypeOK
<1>3. {k \in Callers : HasLease(k)}' = {k \in Callers : HasLease(k)} \ {j}
  BY <1>1, <1>2 DEF HasLease
<1>4. Passes(jobs') = {p \in Passes(jobs) : p[1] # j}
  <2>1. ASSUME NEW p \in Passes(jobs') PROVE p \in Passes(jobs) /\ p[1] # j
    <3>1. PICK k \in Callers : \E d \in jobs'[k].open : p = <<k, d>>
      BY <2>1, PassesPairs
    <3>2. k # j /\ \E d \in jobs[k].open : p = <<k, d>>
      BY <1>1, <1>2, <3>1
    <3> QED
      BY <3>2, PassesPairs
  <2>2. ASSUME NEW p \in Passes(jobs), p[1] # j PROVE p \in Passes(jobs')
    <3>1. PICK k \in Callers : \E d \in jobs[k].open : p = <<k, d>>
      BY <2>2, PassesPairs
    <3>2. \E d \in jobs'[k].open : p = <<k, d>>
      BY <1>2, <2>2, <3>1
    <3> QED
      BY <3>2, PassesPairs
  <2> QED
    BY <2>1, <2>2
<1>5. held' = [d \in Drones |-> IF d \in {} THEN "free"
                 ELSE IF d \in {x \in Drones : held[x] = j} THEN "free" ELSE held[d]]
  OBVIOUS
<1>6. Strength(held') = [d \in Drones |-> IF d \in {} THEN 0
                 ELSE IF d \in {x \in Drones : held[x] = j} THEN 0
                 ELSE Strength(held)[d]]
  BY DEF Strength
<1>7. Table!Rewrite({}, "free", 0, Table!HeldBy(j))
  BY <1>5, <1>6 DEF Table!Rewrite, Table!HeldBy, Strength
<1>8. Table!Retire(j)
  BY <1>3, <1>4, <1>7 DEF Table!Retire, Passes
<1>9. j \in {k \in Callers : HasLease(k)}
  OBVIOUS
<1> QED
  BY <1>8, <1>9 DEF Table!Next

\* releaseLease of one drone.
LEMMA ReleasingGivesBack ==
    ASSUME Inv, NEW j \in Callers, NEW d \in Drones, Release(j, d)
    PROVE  Table!Next
<1>1. /\ jobs'[j].open = jobs[j].open \ {d} /\ jobs'[j].pc = jobs[j].pc
      /\ \A k \in Callers \ {j} : jobs'[k] = jobs[k]
  BY DEF Release, Inv, TypeOK, JobType
<1>2. {k \in Callers : HasLease(k)}' = {k \in Callers : HasLease(k)}
  BY <1>1 DEF HasLease
<1>3. Passes(jobs') = {p \in Passes(jobs) : ~(p[1] = j /\ p[2] \in {d})}
  <2>1. ASSUME NEW p \in Passes(jobs')
        PROVE  p \in Passes(jobs) /\ ~(p[1] = j /\ p[2] \in {d})
    <3>1. PICK k \in Callers : \E e \in jobs'[k].open : p = <<k, e>>
      BY <2>1, PassesPairs
    <3>2. PICK e \in jobs'[k].open : p = <<k, e>>
      BY <3>1
    <3>3. e \in jobs[k].open /\ ~(k = j /\ e = d)
      BY <1>1, <3>2
    <3>4. p \in Passes(jobs)
      BY <3>2, <3>3, PassesPairs
    <3> QED
      BY <3>2, <3>3, <3>4
  <2>2. ASSUME NEW p \in Passes(jobs), ~(p[1] = j /\ p[2] \in {d})
        PROVE  p \in Passes(jobs')
    <3>1. PICK k \in Callers : \E e \in jobs[k].open : p = <<k, e>>
      BY <2>2, PassesPairs
    <3>2. PICK e \in jobs[k].open : p = <<k, e>>
      BY <3>1
    <3>3. e \in jobs'[k].open
      BY <1>1, <2>2, <3>2
    <3> QED
      BY <3>2, <3>3, PassesPairs
  <2> QED
    BY <2>1, <2>2
<1>4. held' = [e \in Drones |-> IF e \in {} THEN "free"
                 ELSE IF e \in {d} \cap {x \in Drones : held[x] = j} THEN "free"
                 ELSE held[e]]
  BY DEF Release, Inv, TypeOK
<1>5. Strength(held') = [e \in Drones |-> IF e \in {} THEN 0
                 ELSE IF e \in {d} \cap {x \in Drones : held[x] = j} THEN 0
                 ELSE Strength(held)[e]]
  BY <1>4 DEF Strength
<1>6. Table!Rewrite({}, "free", 0, {d} \cap Table!HeldBy(j))
  BY <1>4, <1>5 DEF Table!Rewrite, Table!HeldBy, Strength
<1>7. Table!GiveBack(j, {d})
  BY <1>2, <1>3, <1>6 DEF Table!GiveBack, Passes
<1> QED
  BY <1>7 DEF Table!Next

\* An operator command that ends.
LEMMA CommandGivesBack ==
    ASSUME Inv, NEW d \in Drones, CommandEnds(d)
    PROVE  Table!Next
<1>1. jobs' = jobs /\ held[d] = "command" /\ held' = [held EXCEPT ![d] = "free"]
  BY DEF CommandEnds
<1>2. {k \in Callers : HasLease(k)}' = {k \in Callers : HasLease(k)}
  BY <1>1 DEF HasLease
<1>3. \A p \in Passes(jobs) : p[1] # "command"
  <2> SUFFICES ASSUME NEW p \in Passes(jobs) PROVE p[1] # "command"
    OBVIOUS
  <2>1. PICK k \in Callers : \E e \in jobs[k].open : p = <<k, e>>
    BY PassesPairs
  <2> QED
    BY <2>1
<1>4. Passes(jobs') = {p \in Passes(jobs) : ~(p[1] = "command" /\ p[2] \in {d})}
  BY <1>1, <1>3
<1>5. held' = [e \in Drones |-> IF e \in {} THEN "free"
                 ELSE IF e \in {d} \cap {x \in Drones : held[x] = "command"} THEN "free"
                 ELSE held[e]]
  BY <1>1 DEF Inv, TypeOK
<1>6. Strength(held') = [e \in Drones |-> IF e \in {} THEN 0
                 ELSE IF e \in {d} \cap {x \in Drones : held[x] = "command"} THEN 0
                 ELSE Strength(held)[e]]
  BY <1>5 DEF Strength
<1>7. Table!Rewrite({}, "free", 0, {d} \cap Table!HeldBy("command"))
  BY <1>5, <1>6 DEF Table!Rewrite, Table!HeldBy, Strength
<1>8. Table!GiveBack("command", {d})
  BY <1>2, <1>4, <1>7 DEF Table!GiveBack, Passes
<1> QED
  BY <1>8 DEF Table!Next

\* The steps of a goroutine.
LEMMA JobKeepsTable ==
    ASSUME Inv, NEW j \in Callers, JobStep(j)
    PROVE  Table!Next \/ UNCHANGED Table!vars
<1>1. CASE ClaimRtl(j)
  BY <1>1, ClaimingGrants
<1>2. CASE \E d \in Drones : Release(j, d)
  BY <1>2, ReleasingGivesBack
<1>3. CASE Record(j, FALSE)
  <2>1. HasLease(j) /\ Working(j) /\ jobs' = [jobs EXCEPT ![j] = IdleJob]
    BY <1>3 DEF Record, HasLease, Working
  <2>2. \A d \in Drones : held[d] = j => batch = j
    BY <2>1 DEF Inv, Leases
  <2>3. held' = [d \in Drones |-> IF held[d] = j THEN "free" ELSE held[d]]
    BY <1>3, <2>2 DEF Record
  <2> QED
    BY <2>1, <2>3, EndingRetires
<1>4. CASE Settle(j)
  <2>1. HasLease(j) /\ jobs' = [jobs EXCEPT ![j] = IdleJob] /\ held' = held
    BY <1>4 DEF Settle, HasLease
  <2>2. \A d \in Drones : held[d] # j
    BY <1>4 DEF Settle, Inv, Leases, NoLeaseLeaks
  <2>3. held' = [d \in Drones |-> IF held[d] = j THEN "free" ELSE held[d]]
    BY <2>1, <2>2, Guarding
  <2> QED
    BY <2>1, <2>3, EndingRetires
<1>5. CASE \/ Record(j, TRUE) \/ RtlWrite(j) \/ RtlAccepted(j) \/ RtlFails(j)
           \/ Unregister(j) \/ \E d \in Drones : Begin(j, d)
  <2>1. held' = held /\ HasLease(j)
    BY <1>5 DEF Record, RtlWrite, RtlAccepted, RtlFails, Unregister, Begin, HasLease
  <2>2. jobs[j] \in JobType /\ jobs \in [Callers -> JobType]
    BY DEF Inv, TypeOK
  <2>3. PICK job : jobs' = [jobs EXCEPT ![j] = job]
    BY <1>5, <2>2 DEF Record, RtlWrite, RtlAccepted, RtlFails, Unregister, Begin
  <2>4. jobs'[j].open = jobs[j].open /\ HasLease(j)'
    <3>1. CASE Record(j, TRUE) \/ RtlWrite(j)
      BY <2>2, <3>1 DEF Record, RtlWrite, JobType, HasLease
    <3>2. CASE RtlAccepted(j)
      BY <2>2, <3>2 DEF RtlAccepted, JobType, HasLease
    <3>3. CASE RtlFails(j)
      BY <2>2, <3>3 DEF RtlFails, JobType, HasLease
    <3>5. CASE Unregister(j)
      <4> DEFINE own == batch = j
      <4>1. jobs' = [jobs EXCEPT ![j] = [@ EXCEPT !.pc = "release", !.todo = {},
                                                  !.target = 0, !.current = own]]
        BY <3>5 DEF Unregister
      <4> HIDE DEF own
      <4> QED
        BY <2>2, <4>1 DEF JobType, HasLease
    <3>4. CASE \E d \in Drones : Begin(j, d)
      BY <2>2, <3>4 DEF Begin, JobType, HasLease
    <3> QED
      BY <1>5, <3>1, <3>2, <3>3, <3>4, <3>5
  <2>5. \A k \in Callers \ {j} : jobs'[k] = jobs[k]
    BY <2>2, <2>3
  <2> QED
    BY <2>1, <2>4, <2>5, TableUntouched DEF HasLease
<1>6. CASE \/ SendReturns(j) \/ Ask(j) \/ \E ok \in BOOLEAN : Save(j, ok)
           \/ ClaimNothing(j) \/ ClaimSuppressed(j)
           \/ \E a \in BOOLEAN : ClaimSwarm(j, a)
  <2>1. ~HasLease(j) /\ held' = held
    BY <1>6 DEF SendReturns, Ask, Save, ClaimNothing, ClaimSuppressed, ClaimSwarm,
                Claimable, HasLease
  <2>2. jobs[j].open = {}
    BY <2>1, Guarding
  <2>3. IdleJob.open = {} /\ IdleJob.pc = "idle" /\ AskingJob.open = {}
        /\ AskingJob.pc = "ask"
    BY DEF IdleJob, AskingJob
  <2>4. /\ jobs'[j].open = {} /\ ~HasLease(j)'
        /\ \A k \in Callers \ {j} : jobs'[k] = jobs[k]
    BY <1>6, <2>2, <2>3
    DEF SendReturns, Ask, Save, ClaimNothing, ClaimSuppressed, ClaimSwarm, HasLease,
        Inv, TypeOK, JobType
  <2> QED
    BY <2>1, <2>2, <2>4, TableUntouched DEF HasLease
<1> QED
  BY <1>1, <1>2, <1>3, <1>4, <1>5, <1>6 DEF JobStep

\* Every step of a Return, and each that takes drones from one, is a step of the
\* reservation table.
LEMMA TableStep ==
    Inv /\ [Next]_vars => [Table!Next]_(Table!vars)
<1> SUFFICES ASSUME Inv, [Next]_vars PROVE Table!Next \/ UNCHANGED Table!vars
  OBVIOUS
<1>1. CASE UNCHANGED <<jobs, held>>
  BY <1>1, TableUntouched DEF HasLease
<1>2. CASE \E j \in Callers : JobStep(j)
  BY <1>2, JobKeepsTable
<1>3. CASE SeqStep \/ ResultStep
  <2>1. UNCHANGED <<jobs, held>>
    BY <1>3 DEF ResultStep, Deliver, SeqStep, SeqGoto, SeqOrder, SeqGotoFails, SeqSkip,
                SeqLanded, SeqPhaseDone, FallBack, SeqEnds, SeqMoves, SeqWrites
  <2> QED
    BY <1>1, <2>1
<1>4. ASSUME NEW j \in Callers, NEW job, jobs[j].pc = "idle",
             job.open = {}, job.pc \in {"send", "ask"},
             jobs' = [jobs EXCEPT ![j] = job], held' = held
      PROVE  UNCHANGED Table!vars
  <2>1. ~HasLease(j) /\ jobs[j].open = {}
    BY <1>4, Guarding DEF HasLease
  <2>2. jobs'[j] = job /\ \A k \in Callers \ {j} : jobs'[k] = jobs[k]
    BY <1>4 DEF Inv, TypeOK
  <2> QED
    BY <1>4, <2>1, <2>2, TableUntouched DEF HasLease
<1>5. CASE MissionStep
  <2>1. ASSUME NEW j \in Callers, SendMission(j) PROVE UNCHANGED Table!vars
    <3> DEFINE job == [jobs[j] EXCEPT !.pc = "send", !.run = run.id]
    <3>1. jobs[j].pc = "idle" /\ jobs' = [jobs EXCEPT ![j] = job] /\ held' = held
      BY <2>1 DEF SendMission
    <3>2. jobs[j].open = {}
      BY <3>1, Guarding DEF HasLease
    <3>3. job.open = {} /\ job.pc = "send"
      BY <3>2 DEF Inv, TypeOK, JobType
    <3> HIDE DEF job
    <3> PICK k : k = job
      OBVIOUS
    <3> QED
      BY <1>4, <3>1, <3>3
  <2>2. CASE Complete
    <3>1. AskingJob.open = {} /\ AskingJob.pc = "ask"
      BY DEF AskingJob, IdleJob
    <3>2. jobs[Observer].pc = "idle" /\ held' = held
          /\ jobs' = [jobs EXCEPT ![Observer] = AskingJob]
      BY <2>2 DEF Complete
    <3> QED
      BY <1>4, <3>1, <3>2
  <2>3. CASE \E d \in Drones : CommandEnds(d)
    BY <2>3, CommandGivesBack
  <2>4. CASE \E d \in Drones : Alarm(d)
    <3>1. CloseBatch({}) \/ UNCHANGED <<jobs, held>>
      BY <2>4 DEF Alarm, Invalidate
    <3> QED
      BY <1>1, <3>1, ClosingSeizes
  <2>5. CASE \E d \in Drones : Unlatch(d)
    BY <1>1, <2>5 DEF Unlatch
  <2> QED
    BY <1>5, <2>1, <2>2, <2>3, <2>4, <2>5 DEF MissionStep
<1>6. CASE Event
  <2>1. ASSUME NEW d \in UNION Targets, Command(d) PROVE Table!Next
    <3>1. d \in Drones /\ {d} \in SUBSET Drones
      BY TargetAssumption
    <3>2. jobs' = jobs /\ held[d] = "free" /\ held' = [held EXCEPT ![d] = "command"]
      BY <2>1 DEF Command
    <3>3. held' = Holding({d})
      BY <3>1, <3>2 DEF Holding, Inv, TypeOK
    <3>4. \A j \in Callers : [jobs[j] EXCEPT !.open = Preempted(j, {d})] = jobs[j]
      <4> SUFFICES ASSUME NEW j \in Callers
                   PROVE  [jobs[j] EXCEPT !.open = Preempted(j, {d})] = jobs[j]
        OBVIOUS
      <4>1. Preempted(j, {d}) = jobs[j].open
        BY <3>2 DEF Preempted
      <4> QED
        BY <4>1 DEF Inv, TypeOK, JobType
    <3>5. jobs' = [j \in Callers |-> [jobs[j] EXCEPT !.open = Preempted(j, {d})]]
      BY <3>2, <3>4 DEF Inv, TypeOK
    <3> QED
      BY <3>1, <3>3, <3>5, PreemptingSeizes
  <2>2. ASSUME NEW T \in Targets,
               TakeOver(T) \/ TakeOverOthers(T) \/ TakeOverSwarm(T)
        PROVE  Table!Next
    <3>1. T \in SUBSET Drones
      BY TargetAssumption
    <3> QED
      BY <2>2, <3>1, PreemptingSeizes, ClosingSeizes
      DEF TakeOver, TakeOverOthers, TakeOverSwarm, Invalidate
  <2>3. CASE \/ CancelMission \/ SwarmStop \/ SaveFails
             \/ \E T \in Requests, accepted \in BOOLEAN : SwarmReturn(T, accepted)
    <3>1. CloseBatch({}) \/ UNCHANGED <<jobs, held>>
      BY <2>3 DEF CancelMission, SwarmStop, SaveFails, SwarmReturn, Invalidate
    <3> QED
      BY <1>1, <3>1, ClosingSeizes
  <2>4. CASE \/ \E p \in Plans : StartMission(p)
             \/ \E d \in Fallible : Latch(d) \/ Stick(d)
             \/ \E d \in Leavers : Disconnect(d)
    BY <1>1, <2>4 DEF StartMission, Latch, Stick, Disconnect
  <2> QED
    BY <1>6, <2>1, <2>2, <2>3, <2>4 DEF Event
<1> QED
  BY <1>1, <1>2, <1>3, <1>5, <1>6 DEF Next, vars

LEMMA TableInit == Init => Table!Init
<1> SUFFICES ASSUME Init PROVE Table!Init
  OBVIOUS
<1>1. \A j \in Callers : jobs[j].open = {} /\ ~HasLease(j)
  BY DEF Init, IdleJob, HasLease
<1>2. Passes(jobs) = {}
  BY <1>1, PassesPairs
<1>3. Strength(held) = [d \in Drones |-> 0]
  BY DEF Init, Strength
<1> QED
  BY <1>1, <1>2, <1>3 DEF Init, Table!Init, Passes, Strength

\* For any fleet, plans, takeovers and requests, the leases of a Return and the
\* reservations that end it keep what the reservation table promises: one holder
\* a drone, whose guard closes in the step that takes the drone away
\* (prepareReturnBatchLocked, preemptLease, releaseLease, invalidateReturnLocked).
THEOREM ReturnKeepsTheTable == Spec => TableKept
<1>1. Inv /\ [Next]_vars => [Table!Next]_(Table!vars)
  BY TableStep
<1>2. Spec => []Inv
  BY InitInv, NextInv, PTL DEF Spec
<1> QED
  BY <1>1, <1>2, TableInit, PTL DEF Spec, TableKept, Table!Spec
-----------------------------------------------------------------------------
(* Progress of the goroutines and of the sequence                          *)

\* Who is being served is one of those still to be served.
Served ==
    /\ \A j \in Callers : jobs[j].pc \in {"rtl", "ack"} => jobs[j].target \in jobs[j].todo
    /\ seq.at # 0 => seq.at \in seq.left /\ seq.phase \in {"land", "rtl"}

LEMMA Sizes ==
    /\ Cardinality(Drones) \in Nat
    /\ \A S \in SUBSET Drones :
          /\ Cardinality(S) \in Nat /\ Cardinality(S) <= Cardinality(Drones)
          /\ \A d \in S : /\ Cardinality(S \ {d}) = Cardinality(S) - 1
                          /\ Cardinality(S) > 0
    /\ Cardinality({}) = 0
<1>1. IsFiniteSet(Drones) /\ Cardinality(Drones) \in Nat
  BY DroneAssumption, FS_CardinalityType
<1>2. ASSUME NEW S \in SUBSET Drones
      PROVE  /\ Cardinality(S) \in Nat /\ Cardinality(S) <= Cardinality(Drones)
             /\ \A d \in S : /\ Cardinality(S \ {d}) = Cardinality(S) - 1
                             /\ Cardinality(S) > 0
  <2>1. IsFiniteSet(S) /\ Cardinality(S) \in Nat
        /\ Cardinality(S) <= Cardinality(Drones)
    BY <1>1, FS_Subset, FS_CardinalityType
  <2>2. ASSUME NEW d \in S
        PROVE  Cardinality(S \ {d}) = Cardinality(S) - 1 /\ Cardinality(S) > 0
    <3>1. Cardinality(S \ {d}) = Cardinality(S) - 1 /\ IsFiniteSet(S \ {d})
      BY <2>1, FS_RemoveElement
    <3>2. Cardinality(S \ {d}) \in Nat
      BY <3>1, FS_CardinalityType
    <3> QED
      BY <2>1, <3>1, <3>2
  <2> QED
    BY <2>1, <2>2
<1> QED
  BY <1>1, <1>2, FS_EmptySet

\* What a goroutine at pc with so many to serve and to give back has before it.
StepsLeft(pc, todo, claims) ==
    LET n == Cardinality(Drones)
        k == 3 * todo
    IN CASE pc = "idle"    -> 0
         [] pc = "release" -> 1 + claims
         [] pc = "close"   -> n + 2
         [] pc = "ack"     -> n + 1 + k
         [] pc = "rtl"     -> n + 2 + k
         [] pc = "next"    -> n + 3 + k
         [] pc = "record"  -> 4 * n + 4
         [] pc = "claim"   -> 4 * n + 5
         [] pc = "save"    -> 4 * n + 6
         [] pc = "ask"     -> 4 * n + 7
         [] pc = "send"    -> 4 * n + 8

Pcs == {"idle", "send", "ask", "save", "claim", "record", "next", "rtl", "ack",
        "close", "release"}

\* The same, per pc.
Weighs(n, k, c) ==
    /\ StepsLeft("idle", k, c) = 0
    /\ StepsLeft("release", k, c) = 1 + c
    /\ StepsLeft("close", k, c) = n + 2
    /\ StepsLeft("ack", k, c) = n + 1 + 3 * k
    /\ StepsLeft("rtl", k, c) = n + 2 + 3 * k
    /\ StepsLeft("next", k, c) = n + 3 + 3 * k
    /\ StepsLeft("record", k, c) = 4 * n + 4
    /\ StepsLeft("claim", k, c) = 4 * n + 5
    /\ StepsLeft("save", k, c) = 4 * n + 6
    /\ StepsLeft("ask", k, c) = 4 * n + 7
    /\ StepsLeft("send", k, c) = 4 * n + 8

LEMMA StepsAre ==
    ASSUME NEW n, n = Cardinality(Drones), NEW k, NEW c
    PROVE  Weighs(n, k, c)
BY DEF StepsLeft, Weighs

LEMMA StepsCounted ==
    ASSUME NEW pc \in Pcs, NEW k \in Nat, NEW c \in Nat
    PROVE  StepsLeft(pc, k, c) \in Nat
<1>1. PICK n \in Nat : n = Cardinality(Drones)
  BY Sizes
<1>2. Weighs(n, k, c)
  BY <1>1, StepsAre
<1> QED
  BY <1>2 DEF Weighs, Pcs

LEMMA JobLeftIs ==
    \A j \in Callers :
        /\ JobLeft(j) = StepsLeft(jobs[j].pc, Cardinality(jobs[j].todo),
                                  Cardinality(jobs[j].claims))
        /\ JobLeft(j)' = StepsLeft(jobs'[j].pc, Cardinality(jobs'[j].todo),
                                   Cardinality(jobs'[j].claims))
BY DEF JobLeft, StepsLeft

\* Each step of a goroutine is one nearer to its end.
LEMMA JobIsNearer ==
    ASSUME Inv, Served, NEW j \in Callers, JobStep(j)
    PROVE  JobLeft(j)' < JobLeft(j) /\ JobLeft(j)' \in Nat /\ JobLeft(j) \in Nat
<1>1. PICK a \in JobType, b \in JobType : a = jobs[j] /\ b = jobs'[j]
  <2>1. TypeOK'
    BY NextInv DEF Next, Inv
  <2> QED
    BY <2>1 DEF Inv, TypeOK
<1>2. PICK n \in Nat, k \in Nat, l \in Nat, c \in Nat, e \in Nat :
         /\ n = Cardinality(Drones)
         /\ k = Cardinality(a.todo) /\ l = Cardinality(b.todo)
         /\ c = Cardinality(a.claims) /\ e = Cardinality(b.claims)
         /\ k <= n /\ l <= n /\ c <= n /\ e <= n
  BY Sizes DEF JobType
<1>3. a.pc \in Pcs /\ b.pc \in Pcs
  BY DEF JobType, Pcs
<1>4. JobLeft(j) = StepsLeft(a.pc, k, c) /\ JobLeft(j)' = StepsLeft(b.pc, l, e)
  BY <1>1, <1>2, JobLeftIs
<1>5. JobLeft(j)' \in Nat /\ JobLeft(j) \in Nat
  BY <1>3, <1>4, StepsCounted
<1>24. Weighs(n, k, c) /\ Weighs(n, l, e)
  BY <1>2, StepsAre
<1>6. SUFFICES StepsLeft(b.pc, l, e) < StepsLeft(a.pc, k, c)
  BY <1>4, <1>5
<1>7. jobs \in [Callers -> JobType]
  BY DEF Inv, TypeOK
<1>8. CASE b.pc = "idle" /\ a.pc # "idle"
  BY <1>2, <1>3, <1>8, <1>24 DEF Pcs, Weighs
<1>9. CASE \/ a.pc = "send" /\ b.pc = "ask"
           \/ a.pc = "ask" /\ b.pc = "save"
           \/ a.pc = "save" /\ b.pc = "claim"
           \/ a.pc = "claim" /\ b.pc = "record"
  BY <1>2, <1>9, <1>24 DEF Weighs
<1>10. CASE a.pc = "record" /\ b.pc = "next"
  BY <1>2, <1>10, <1>24 DEF Weighs
<1>11. CASE a.pc = "next" /\ (b.pc = "close" \/ (b.pc = "rtl" /\ b.todo = a.todo))
  BY <1>2, <1>11, <1>24 DEF Weighs
<1>12. CASE a.pc = "rtl" /\ b.pc = "ack" /\ b.todo = a.todo
  BY <1>2, <1>12, <1>24 DEF Weighs
<1>13. CASE a.pc \in {"rtl", "ack"} /\ b.pc = "close"
  <2>1. a.target \in a.todo
    BY <1>1, <1>13 DEF Served
  <2>2. k > 0
    BY <1>2, <2>1, Sizes DEF JobType
  <2> QED
    BY <1>2, <1>13, <2>2, <1>24 DEF Weighs
<1>14. CASE a.pc = "ack" /\ b.pc \in {"next", "close"} /\ b.todo = a.todo \ {a.target}
  <2>1. a.target \in a.todo
    BY <1>1, <1>14 DEF Served
  <2>2. l = k - 1 /\ k > 0
    BY <1>2, <1>14, <2>1, Sizes DEF JobType
  <2> QED
    BY <1>2, <1>14, <2>2, <1>24 DEF Weighs
<1>15. CASE a.pc = "close" /\ b.pc = "release"
  BY <1>2, <1>15, <1>24 DEF Weighs
<1>16. CASE a.pc = "release" /\ b.pc = "release"
            /\ \E d \in a.claims : b.claims = a.claims \ {d}
  <2>1. e = c - 1
    BY <1>2, <1>16, Sizes DEF JobType
  <2> QED
    BY <1>2, <1>16, <2>1, <1>24 DEF Weighs
<1>17. CASE \/ SendReturns(j) \/ Ask(j) \/ \E ok \in BOOLEAN : Save(j, ok)
            \/ ClaimNothing(j) \/ ClaimSuppressed(j)
            \/ \E acc \in BOOLEAN : ClaimSwarm(j, acc)
  <2>1. IdleJob.pc = "idle" /\ AskingJob.pc = "ask"
    BY DEF IdleJob, AskingJob
  <2> QED
    BY <1>1, <1>7, <1>8, <1>9, <1>17, <2>1
    DEF SendReturns, Ask, Save, ClaimNothing, ClaimSuppressed, ClaimSwarm, Claimable,
        JobType
<1>18. CASE ClaimRtl(j)
  <2> DEFINE job == Batch(run.id, run.crew)
  <2>1. job.pc = "record"
    BY DEF Batch
  <2>2. a.pc = "claim" /\ jobs' = [jobs EXCEPT ![j] = job]
    BY <1>1, <1>18 DEF ClaimRtl, Claimable
  <2> HIDE DEF job
  <2> QED
    BY <1>1, <1>7, <1>9, <2>1, <2>2
<1>25. CASE Settle(j) \/ \E ok \in BOOLEAN : Record(j, ok)
  <2>1. IdleJob.pc = "idle"
    BY DEF IdleJob
  <2> QED
    BY <1>1, <1>7, <1>8, <1>10, <1>25, <2>1 DEF Settle, Record, JobType
<1>19. CASE RtlWrite(j)
  BY <1>1, <1>7, <1>12, <1>19 DEF RtlWrite, JobType
<1>26. CASE RtlFails(j)
  BY <1>1, <1>7, <1>13, <1>26 DEF RtlFails, JobType
<1>20. CASE RtlAccepted(j)
  BY <1>1, <1>7, <1>14, <1>20 DEF RtlAccepted, JobType
<1>21. CASE Unregister(j)
  <2> DEFINE own == batch = j
  <2>1. a.pc = "close" /\
        jobs' = [jobs EXCEPT ![j] = [@ EXCEPT !.pc = "release", !.todo = {},
                                              !.target = 0, !.current = own]]
    BY <1>1, <1>21 DEF Unregister
  <2> HIDE DEF own
  <2> QED
    BY <1>1, <1>7, <1>15, <2>1 DEF JobType
<1>22. CASE \E d \in Drones : Release(j, d)
  BY <1>1, <1>7, <1>16, <1>22 DEF Release, JobType
<1>23. CASE \E d \in Drones : Begin(j, d)
  BY <1>1, <1>7, <1>11, <1>23 DEF Begin, JobType
<1> QED
  BY <1>17, <1>18, <1>19, <1>20, <1>21, <1>22, <1>23, <1>25, <1>26
  DEF JobStep

\* Nobody else's step changes what a goroutine under way has before it.
Untouched(j) ==
    /\ jobs'[j].pc = jobs[j].pc /\ jobs'[j].todo = jobs[j].todo
    /\ jobs'[j].target = jobs[j].target /\ jobs'[j].claims = jobs[j].claims

LEMMA JobOutside ==
    ASSUME Inv, [Next]_vars, NEW j \in Callers, ~JobStep(j)
    PROVE  \/ Untouched(j)
           \/ jobs[j].pc = "idle" /\ jobs'[j].pc \in {"send", "ask"}
<1>2. jobs[j] \in JobType /\ jobs \in [Callers -> JobType]
  BY DEF Inv, TypeOK
<1>3. ASSUME NEW k \in Callers, JobStep(k) PROVE jobs'[j] = jobs[j]
  <2>1. k # j
    BY <1>3
  <2>2. \E job : jobs' = [jobs EXCEPT ![k] = job]
    BY <1>2, <1>3
    DEF JobStep, SendReturns, Ask, Save, Record, ClaimNothing, ClaimSuppressed, ClaimRtl,
        ClaimSwarm, RtlWrite, RtlAccepted, RtlFails, Unregister, Settle, Begin, Release
  <2> QED
    BY <1>2, <2>1, <2>2
<1>4. CASE SeqStep \/ ResultStep \/ UNCHANGED vars
  BY <1>4 DEF ResultStep, Deliver, SeqStep, SeqGoto, SeqOrder, SeqGotoFails, SeqSkip,
              SeqLanded, SeqPhaseDone, FallBack, SeqEnds, SeqMoves, SeqWrites, vars,
              Untouched
<1>5. ASSUME NEW T, CloseBatch(T)
      PROVE  Untouched(j)
  BY <1>2, <1>5 DEF CloseBatch, JobType, Untouched
<1>6. CASE MissionStep
  <2>1. CASE \E d \in Drones : Alarm(d)
    BY <1>5, <2>1 DEF Alarm, Invalidate, Untouched
  <2>2. CASE \E k \in Callers : SendMission(k)
    <3>1. PICK k \in Callers : SendMission(k)
      BY <2>2
    <3>2. jobs[k].pc = "idle" /\ jobs' = [jobs EXCEPT ![k] = [@ EXCEPT !.pc = "send",
                                                                      !.run = run.id]]
      BY <3>1 DEF SendMission
    <3> QED
      BY <1>2, <3>2 DEF JobType, Untouched
  <2>3. CASE Complete
    <3>1. AskingJob.pc = "ask"
      BY DEF AskingJob, IdleJob
    <3> QED
      BY <1>2, <2>3, <3>1 DEF Complete, Untouched
  <2> QED
    BY <1>6, <2>1, <2>2, <2>3 DEF MissionStep, CommandEnds, Unlatch, Untouched
<1>7. CASE Event
  <2>1. CASE \E T \in Targets : TakeOverOthers(T) \/ TakeOverSwarm(T)
    <3>1. PICK T : jobs' = [k \in Callers |-> [jobs[k] EXCEPT !.open = Preempted(k, T)]]
      BY <2>1 DEF TakeOverOthers, TakeOverSwarm
    <3>2. jobs'[j] = [jobs[j] EXCEPT !.open = Preempted(j, T)]
      BY <3>1
    <3> QED
      BY <1>2, <3>2 DEF JobType, Untouched
  <2>2. (\E T : CloseBatch(T)) \/ UNCHANGED jobs
        \/ \E T \in Targets : TakeOverOthers(T) \/ TakeOverSwarm(T)
    BY <1>7
    DEF Event, StartMission, Command, TakeOver, CancelMission, SwarmStop, SwarmReturn,
        SaveFails, Latch, Stick, Disconnect, Invalidate
  <2> QED
    BY <1>5, <2>1, <2>2 DEF Untouched
<1> QED
  BY <1>3, <1>4, <1>6, <1>7 DEF Next, Untouched

LEMMA JobIsLeft ==
    ASSUME Inv, [Next]_vars, NEW j \in Callers, ~JobStep(j), jobs[j].pc # "idle"
    PROVE  JobLeft(j)' = JobLeft(j)
BY JobOutside, JobLeftIs DEF Untouched

LEMMA JobCounted ==
    ASSUME Inv, NEW j \in Callers
    PROVE  JobLeft(j) \in Nat
<1>1. PICK a \in JobType : a = jobs[j]
  BY DEF Inv, TypeOK
<1>2. a.pc \in Pcs /\ Cardinality(a.todo) \in Nat /\ Cardinality(a.claims) \in Nat
  BY Sizes DEF JobType, Pcs
<1> QED
  BY <1>1, <1>2, JobLeftIs, StepsCounted

\* What the sequence has before it, in the phase with k to be served.
PhaseLeft(phase, k, landing) ==
    LET n == Cardinality(Drones)
    IN CASE phase = "off"    -> 0
         [] phase = "rtl"    -> 1 + 2 * k - landing
         [] phase = "land"   -> 2 * n + 2 + 2 * k - landing
         [] phase = "travel" -> 4 * n + 3 + k
         [] phase = "stage"  -> 5 * n + 4 + k

Landing(at) == IF at = 0 THEN 0 ELSE 1

LEMMA SeqLeftIs ==
    /\ SeqLeft = PhaseLeft(seq.phase, Cardinality(seq.left), Landing(seq.at))
    /\ SeqLeft' = PhaseLeft(seq'.phase, Cardinality(seq'.left), Landing(seq'.at))
BY DEF SeqLeft, PhaseLeft, Landing

\* The same, per phase.
PhaseWeighs(n, k, l) ==
    /\ PhaseLeft("off", k, l) = 0
    /\ PhaseLeft("rtl", k, l) = 1 + 2 * k - l
    /\ PhaseLeft("land", k, l) = 2 * n + 2 + 2 * k - l
    /\ PhaseLeft("travel", k, l) = 4 * n + 3 + k
    /\ PhaseLeft("stage", k, l) = 5 * n + 4 + k

LEMMA PhasesAre ==
    ASSUME NEW n, n = Cardinality(Drones), NEW k, NEW l
    PROVE  PhaseWeighs(n, k, l)
BY DEF PhaseLeft, PhaseWeighs

\* Each step of the sequence is one nearer to its end.
LEMMA SeqIsNearer ==
    ASSUME Inv, Served, SeqStep
    PROVE  SeqLeft' < SeqLeft /\ SeqLeft' \in Int /\ SeqLeft \in Int
<1>1. PICK a \in SeqType, b \in SeqType : a = seq /\ b = seq'
  <2>1. TypeOK'
    BY NextInv DEF Next, Inv
  <2> QED
    BY <2>1 DEF Inv, TypeOK
<1>2. PICK n \in Nat, k \in Nat, l \in Nat, m \in Nat :
         /\ n = Cardinality(Drones) /\ k = Cardinality(a.left)
         /\ l = Cardinality(b.left) /\ m = Cardinality(a.drones)
         /\ k <= n /\ l <= n /\ m <= n
  BY Sizes DEF SeqType
<1>3. PICK x \in 0..1, y \in 0..1 : x = Landing(a.at) /\ y = Landing(b.at)
  BY DEF Landing
<1>4. SeqLeft = PhaseLeft(a.phase, k, x) /\ SeqLeft' = PhaseLeft(b.phase, l, y)
  BY <1>1, <1>2, <1>3, SeqLeftIs
<1>5. PhaseWeighs(n, k, x) /\ PhaseWeighs(n, l, y)
  BY <1>2, PhasesAre
<1>6. /\ a.phase \in {"off", "stage", "travel", "land", "rtl"}
      /\ b.phase \in {"off", "stage", "travel", "land", "rtl"}
  BY DEF SeqType
<1>7. SeqLeft' \in Int /\ SeqLeft \in Int
  BY <1>4, <1>5, <1>6 DEF PhaseWeighs
<1>8. SUFFICES PhaseLeft(b.phase, l, y) < PhaseLeft(a.phase, k, x)
  BY <1>4, <1>7
<1>9. a.at # 0 => a.at \in a.left /\ a.phase \in {"land", "rtl"} /\ k > 0
  BY <1>1, <1>2, Sizes DEF Served, SeqType
<1>10. \A d \in a.left : b.left = a.left \ {d} => l = k - 1 /\ k > 0
  BY <1>2, Sizes DEF SeqType
<1>11. (a.at = 0 => x = 0) /\ (a.at # 0 => x = 1) /\ (b.at = 0 => y = 0)
       /\ (b.at # 0 => y = 1)
  BY <1>3 DEF Landing
<1>12. CASE \E d \in Drones : SeqGoto(d) \/ SeqGotoFails(d)
  <2>1. PICK d \in a.left : /\ a.phase \in {"stage", "travel"} /\ b.phase = a.phase
                            /\ b.left = a.left \ {d}
    BY <1>1, <1>12 DEF SeqGoto, SeqGotoFails, SeqMaySend, Turn, SeqType
  <2> QED
    BY <1>5, <1>10, <2>1 DEF PhaseWeighs
<1>13. CASE \E d \in Drones : SeqOrder(d)
  <2>1. /\ a.phase \in {"land", "rtl"} /\ a.at = 0 /\ b.at # 0
        /\ b.phase = a.phase /\ b.left = a.left
    BY <1>1, <1>13, DroneAssumption DEF SeqOrder, SeqType
  <2>2. l = k /\ x = 0 /\ y = 1
    BY <1>2, <1>11, <2>1
  <2> QED
    BY <1>5, <2>1, <2>2 DEF PhaseWeighs
<1>14. CASE SeqLanded
  <2>1. /\ a.at # 0 /\ b.phase = a.phase /\ b.at = 0
        /\ b.left = a.left \ {a.at}
    BY <1>1, <1>14 DEF SeqLanded, SeqType
  <2>2. l = k - 1 /\ x = 1 /\ y = 0 /\ a.phase \in {"land", "rtl"}
    BY <1>9, <1>10, <1>11, <2>1
  <2> QED
    BY <1>5, <2>1, <2>2 DEF PhaseWeighs
<1>15. CASE SeqPhaseDone
  <2>1. /\ b.left = a.drones /\ b.at = 0
        /\ \/ a.phase = "stage" /\ b.phase = "travel"
           \/ a.phase = "travel" /\ b.phase = "land"
    BY <1>1, <1>15 DEF SeqPhaseDone, Into, SeqType
  <2> QED
    BY <1>2, <1>5, <1>11, <2>1 DEF PhaseWeighs
<1>16. CASE FallBack
  <2>1. b.phase = "rtl" /\ b.at = 0 /\ a.phase \in {"stage", "travel", "land"}
        /\ (a.phase = "land" => b.left = a.left)
    BY <1>1, <1>16 DEF FallBack, Into, SeqType
  <2>2. y = 0 /\ (a.phase = "land" => l = k) /\ l <= n
    BY <1>2, <1>11, <2>1
  <2>3. x = 1 => k > 0 /\ n > 0
    BY <1>2, <1>9, <1>11
  <2> QED
    BY <1>2, <1>5, <2>1, <2>2, <2>3 DEF PhaseWeighs
<1>17. CASE \E d \in Drones : SeqSkip(d)
  <2>1. PICK d \in a.left : /\ a.phase = "rtl" /\ b.phase = "rtl"
                            /\ a.at = 0 /\ b.at = 0 /\ b.left = a.left \ {d}
    BY <1>1, <1>17 DEF SeqSkip, Turn, SeqType
  <2>2. l = k - 1 /\ x = 0 /\ y = 0
    BY <1>10, <1>11, <2>1
  <2> QED
    BY <1>5, <2>1, <2>2 DEF PhaseWeighs
<1>18. CASE \E outcome \in {"succeeded", "cancelled", "failed"} : SeqEnds(outcome)
  <2>1. a.phase # "off" /\ b.phase = "off"
    BY <1>1, <1>18 DEF SeqEnds, NoSeq
  <2>2. PhaseLeft(a.phase, k, x) > 0
    <3>1. a.phase = "rtl" => 1 + 2 * k - x > 0
      BY <1>9, <1>11
    <3> QED
      BY <1>5, <1>6, <2>1, <3>1 DEF PhaseWeighs
  <2> QED
    BY <1>5, <2>1, <2>2 DEF PhaseWeighs
<1> QED
  BY <1>12, <1>13, <1>14, <1>15, <1>16, <1>17, <1>18 DEF SeqStep

\* What is not a step of the sequence starts one, shuts it, or leaves it alone.
LEMMA SeqOutside ==
    ASSUME [Next]_vars, ~SeqStep
    PROVE  \/ seq' = seq \/ seq' = [seq EXCEPT !.open = FALSE]
           \/ seq.phase = "off" /\ \E r, T : seq' = StartSeq(r, T)
<1>1. CASE \E j \in Callers : JobStep(j)
  <2>1. CASE \E j \in Callers, accepted \in BOOLEAN : ClaimSwarm(j, accepted)
    BY <2>1 DEF ClaimSwarm, Accepts
  <2>2. CASE ~\E j \in Callers, accepted \in BOOLEAN : ClaimSwarm(j, accepted)
    BY <1>1, <2>2
    DEF JobStep, SendReturns, Ask, Save, Record, ClaimNothing, ClaimSuppressed, ClaimRtl,
        RtlWrite, RtlAccepted, RtlFails, Unregister, Settle, Begin, Release
  <2> QED
    BY <2>1, <2>2
<1>2. CASE ResultStep \/ MissionStep \/ UNCHANGED vars
  BY <1>2 DEF ResultStep, Deliver, MissionStep, SendMission, Complete, CommandEnds,
              Alarm, Unlatch, RevokeSeq, vars
<1>3. CASE Event
  BY <1>3
  DEF Event, StartMission, Command, TakeOver, TakeOverOthers, TakeOverSwarm,
      CancelMission, SwarmStop, SwarmReturn, Accepts, SaveFails, Latch, Stick, Disconnect,
      RevokeSeq
<1> QED
  BY <1>1, <1>2, <1>3 DEF Next

LEMMA SeqCounted ==
    ASSUME Inv
    PROVE  SeqLeft \in Int
<1>1. PICK a \in SeqType : a = seq
  BY DEF Inv, TypeOK
<1>2. PICK n \in Nat, k \in Nat, x \in 0..1 :
         n = Cardinality(Drones) /\ k = Cardinality(a.left) /\ x = Landing(a.at)
  BY Sizes DEF SeqType, Landing
<1>3. PhaseWeighs(n, k, x) /\ a.phase \in {"off", "stage", "travel", "land", "rtl"}
  BY <1>2, PhasesAre DEF SeqType
<1> QED
  BY <1>1, <1>2, <1>3, SeqLeftIs DEF PhaseWeighs

LEMMA SeqIsLeft ==
    ASSUME Inv, [Next]_vars, ~SeqStep, seq.phase # "off"
    PROVE  SeqLeft' = SeqLeft
<1>1. seq' = seq \/ seq' = [seq EXCEPT !.open = FALSE]
  BY SeqOutside
<1>2. /\ seq'.phase = seq.phase /\ seq'.left = seq.left /\ seq'.at = seq.at
  BY <1>1 DEF Inv, TypeOK, SeqType
<1> QED
  BY <1>2, SeqLeftIs

\* Who is being served stays one of those to be served.
LEMMA SeqServes ==
    ASSUME Inv, Served, [Next]_vars
    PROVE  seq'.at # 0 => seq'.at \in seq'.left /\ seq'.phase \in {"land", "rtl"}
<1>1. seq \in SeqType
  BY DEF Inv, TypeOK
<1>2. CASE SeqStep
  <2>1. CASE \E d \in Drones : SeqGoto(d) \/ SeqGotoFails(d)
    BY <1>1, <2>1 DEF SeqGoto, SeqGotoFails, Served, SeqType
  <2>2. CASE \E d \in Drones : SeqOrder(d) \/ SeqSkip(d)
    BY <1>1, <2>2 DEF SeqOrder, SeqSkip, SeqMaySend, Turn, Served, SeqType
  <2>3. CASE SeqLanded \/ SeqPhaseDone \/ FallBack
    BY <1>1, <2>3 DEF SeqLanded, SeqPhaseDone, FallBack, Into, SeqType
  <2>4. CASE \E outcome \in {"succeeded", "cancelled", "failed"} : SeqEnds(outcome)
    BY <2>4 DEF SeqEnds, NoSeq
  <2> QED
    BY <1>2, <2>1, <2>2, <2>3, <2>4 DEF SeqStep
<1>3. CASE ~SeqStep
  <2>1. \A r, T : StartSeq(r, T).at = 0
    BY DEF StartSeq
  <2> QED
    BY <1>1, <1>3, <2>1, SeqOutside DEF Served, SeqType
<1> QED
  BY <1>2, <1>3

LEMMA JobServes ==
    ASSUME Inv, Served, [Next]_vars, NEW j \in Callers
    PROVE  jobs'[j].pc \in {"rtl", "ack"} => jobs'[j].target \in jobs'[j].todo
<1>1. jobs[j] \in JobType /\ jobs \in [Callers -> JobType]
  BY DEF Inv, TypeOK
<1>2. CASE JobStep(j)
  <2>1. CASE \E d \in Drones : Begin(j, d)
    BY <1>1, <2>1 DEF Begin, JobType
  <2>2. CASE RtlWrite(j)
    BY <1>1, <2>2 DEF RtlWrite, Served, JobType
  <2>3. CASE \E d \in Drones : Release(j, d)
    BY <1>1, <2>3 DEF Release, JobType
  <2>4. CASE RtlAccepted(j)
    BY <1>1, <2>4 DEF RtlAccepted, JobType
  <2>9. CASE RtlFails(j)
    BY <1>1, <2>9 DEF RtlFails, JobType
  <2>5. CASE Unregister(j)
    <3> DEFINE own == batch = j
    <3>1. jobs' = [jobs EXCEPT ![j] = [@ EXCEPT !.pc = "release", !.todo = {},
                                                !.target = 0, !.current = own]]
      BY <2>5 DEF Unregister
    <3> HIDE DEF own
    <3> QED
      BY <1>1, <3>1 DEF JobType
  <2>6. CASE ClaimRtl(j)
    <3> DEFINE job == Batch(run.id, run.crew)
    <3>1. job.pc = "record" /\ jobs' = [jobs EXCEPT ![j] = job]
      BY <2>6 DEF Batch, ClaimRtl
    <3> HIDE DEF job
    <3> QED
      BY <1>1, <3>1
  <2>7. CASE Settle(j) \/ \E ok \in BOOLEAN : Record(j, ok)
    <3>1. IdleJob.pc = "idle"
      BY DEF IdleJob
    <3> QED
      BY <1>1, <2>7, <3>1 DEF Settle, Record, JobType
  <2>8. CASE \/ SendReturns(j) \/ Ask(j) \/ \E ok \in BOOLEAN : Save(j, ok)
             \/ ClaimNothing(j) \/ ClaimSuppressed(j)
             \/ \E acc \in BOOLEAN : ClaimSwarm(j, acc)
    <3>1. IdleJob.pc = "idle" /\ AskingJob.pc = "ask"
      BY DEF IdleJob, AskingJob
    <3> QED
      BY <1>1, <2>8, <3>1
      DEF SendReturns, Ask, Save, ClaimNothing, ClaimSuppressed, ClaimSwarm, JobType
  <2> QED
    BY <1>2, <2>1, <2>2, <2>3, <2>4, <2>5, <2>6, <2>7, <2>8, <2>9
    DEF JobStep
<1>3. CASE ~JobStep(j) /\ jobs[j].pc # "idle"
  <2>1. /\ jobs'[j].pc = jobs[j].pc /\ jobs'[j].todo = jobs[j].todo
        /\ jobs'[j].target = jobs[j].target
    BY <1>3, JobOutside DEF Untouched
  <2> QED
    BY <2>1 DEF Served
<1>4. CASE ~JobStep(j) /\ jobs[j].pc = "idle"
  BY <1>4, JobOutside DEF Untouched
<1> QED
  BY <1>2, <1>3, <1>4

LEMMA InitServed == Init => Served
BY DEF Init, IdleJob, NoSeq, Served

LEMMA NextServed == Inv /\ Served /\ [Next]_vars => Served'
<1> SUFFICES ASSUME Inv, Served, [Next]_vars PROVE Served'
  OBVIOUS
<1> QED
  BY SeqServes, JobServes DEF Served

\* Each step of a goroutine, or of the sequence, brings it nearer to its end, and
\* nothing that happens meanwhile sets it back (runClaimed, returnSeq).
THEOREM EveryStepNearerHome == Spec => NearerHome
<1>1. ASSUME Inv, Served, [Next]_vars
      PROVE  /\ \A j \in Callers : jobs[j].pc # "idle" => JobLeft(j)' <= JobLeft(j)
             /\ \A j \in Callers : JobStep(j) => JobLeft(j)' < JobLeft(j)
             /\ seq.phase # "off" => SeqLeft' <= SeqLeft
             /\ SeqStep => SeqLeft' < SeqLeft
  <2>1. ASSUME NEW j \in Callers, jobs[j].pc # "idle"
        PROVE  JobLeft(j)' <= JobLeft(j)
    <3>1. CASE JobStep(j)
      BY <1>1, <3>1, JobIsNearer
    <3>2. CASE ~JobStep(j)
      <4>1. JobLeft(j) \in Nat
        BY <1>1, JobCounted
      <4> QED
        BY <1>1, <2>1, <3>2, <4>1, JobIsLeft
    <3> QED
      BY <3>1, <3>2
  <2>2. ASSUME seq.phase # "off" PROVE SeqLeft' <= SeqLeft
    <3>1. CASE SeqStep
      BY <1>1, <3>1, SeqIsNearer
    <3>2. CASE ~SeqStep
      <4>1. SeqLeft \in Int
        BY <1>1, SeqCounted
      <4> QED
        BY <1>1, <2>2, <3>2, <4>1, SeqIsLeft
    <3> QED
      BY <3>1, <3>2
  <2> QED
    BY <1>1, <2>1, <2>2, JobIsNearer, SeqIsNearer
<1>2. Inv /\ Served /\ [Next]_vars =>
      [/\ \A j \in Callers : jobs[j].pc # "idle" => JobLeft(j)' <= JobLeft(j)
       /\ \A j \in Callers : JobStep(j) => JobLeft(j)' < JobLeft(j)
       /\ seq.phase # "off" => SeqLeft' <= SeqLeft
       /\ SeqStep => SeqLeft' < SeqLeft]_vars
  BY <1>1
<1>3. Spec => [](Inv /\ Served)
  BY InitInv, NextInv, InitServed, NextServed, PTL DEF Spec
<1> QED
  BY <1>2, <1>3, PTL DEF Spec, NearerHome
=============================================================================
