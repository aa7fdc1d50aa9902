------------------------------ MODULE FlightLedger ------------------------------
(***************************************************************************)
(* What Core promises about flying, across retries, failed saves, crashes  *)
(* and restarts (docs/MISSION_CORE_CUTOVER_CONTRACT.md): a ledger to which *)
(* each claim of a mission send adds an entry.  A run flies for one        *)
(* operation and in one Core process, an ended run never flies again, and  *)
(* while a run is open nothing else flies.                                 *)
(*                                                                         *)
(* An entry names the run whose record was found durable before the claim. *)
(* If that is not the run that flies, it had ended and was an older one:   *)
(* the only way in which a run flies before its own record is safe.        *)
(***************************************************************************)
EXTENDS Naturals

CONSTANTS Runs, Operations

VARIABLES
    process,  \* the Core process
    log,      \* who flew
    closed    \* runs that ended, or were acknowledged, in view of the operator

vars == <<process, log, closed>>

Entry == [id: Runs, op: Operations, session: Nat, checked: Runs]

Vouched(e) == e.checked = e.id

\* The runs that flew on their own record and still may be flying.
OpenRuns == {e.id : e \in {f \in log : Vouched(f) /\ f.id \notin closed}}

Init == process = 1 /\ log = {} /\ closed = {}

Fly(e) ==
    /\ e.session = process
    /\ e.id \notin closed
    /\ OpenRuns \subseteq {e.id}
    /\ \A f \in log : f.id = e.id => f.op = e.op /\ f.session = e.session
    /\ \A f \in log : Vouched(f) => f.id <= e.id
    /\ IF Vouched(e) THEN \A f \in log : Vouched(f) /\ f.op = e.op => f.id = e.id
                     ELSE e.checked < e.id /\ e.checked \in closed
    /\ log' = log \cup {e}
    /\ UNCHANGED <<process, closed>>

\* No run ends behind the back of one that is open.
Close(id) ==
    /\ OpenRuns \subseteq {id}
    /\ closed' = closed \cup {id}
    /\ UNCHANGED <<process, log>>

\* Nothing flies or ends by it.
Restart == process' = process + 1 /\ UNCHANGED <<log, closed>>

Next ==
    \/ Restart
    \/ \E id \in Runs : Close(id)
    \/ \E e \in log' : e \in Entry /\ Fly(e)

Spec == Init /\ [][Next]_vars
=============================================================================
