--------------------------- MODULE MissionPersistence ---------------------------
(***************************************************************************)
(* The durable record of the last mission run (internal/api, store and the *)
(* persistence half of internal/mission): how a run is started under an    *)
(* operation id, saved at each revision, trusted by the dispatcher, and    *)
(* recovered after a crash.                                                *)
(*                                                                         *)
(* StartMission is three steps (look the operation up, allocate an id,     *)
(* start the run under the ownership lock); saving is two (capture the     *)
(* record under Engine.mu, write it under missionPersistMu) and a third    *)
(* when the write failed; dispatch is a save, a durability check and a     *)
(* claim under the ownership lock.  Other goroutines run between the       *)
(* steps.  A store transaction is atomic; it may fail, and its commit may  *)
(* succeed although an error is reported.  Records are intact when read    *)
(* back, every run has an operation id, and the only state of a run kept   *)
(* here is whether it is active, its revision and its recovery flag.       *)
(*                                                                         *)
(* "Deviation" marks a definition that is the one after it with a          *)
(* plausible mistake.                                                      *)
(***************************************************************************)
EXTENDS Naturals, FiniteSets

CONSTANTS
    Ops,         \* operation ids of StartMission requests
    NoOp,        \* no operation
    MaxRun,      \* bound on allocated run ids
    MaxRev,      \* bound on the revisions progress may reach
    MaxSession,  \* bound on Core processes
    MaxCalls     \* bound on StartMission calls, and on saves, in progress

VARIABLES
    run,        \* Engine.run, id 0 if nil
    nextRunID,  \* Engine.nextRunID
    db,         \* the store: last record, run sequence, operation table
    persisted,  \* missionPersistedRunID and missionPersistedRevision
    calls,      \* StartMission calls in progress
    saves,      \* persistMissionState calls in progress
    session,    \* the Core process
    flown,      \* history: the claims that led to a flight command
    settled     \* history: runs that ended, or were acknowledged, in view

vars == <<run, nextRunID, db, persisted, calls, saves, session, flown, settled>>

ASSUME OpAssumption == NoOp \notin Ops
ASSUME BoundAssumption ==
    {MaxRun, MaxRev, MaxSession, MaxCalls} \subseteq Nat

NoRecord == [id |-> 0, op |-> NoOp, rev |-> 0, active |-> FALSE, recovery |-> FALSE]

Older(a, b) == a.id < b.id \/ (a.id = b.id /\ a.rev < b.rev)

Key(r) == [id |-> r.id, rev |-> r.rev]

-----------------------------------------------------------------------------
(* StartMission                                                            *)

LookupOperation(op) ==
    /\ Cardinality(calls) < MaxCalls
    /\ op \notin DOMAIN db.ops
    /\ calls' = calls \cup {[op |-> op, id |-> 0]}
    /\ UNCHANGED <<run, nextRunID, db, persisted, saves, session, flown, settled>>

AllocateRunID(c) ==
    /\ c.id = 0
    /\ db.sequence < MaxRun
    /\ db' = [db EXCEPT !.sequence = @ + 1]
    /\ calls' = (calls \ {c}) \cup {[c EXCEPT !.id = db.sequence + 1]}
    /\ UNCHANGED <<run, nextRunID, persisted, saves, session, flown, settled>>

\* startOpLocked; a refused or idempotent call changes nothing and ends.
CanStart(c) ==
    /\ ~run.recovery
    /\ ~run.active
    /\ run.op # c.op
    /\ c.id > nextRunID

StartOp(c) ==
    /\ c.id # 0
    /\ calls' = calls \ {c}
    /\ IF CanStart(c)
       THEN /\ run' = [id |-> c.id, op |-> c.op, rev |-> 1, active |-> TRUE,
                       recovery |-> FALSE]
            /\ nextRunID' = c.id
       ELSE UNCHANGED <<run, nextRunID>>
    /\ UNCHANGED <<db, persisted, saves, session, flown, settled>>

-----------------------------------------------------------------------------
(* The run moves on                                                        *)

Progress ==
    /\ run.active
    /\ run.rev < MaxRev
    /\ run' = [run EXCEPT !.rev = @ + 1]
    /\ UNCHANGED <<nextRunID, db, persisted, calls, saves, session, flown, settled>>

Ended(r) == [r EXCEPT !.active = FALSE, !.rev = @ + 1]

\* Completion, cancel, takeover, failsafe, failure.
End ==
    /\ run.active
    /\ run' = Ended(run)
    /\ settled' = settled \cup {run.id}
    /\ UNCHANGED <<nextRunID, db, persisted, calls, saves, session, flown>>

\* CancelMission of a run that waits for recovery.
ClearRecovery ==
    /\ run.recovery
    /\ run' = [run EXCEPT !.recovery = FALSE, !.rev = @ + 1]
    /\ settled' = settled \cup {run.id}
    /\ UNCHANGED <<nextRunID, db, persisted, calls, saves, session, flown>>

-----------------------------------------------------------------------------
(* persistMissionState                                                     *)

Capture ==
    /\ run.id # 0
    /\ Cardinality(saves) < MaxCalls
    /\ saves' = saves \cup {[rec |-> run, stage |-> "captured", checked |-> 0]}
    /\ UNCHANGED <<run, nextRunID, db, persisted, calls, session, flown, settled>>

At(w, stage) == (saves \ {w}) \cup {[w EXCEPT !.stage = stage]}

\* Deviation: only an older run is refused, not an older revision.
RefusedByRun(rec) ==
    \/ rec.id < db.record.id
    \/ Key(rec) # Key(db.record) /\ rec.op \in DOMAIN db.ops /\ db.ops[rec.op] # rec.id

\* Deviation: the operation table is not compared.
RefusedByAge(rec) == Older(rec, db.record)

\* SaveMissionRecord refuses older evidence and a second run of an operation.
Refused(rec) ==
    \/ Older(rec, db.record)
    \/ Key(rec) # Key(db.record) /\ rec.op \in DOMAIN db.ops /\ db.ops[rec.op] # rec.id

Written(rec) ==
    [record |-> rec,
     sequence |-> IF db.sequence < rec.id THEN rec.id ELSE db.sequence,
     ops |-> [op \in DOMAIN db.ops \cup {rec.op} |->
                 IF op \in DOMAIN db.ops THEN db.ops[op] ELSE rec.id]]

\* The save of missionDurableForDispatch goes on to the check.
SaveOk(w, forDispatch) ==
    /\ w.stage = "captured"
    /\ IF Key(w.rec) = persisted
       THEN UNCHANGED <<db, persisted>>
       ELSE /\ ~Refused(w.rec)
            /\ db' = IF Key(w.rec) = Key(db.record) THEN db ELSE Written(w.rec)
            /\ persisted' = Key(w.rec)
    /\ saves' = IF forDispatch THEN At(w, "saved") ELSE saves \ {w}
    /\ UNCHANGED <<run, nextRunID, calls, session, flown, settled>>

\* Deviation: the revision counts as persisted before the error is looked at.
SaveErrorTrusted(w, committed, failActive) ==
    /\ w.stage = "captured"
    /\ Key(w.rec) # persisted
    /\ db' = IF committed /\ ~Refused(w.rec) /\ Key(w.rec) # Key(db.record)
             THEN Written(w.rec) ELSE db
    /\ persisted' = Key(w.rec)
    /\ saves' = IF failActive THEN At(w, "faulting") ELSE saves \ {w}
    /\ UNCHANGED <<run, nextRunID, calls, session, flown, settled>>

\* A refusal, a failed transaction, or an error although it was committed.
\* Only persistMissionState(true) goes on to fail the run.
SaveError(w, committed, failActive) ==
    /\ w.stage = "captured"
    /\ Key(w.rec) # persisted
    /\ db' = IF committed /\ ~Refused(w.rec) /\ Key(w.rec) # Key(db.record)
             THEN Written(w.rec) ELSE db
    /\ saves' = IF failActive THEN At(w, "faulting") ELSE saves \ {w}
    /\ UNCHANGED <<run, nextRunID, persisted, calls, session, flown, settled>>

\* The run is interrupted only if it still is at the revision not saved.
PersistenceFault(w) ==
    /\ w.stage = "faulting"
    /\ saves' = saves \ {w}
    /\ IF run.active /\ Key(run) = Key(w.rec)
       THEN run' = Ended(run) /\ settled' = settled \cup {run.id}
       ELSE UNCHANGED <<run, settled>>
    /\ UNCHANGED <<nextRunID, db, persisted, calls, session, flown>>

-----------------------------------------------------------------------------
(* dispatchMissionAuthority                                                *)

IsDurable == run.active /\ Key(run) = persisted

CheckDurable(w) ==
    /\ w.stage = "saved"
    /\ saves' = IF IsDurable
                THEN (saves \ {w}) \cup {[w EXCEPT !.stage = "clear", !.checked = run.id]}
                ELSE saves \ {w}
    /\ UNCHANGED <<run, nextRunID, db, persisted, calls, session, flown, settled>>

\* claimMissionSendLocked claims from whatever run is current by now.
Claim(w) ==
    /\ w.stage = "clear"
    /\ saves' = saves \ {w}
    /\ flown' = IF run.active
                THEN flown \cup {[id |-> run.id, op |-> run.op, session |-> session,
                                  checked |-> w.checked]}
                ELSE flown
    /\ UNCHANGED <<run, nextRunID, db, persisted, calls, session, settled>>

-----------------------------------------------------------------------------
(* Crash and restart                                                       *)

\* Deviation: the run is restored as it was recorded.
RestoredActive(rec) == rec

\* Deviation: an unfinished run is ended without asking for recovery.
RestoredEnded(rec) ==
    IF rec.active THEN [rec EXCEPT !.active = FALSE, !.rev = @ + 1] ELSE rec

\* RestoreDurableMission: an unfinished run comes back interrupted, waiting
\* for the operator; a finished one comes back as it was.
Restored(rec) ==
    IF rec.active
    THEN [rec EXCEPT !.active = FALSE, !.recovery = TRUE, !.rev = @ + 1]
    ELSE rec

\* Everything in memory is lost.  restoreDurableMission saves a conversion
\* before the server listens, and goes on if that save fails.
CrashRestart(saved) ==
    /\ session < MaxSession
    /\ session' = session + 1
    /\ calls' = {}
    /\ saves' = {}
    /\ run' = Restored(db.record)
    /\ nextRunID' = db.record.id
    /\ IF saved /\ run' # db.record
       THEN db' = Written(run') /\ persisted' = Key(run')
       ELSE db' = db /\ persisted' = Key(db.record)
    /\ UNCHANGED <<flown, settled>>

-----------------------------------------------------------------------------

Init ==
    /\ run = NoRecord
    /\ nextRunID = 0
    /\ db = [record |-> NoRecord, sequence |-> 0, ops |-> [op \in {} |-> 0]]
    /\ persisted = Key(NoRecord)
    /\ calls = {}
    /\ saves = {}
    /\ session = 1
    /\ flown = {}
    /\ settled = {}

Next ==
    \/ \E op \in Ops : LookupOperation(op)
    \/ \E c \in calls : AllocateRunID(c)
    \/ \E c \in calls : StartOp(c)
    \/ Progress
    \/ End
    \/ ClearRecovery
    \/ Capture
    \/ \E w \in saves, forDispatch \in BOOLEAN : SaveOk(w, forDispatch)
    \/ \E w \in saves, committed, failActive \in BOOLEAN :
          SaveError(w, committed, failActive)
    \/ \E w \in saves : PersistenceFault(w)
    \/ \E w \in saves : CheckDurable(w)
    \/ \E w \in saves : Claim(w)
    \/ \E saved \in BOOLEAN : CrashRestart(saved)

Spec == Init /\ [][Next]_vars

-----------------------------------------------------------------------------
(* Properties                                                              *)

RecordType ==
    [id: Nat, op: Ops \cup {NoOp}, rev: Nat, active: BOOLEAN, recovery: BOOLEAN]

\* Every variable has its type.
TypeOK ==
    /\ run \in RecordType
    /\ nextRunID \in Nat
    /\ db.record \in RecordType
    /\ db.sequence \in Nat
    /\ DOMAIN db.ops \subseteq Ops /\ \A op \in DOMAIN db.ops : db.ops[op] \in Nat
    /\ persisted \in [id: Nat, rev: Nat]
    /\ calls \subseteq [op: Ops, id: Nat]
    /\ saves \subseteq [rec: RecordType, checked: Nat,
                        stage: {"captured", "saved", "faulting", "clear"}]
    /\ session \in Nat
    /\ flown \subseteq [id: Nat, op: Ops, session: Nat, checked: Nat]
    /\ settled \subseteq Nat

\* A claim made by the run whose record the dispatcher found durable.
Vouched(m) == m.checked = m.id

\* The stored evidence never goes back to an older run or revision, whatever
\* the order in which captured records reach the store.
StoreMonotonic == [][~Older(db'.record, db.record)]_vars

\* What the dispatcher trusts is really in the store, or newer evidence is.
PersistedIsStored ==
    persisted.id # 0 => db.record.id # 0 /\ ~Older(db.record, persisted)

\* A run that flew is not forgotten: until it ends in view of the operator, or
\* the operator acknowledges it, it is the current run, active or waiting for
\* recovery, however often Core crashes and whatever saves fail.
NeverForgotten ==
    \A m \in flown : Vouched(m) /\ m.id \notin settled =>
        run.id = m.id /\ (run.active \/ run.recovery)

\* One operation flies at most one run, across retries, races between calls
\* and restarts.
OperationFliesOnce ==
    \A m, n \in flown :
        Vouched(m) /\ Vouched(n) /\ m.op = n.op => m.id = n.id

\* Nothing flies in a process that did not accept the run itself: a restart
\* never resumes a mission.
NoAutoResume ==
    \A m, n \in flown : m.id = n.id => m.session = n.session

\* Each claim is of the run whose record was found durable before it.
DispatchIsDurable == \A m \in flown : Vouched(m)

-----------------------------------------------------------------------------
(* Core keeps the flight ledger                                            *)

Ledger == INSTANCE FlightLedger
    WITH Runs <- 1..MaxRun, Operations <- Ops,
         process <- session, log <- flown, closed <- settled

\* Each step, a crash included, is a step the ledger allows, or leaves it alone.
LedgerKept == Ledger!Spec

=============================================================================
