----------------------- MODULE MissionPersistenceProofs -----------------------
(***************************************************************************)
(* Theorems about MissionPersistence, for any operations and bounds.       *)
(***************************************************************************)
EXTENDS MissionPersistence, TLAPS

-----------------------------------------------------------------------------
(* Type correctness                                                        *)

\* A run has an operation id, and so has every record of one.
Named(r) == r.id # 0 \/ r.active => r.op \in Ops

\* The store is the record of its three parts.
StoreTyped(s) ==
    /\ s = [record |-> s.record, sequence |-> s.sequence, ops |-> s.ops]
    /\ s.record \in RecordType /\ Named(s.record)
    /\ s.sequence \in Nat
    /\ DOMAIN s.ops \subseteq Ops /\ \A op \in DOMAIN s.ops : s.ops[op] \in Nat

SaveType ==
    [rec: RecordType, checked: Nat,
     stage: {"captured", "saved", "faulting", "clear"}]

SavesTyped(S) == S \subseteq SaveType /\ \A w \in S : w.rec.op \in Ops

TypeInv ==
    /\ run \in RecordType /\ Named(run)
    /\ StoreTyped(db)
    /\ SavesTyped(saves)
    /\ calls \subseteq [op: Ops, id: Nat]
    /\ nextRunID \in Nat
    /\ persisted \in [id: Nat, rev: Nat]
    /\ session \in Nat
    /\ settled \subseteq Nat
    /\ flown \subseteq [id: Nat, op: Ops, session: Nat, checked: Nat]

\* A run that ends, and one that is restored, keeps its type and its name.
LEMMA EndedTyped ==
    ASSUME NEW r \in RecordType, Named(r)
    PROVE  Ended(r) \in RecordType /\ Named(Ended(r))
<1>0. r.rev + 1 \in Nat
  BY DEF RecordType
<1>1. Ended(r) \in RecordType
  BY <1>0 DEF Ended, RecordType
<1>2. Ended(r).id = r.id /\ Ended(r).op = r.op /\ ~Ended(r).active
  BY DEF Ended, RecordType
<1> QED BY <1>1, <1>2 DEF Named

LEMMA RestoredTyped ==
    ASSUME NEW r \in RecordType, Named(r)
    PROVE  /\ Restored(r) \in RecordType /\ Named(Restored(r))
           /\ Restored(r) # r => r.active /\ Restored(r).op \in Ops
           /\ Restored(r).id = r.id /\ Restored(r).rev \in {r.rev, r.rev + 1}
<1>1. CASE r.active
  <2> DEFINE q == [r EXCEPT !.active = FALSE, !.recovery = TRUE, !.rev = @ + 1]
  <2>0. r.rev + 1 \in Nat
    BY DEF RecordType
  <2>1. q \in RecordType
    BY <2>0 DEF RecordType
  <2>2. q.id = r.id /\ q.op = r.op /\ q.rev = r.rev + 1 /\ ~q.active
    BY DEF RecordType
  <2>3. Restored(r) = q
    BY <1>1 DEF Restored
  <2> HIDE DEF q
  <2> QED BY <1>1, <2>1, <2>2, <2>3 DEF Named
<1>2. CASE ~r.active
  BY <1>2 DEF Restored
<1> QED BY <1>1, <1>2

LEMMA KeyTyped ==
    ASSUME NEW r \in RecordType PROVE Key(r) \in [id: Nat, rev: Nat]
  BY DEF Key, RecordType

\* What a save leaves in the store.
LEMMA WrittenTyped ==
    ASSUME TypeInv, NEW r \in RecordType, r.op \in Ops
    PROVE  StoreTyped(Written(r)) /\ Written(r).record = r
<1> DEFINE s == Written(r)
<1>1. /\ s.record = r
      /\ s.sequence = IF db.sequence < r.id THEN r.id ELSE db.sequence
      /\ s.ops = [op \in DOMAIN db.ops \cup {r.op} |->
                     IF op \in DOMAIN db.ops THEN db.ops[op] ELSE r.id]
      /\ s = [record |-> s.record, sequence |-> s.sequence, ops |-> s.ops]
  BY DEF Written
<1>2. r.id \in Nat /\ db.sequence \in Nat /\ DOMAIN db.ops \subseteq Ops
      /\ \A op \in DOMAIN db.ops : db.ops[op] \in Nat
  BY DEF TypeInv, StoreTyped, RecordType
<1> HIDE DEF s
<1>3. s.sequence \in Nat /\ DOMAIN s.ops \subseteq Ops
      /\ \A op \in DOMAIN s.ops : s.ops[op] \in Nat
  BY <1>1, <1>2
<1>4. StoreTyped(s) /\ s.record = r
  BY <1>1, <1>3 DEF StoreTyped, Named
<1> QED BY <1>4 DEF s

LEMMA TypeInit == Init => TypeInv
  BY DEF Init, TypeInv, StoreTyped, SavesTyped, Named, NoRecord, RecordType, Key

\* Every step keeps the types.
LEMMA TypeStep == TypeInv /\ [Next]_vars => TypeInv'
<1> SUFFICES ASSUME TypeInv, [Next]_vars PROVE TypeInv'
  OBVIOUS
<1>1. ASSUME NEW w \in saves, NEW st \in {"saved", "faulting"}, saves' = At(w, st)
      PROVE  SavesTyped(saves')
  <2>1. w \in SaveType /\ w.rec.op \in Ops
    BY DEF TypeInv, SavesTyped
  <2>2. [w EXCEPT !.stage = st] \in SaveType /\ [w EXCEPT !.stage = st].rec = w.rec
    BY <2>1 DEF SaveType
  <2> QED BY <1>1, <2>1, <2>2 DEF At, TypeInv, SavesTyped
<1>2. ASSUME NEW S, S \subseteq saves PROVE SavesTyped(S)
  BY <1>2 DEF TypeInv, SavesTyped
<1>3. run.id \in Nat /\ run.rev \in Nat /\ db.record \in RecordType /\ Named(db.record)
  BY DEF TypeInv, RecordType, StoreTyped
<1>4. ASSUME NEW op \in Ops, LookupOperation(op) PROVE TypeInv'
  BY <1>4 DEF LookupOperation, TypeInv, Named
<1>5. ASSUME NEW c \in calls, AllocateRunID(c) PROVE TypeInv'
  <2>1. db.sequence + 1 \in Nat /\ c \in [op: Ops, id: Nat]
    BY DEF TypeInv, StoreTyped
  <2>2. StoreTyped(db')
    BY <1>5, <2>1 DEF AllocateRunID, TypeInv, StoreTyped
  <2>3. calls' \subseteq [op: Ops, id: Nat]
    BY <1>5, <2>1 DEF AllocateRunID, TypeInv
  <2> QED BY <1>5, <2>2, <2>3 DEF AllocateRunID, TypeInv, Named
<1>6. ASSUME NEW c \in calls, StartOp(c) PROVE TypeInv'
  <2>1. c \in [op: Ops, id: Nat]
    BY DEF TypeInv
  <2>2. run' \in RecordType /\ Named(run') /\ nextRunID' \in Nat
    <3> DEFINE r == [id |-> c.id, op |-> c.op, rev |-> 1, active |-> TRUE,
                     recovery |-> FALSE]
    <3>1. r \in RecordType /\ Named(r)
      BY <2>1 DEF RecordType, Named
    <3>2. \/ run' = r /\ nextRunID' = c.id
          \/ UNCHANGED <<run, nextRunID>>
      BY <1>6 DEF StartOp
    <3> HIDE DEF r
    <3> QED BY <2>1, <3>1, <3>2 DEF TypeInv, Named
  <2> QED BY <1>6, <2>2 DEF StartOp, TypeInv
<1>7. CASE Progress
  <2>1. run' \in RecordType /\ Named(run')
    BY <1>7 DEF Progress, TypeInv, RecordType, Named
  <2> QED BY <1>7, <2>1 DEF Progress, TypeInv
<1>8. CASE End
  <2>1. run' \in RecordType /\ Named(run')
    BY <1>8, EndedTyped DEF End, TypeInv
  <2> QED BY <1>3, <1>8, <2>1 DEF End, TypeInv
<1>9. CASE ClearRecovery
  <2>0. run.rev + 1 \in Nat /\ run \in RecordType /\ Named(run)
    BY <1>3 DEF TypeInv
  <2>1. run' \in RecordType
    BY <1>9, <2>0 DEF ClearRecovery, RecordType
  <2>2. Named(run')
    BY <1>9, <2>0 DEF ClearRecovery, RecordType, Named
  <2> QED BY <1>3, <1>9, <2>1, <2>2 DEF ClearRecovery, TypeInv
<1>10. CASE Capture
  <2> DEFINE w == [rec |-> run, stage |-> "captured", checked |-> 0]
  <2>1. w \in SaveType /\ w.rec.op \in Ops
    BY <1>10 DEF Capture, TypeInv, Named, SaveType
  <2> HIDE DEF w
  <2>2. SavesTyped(saves')
    BY <1>10, <2>1 DEF Capture, TypeInv, SavesTyped, w
  <2> QED BY <1>10, <2>2 DEF Capture, TypeInv, Named
<1>11. ASSUME NEW w \in saves, NEW forDispatch \in BOOLEAN, SaveOk(w, forDispatch)
       PROVE  TypeInv'
  <2>1. w.rec \in RecordType /\ w.rec.op \in Ops
    BY DEF TypeInv, SavesTyped, SaveType
  <2>2. StoreTyped(db') /\ persisted' \in [id: Nat, rev: Nat]
    BY <1>11, <2>1, WrittenTyped, KeyTyped DEF SaveOk, TypeInv
  <2>3. SavesTyped(saves')
    BY <1>1, <1>2, <1>11 DEF SaveOk
  <2> QED BY <1>11, <2>2, <2>3 DEF SaveOk, TypeInv, Named
<1>12. ASSUME NEW w \in saves, NEW committed \in BOOLEAN, NEW failActive \in BOOLEAN,
              SaveError(w, committed, failActive)
       PROVE  TypeInv'
  <2>1. w.rec \in RecordType /\ w.rec.op \in Ops
    BY DEF TypeInv, SavesTyped, SaveType
  <2>2. StoreTyped(db')
    BY <1>12, <2>1, WrittenTyped DEF SaveError, TypeInv
  <2>3. SavesTyped(saves')
    BY <1>1, <1>2, <1>12 DEF SaveError
  <2> QED BY <1>12, <2>2, <2>3 DEF SaveError, TypeInv, Named
<1>13. ASSUME NEW w \in saves, PersistenceFault(w) PROVE TypeInv'
  <2>1. run' \in RecordType /\ Named(run') /\ settled' \subseteq Nat
    BY <1>3, <1>13, EndedTyped DEF PersistenceFault, TypeInv
  <2>2. SavesTyped(saves')
    BY <1>2, <1>13 DEF PersistenceFault
  <2> QED BY <1>13, <2>1, <2>2 DEF PersistenceFault, TypeInv
<1>14. ASSUME NEW w \in saves, CheckDurable(w) PROVE TypeInv'
  <2> DEFINE v == [w EXCEPT !.stage = "clear", !.checked = run.id]
  <2>1. w \in SaveType /\ w.rec.op \in Ops
    BY DEF TypeInv, SavesTyped
  <2>2. v \in SaveType /\ v.rec = w.rec
    BY <1>3, <2>1 DEF SaveType
  <2>3. saves' \subseteq saves \cup {v}
    BY <1>14 DEF CheckDurable
  <2> HIDE DEF v
  <2>4. SavesTyped(saves')
    BY <2>1, <2>2, <2>3 DEF TypeInv, SavesTyped
  <2> QED BY <1>14, <2>4 DEF CheckDurable, TypeInv, Named
<1>15. ASSUME NEW w \in saves, Claim(w) PROVE TypeInv'
  <2>1. (run.active => run.op \in Ops) /\ w.checked \in Nat
    BY DEF TypeInv, Named, SavesTyped, SaveType
  <2>2. flown' \subseteq [id: Nat, op: Ops, session: Nat, checked: Nat]
    BY <1>3, <1>15, <2>1 DEF Claim, TypeInv
  <2>3. SavesTyped(saves')
    BY <1>2, <1>15 DEF Claim
  <2> QED BY <1>15, <2>2, <2>3 DEF Claim, TypeInv, Named
<1>16. ASSUME NEW saved \in BOOLEAN, CrashRestart(saved) PROVE TypeInv'
  <2>1. /\ run' = Restored(db.record) /\ run' \in RecordType /\ Named(run')
        /\ run' # db.record => run'.op \in Ops
    BY <1>3, <1>16, RestoredTyped DEF CrashRestart
  <2>2. StoreTyped(db') /\ persisted' \in [id: Nat, rev: Nat]
    BY <1>3, <1>16, <2>1, WrittenTyped, KeyTyped DEF CrashRestart, TypeInv
  <2>3. nextRunID' \in Nat /\ session' \in Nat
    BY <1>3, <1>16 DEF CrashRestart, RecordType, TypeInv
  <2>4. SavesTyped(saves')
    BY <1>2, <1>16 DEF CrashRestart
  <2> QED BY <1>16, <2>1, <2>2, <2>3, <2>4 DEF CrashRestart, TypeInv
<1>17. CASE UNCHANGED vars
  BY <1>17 DEF vars, TypeInv, Named
<1> QED
  BY <1>4, <1>5, <1>6, <1>7, <1>8, <1>9, <1>10, <1>11, <1>12, <1>13, <1>14,
     <1>15, <1>16, <1>17 DEF Next

\* In every reachable state each variable has its type.
THEOREM TypeCorrect == Spec => []TypeOK
<1>1. TypeInv => TypeOK
  BY DEF TypeInv, TypeOK, StoreTyped, SavesTyped, SaveType
<1> QED BY <1>1, TypeInit, TypeStep, PTL DEF Spec

-----------------------------------------------------------------------------
(* The store only moves forward, and what is trusted is in it              *)

\* What a save of a record that is not refused does to the store.
LEMMA WrittenForward ==
    ASSUME TypeInv, NEW r \in RecordType, ~Refused(r)
    PROVE  ~Older(r, db.record) /\ Written(r).record = r
<1>1. ~Older(r, db.record)
  BY DEF Refused
<1>2. Written(r).record = r
  BY DEF Written
<1> QED BY <1>1, <1>2

\* Every step leaves the stored record or puts one there that is not older.
LEMMA StoreForward ==
    ASSUME TypeInv, [Next]_vars
    PROVE  /\ db'.record \in RecordType /\ db.record \in RecordType
           /\ ~Older(db'.record, db.record)
<1>1. db.record \in RecordType /\ db'.record \in RecordType
  BY TypeStep DEF TypeInv, StoreTyped
<1>2. db.record.id \in Nat /\ db.record.rev \in Nat
  BY <1>1 DEF RecordType
<1>3. ASSUME db'.record = db.record PROVE ~Older(db'.record, db.record)
  BY <1>2, <1>3 DEF Older
<1>4. ASSUME NEW w \in saves, ~Refused(w.rec), db' = Written(w.rec)
      PROVE  ~Older(db'.record, db.record)
  BY <1>4, WrittenForward DEF TypeInv, SavesTyped, SaveType
<1>5. ASSUME NEW c \in calls, AllocateRunID(c) PROVE db'.record = db.record
  BY <1>5 DEF AllocateRunID, TypeInv, StoreTyped
<1>6. ASSUME NEW w \in saves, NEW b \in BOOLEAN, SaveOk(w, b)
      PROVE  ~Older(db'.record, db.record)
  BY <1>3, <1>4, <1>6 DEF SaveOk
<1>7. ASSUME NEW w \in saves, NEW b \in BOOLEAN, NEW f \in BOOLEAN, SaveError(w, b, f)
      PROVE  ~Older(db'.record, db.record)
  BY <1>3, <1>4, <1>7 DEF SaveError
<1>8. ASSUME NEW b \in BOOLEAN, CrashRestart(b) PROVE ~Older(db'.record, db.record)
  <2>1. \/ db' = db
        \/ db'.record = Restored(db.record)
    BY <1>8 DEF CrashRestart, Written
  <2>2. Restored(db.record).id = db.record.id
        /\ Restored(db.record).rev \in {db.record.rev, db.record.rev + 1}
    BY RestoredTyped DEF TypeInv, StoreTyped
  <2> QED BY <1>2, <1>3, <2>1, <2>2 DEF Older
<1>9. ASSUME NEW op \in Ops, LookupOperation(op) PROVE db' = db
  BY <1>9 DEF LookupOperation
<1>10. ASSUME NEW c \in calls, StartOp(c) PROVE db' = db
  BY <1>10 DEF StartOp
<1>11. ASSUME Progress \/ End \/ ClearRecovery \/ Capture \/ UNCHANGED vars
       PROVE  db' = db
  BY <1>11 DEF Progress, End, ClearRecovery, Capture, vars
<1>12. ASSUME NEW w \in saves, PersistenceFault(w) \/ CheckDurable(w) \/ Claim(w)
       PROVE  db' = db
  BY <1>12 DEF PersistenceFault, CheckDurable, Claim
<1>13. ~Older(db'.record, db.record)
  BY <1>3, <1>5, <1>6, <1>7, <1>8, <1>9, <1>10, <1>11, <1>12 DEF Next
<1> QED BY <1>1, <1>13

\* However saves and crashes interleave, stored evidence is never replaced by
\* an older run or revision.
THEOREM EvidenceMovesForward == Spec => StoreMonotonic
<1>1. TypeInv /\ [Next]_vars => [~Older(db'.record, db.record)]_vars
  BY StoreForward
<1> QED BY <1>1, TypeInit, TypeStep, PTL DEF Spec, StoreMonotonic

\* Only a successful save and a restart change what is trusted, and both trust
\* what the store then holds.
LEMMA TrustStep ==
    ASSUME TypeInv, [Next]_vars
    PROVE  persisted' = persisted \/ persisted' = Key(db'.record)
<1>1. ASSUME NEW w \in saves, NEW b \in BOOLEAN, SaveOk(w, b)
      PROVE  persisted' = persisted \/ persisted' = Key(db'.record)
  BY <1>1 DEF SaveOk, Written
<1>2. ASSUME NEW b \in BOOLEAN, CrashRestart(b) PROVE persisted' = Key(db'.record)
  BY <1>2 DEF CrashRestart, Written
<1>3. ASSUME NEW w \in saves, NEW b \in BOOLEAN, NEW f \in BOOLEAN, SaveError(w, b, f)
      PROVE  persisted' = persisted
  BY <1>3 DEF SaveError
<1>4. ASSUME NEW op \in Ops, LookupOperation(op) PROVE persisted' = persisted
  BY <1>4 DEF LookupOperation
<1>5. ASSUME NEW c \in calls, AllocateRunID(c) \/ StartOp(c)
      PROVE  persisted' = persisted
  BY <1>5 DEF AllocateRunID, StartOp
<1>6. ASSUME Progress \/ End \/ ClearRecovery \/ Capture \/ UNCHANGED vars
      PROVE  persisted' = persisted
  BY <1>6 DEF Progress, End, ClearRecovery, Capture, vars
<1>7. ASSUME NEW w \in saves, PersistenceFault(w) \/ CheckDurable(w) \/ Claim(w)
      PROVE  persisted' = persisted
  BY <1>7 DEF PersistenceFault, CheckDurable, Claim
<1> QED BY <1>1, <1>2, <1>3, <1>4, <1>5, <1>6, <1>7 DEF Next

Trusted == TypeInv /\ PersistedIsStored

LEMMA TrustedStep == Trusted /\ [Next]_vars => Trusted'
<1> SUFFICES ASSUME Trusted, [Next]_vars PROVE Trusted'
  OBVIOUS
<1>1. TypeInv /\ TypeInv' /\ PersistedIsStored
  BY TypeStep DEF Trusted
<1>2. /\ db.record.id \in Nat /\ db.record.rev \in Nat
      /\ db'.record.id \in Nat /\ db'.record.rev \in Nat
      /\ ~Older(db'.record, db.record)
  BY <1>1, StoreForward DEF RecordType
<1>3. persisted.id \in Nat /\ persisted.rev \in Nat
  BY <1>1 DEF TypeInv
<1>4. CASE persisted' = persisted
  BY <1>1, <1>2, <1>3, <1>4 DEF PersistedIsStored, Older, Trusted
<1>5. CASE persisted' = Key(db'.record)
  <2>1. persisted'.id = db'.record.id /\ persisted'.rev = db'.record.rev
    BY <1>5 DEF Key
  <2> QED BY <1>1, <1>2, <2>1 DEF PersistedIsStored, Older, Trusted
<1> QED BY <1>1, <1>4, <1>5, TrustStep

LEMMA TrustedInit == Init => Trusted
  BY TypeInit DEF Init, Trusted, PersistedIsStored, Key, NoRecord

\* The revision the dispatcher trusts is always in the store, or overtaken by
\* newer evidence, also after errors whose transaction did commit.
THEOREM TrustIsBacked == Spec => []PersistedIsStored
<1>1. Trusted => PersistedIsStored
  BY DEF Trusted
<1> QED BY <1>1, TrustedInit, TrustedStep, PTL DEF Spec

-----------------------------------------------------------------------------
(* Run ids                                                                 *)

\* Ids only grow: nothing durable, captured or flown is newer than the run
\* sequence, the current run is the newest one started, and an id that was
\* allocated but not started yet has never been seen elsewhere.
Ids ==
    /\ nextRunID = run.id
    /\ run.active => run.id # 0
    /\ run.id <= db.sequence /\ db.record.id <= run.id /\ persisted.id <= run.id
    /\ \A w \in saves : w.rec.id <= run.id /\ w.checked <= run.id
    /\ \A m \in flown : m.id # 0 /\ m.id <= db.sequence
    /\ \A c \in calls : c.id <= db.sequence
    /\ \A c \in calls : c.id # 0 => c.id # run.id /\ \A m \in flown : m.id # c.id
    /\ \A c, e \in calls : c.id = e.id /\ c.id # 0 => c = e

\* What a write leaves of the run sequence and of the operation table.
LEMMA WrittenTables ==
    ASSUME TypeInv, NEW r \in RecordType
    PROVE  /\ r.id <= db.sequence => Written(r).sequence = db.sequence
           /\ r.op \in DOMAIN Written(r).ops
           /\ r.op \notin DOMAIN db.ops => Written(r).ops[r.op] = r.id
           /\ \A op \in DOMAIN db.ops : /\ op \in DOMAIN Written(r).ops
                                       /\ Written(r).ops[op] = db.ops[op]
<1>1. r.id \in Nat /\ db.sequence \in Nat
  BY DEF TypeInv, StoreTyped, RecordType
<1>2. Written(r).sequence = IF db.sequence < r.id THEN r.id ELSE db.sequence
  BY DEF Written
<1>3. Written(r).ops = [op \in DOMAIN db.ops \cup {r.op} |->
                           IF op \in DOMAIN db.ops THEN db.ops[op] ELSE r.id]
  BY DEF Written
<1>4. r.id <= db.sequence => Written(r).sequence = db.sequence
  BY <1>1, <1>2
<1> QED BY <1>3, <1>4

\* All numbers an invariant compares are naturals.
LEMMA Numbers ==
    ASSUME TypeInv
    PROVE  /\ run.id \in Nat /\ run.rev \in Nat
           /\ db.sequence \in Nat /\ db.record.id \in Nat /\ db.record.rev \in Nat
           /\ persisted.id \in Nat /\ persisted.rev \in Nat /\ nextRunID \in Nat
           /\ \A w \in saves : w.rec.id \in Nat /\ w.rec.rev \in Nat
                               /\ w.checked \in Nat /\ w.rec \in RecordType
           /\ \A m \in flown : m.id \in Nat
           /\ \A c \in calls : c.id \in Nat
           /\ db.record \in RecordType /\ run \in RecordType
<1>1. db.sequence \in Nat /\ db.record \in RecordType /\ run \in RecordType
  BY DEF TypeInv, StoreTyped
<1>2. run.id \in Nat /\ run.rev \in Nat /\ db.record.id \in Nat /\ db.record.rev \in Nat
  BY <1>1 DEF RecordType
<1>3. \A w \in saves : w.rec \in RecordType /\ w.checked \in Nat
  BY DEF TypeInv, SavesTyped, SaveType
<1>4. \A w \in saves : w.rec.id \in Nat /\ w.rec.rev \in Nat
  BY <1>3 DEF RecordType
<1> QED BY <1>1, <1>2, <1>3, <1>4 DEF TypeInv

\* Moving a save to another stage changes neither its record nor its check.
LEMMA StageOnly ==
    ASSUME TypeInv, NEW w \in saves, NEW st, saves' = At(w, st), NEW v \in saves'
    PROVE  \E u \in saves : v.rec = u.rec /\ v.checked = u.checked
<1>1. v \in saves \/ v = [w EXCEPT !.stage = st]
  BY DEF At
<1>2. [w EXCEPT !.stage = st].rec = w.rec /\ [w EXCEPT !.stage = st].checked = w.checked
  BY DEF TypeInv, SavesTyped, SaveType
<1> QED BY <1>1, <1>2

\* The saves that remain after a save ended or moved on.
LEMMA SavesKept ==
    ASSUME TypeInv, NEW w \in saves, NEW st,
           saves' = saves \ {w} \/ saves' = At(w, st), NEW v \in saves'
    PROVE  \E u \in saves : v.rec = u.rec /\ v.checked = u.checked
<1>1. CASE saves' = saves \ {w}
  BY <1>1
<1>2. CASE saves' = At(w, st)
  BY <1>2, StageOnly
<1> QED BY <1>1, <1>2

\* A save that reaches the store writes its record or nothing.
LEMMA SaveWrites ==
    ASSUME TypeInv, Ids, NEW w \in saves,
           \/ \E b \in BOOLEAN : SaveOk(w, b)
           \/ \E b \in BOOLEAN, f \in BOOLEAN : SaveError(w, b, f)
    PROVE  /\ \/ db' = db
              \/ /\ ~Refused(w.rec) /\ Key(w.rec) # Key(db.record)
                 /\ db' = Written(w.rec)
           /\ persisted' = persisted \/ persisted' = Key(w.rec)
           /\ persisted' # persisted => Key(w.rec) = Key(db'.record)
           /\ \A v \in saves' : \E u \in saves : v.rec = u.rec /\ v.checked = u.checked
           /\ UNCHANGED <<run, nextRunID, calls, session, flown, settled>>
           /\ db'.sequence = db.sequence /\ db'.record \in {db.record, w.rec}
<1>1. \/ db' = db
      \/ ~Refused(w.rec) /\ Key(w.rec) # Key(db.record) /\ db' = Written(w.rec)
  BY DEF SaveOk, SaveError
<1>2. /\ persisted' = persisted \/ persisted' = Key(w.rec)
      /\ UNCHANGED <<run, nextRunID, calls, session, flown, settled>>
  BY DEF SaveOk, SaveError
<1>3. Written(w.rec).record = w.rec
  BY DEF Written
<1>4. persisted' # persisted => Key(w.rec) = Key(db'.record)
  BY <1>3 DEF SaveOk, SaveError
<1>5. \E st : saves' = saves \ {w} \/ saves' = At(w, st)
  BY DEF SaveOk, SaveError
<1>6. \A v \in saves' : \E u \in saves : v.rec = u.rec /\ v.checked = u.checked
  BY <1>5, SavesKept
<1>7. w.rec.id <= db.sequence /\ w.rec \in RecordType
  BY Numbers DEF Ids
<1>8. db'.sequence = db.sequence /\ db'.record \in {db.record, w.rec}
  BY <1>1, <1>3, <1>7, WrittenTables
<1> QED BY <1>1, <1>2, <1>4, <1>6, <1>8

LEMMA IdsInit == Init => Ids
  BY DEF Init, Ids, NoRecord, Key

\* Every step keeps the ids in order.
LEMMA IdsStep == ASSUME TypeInv, Ids, [Next]_vars PROVE Ids'
<1>1. TypeInv'
  BY TypeStep
<1> USE Numbers
<1>2. ASSUME NEW op \in Ops, LookupOperation(op) PROVE Ids'
  <2>1. calls' = calls \cup {[op |-> op, id |-> 0]}
        /\ UNCHANGED <<run, nextRunID, db, persisted, saves, flown>>
    BY <1>2 DEF LookupOperation
  <2>2. \A c \in calls' : c \in calls \/ c.id = 0
    BY <2>1
  <2> QED BY <2>1, <2>2 DEF Ids
<1>3. ASSUME NEW c \in calls, AllocateRunID(c) PROVE Ids'
  <2> DEFINE new == [c EXCEPT !.id = db.sequence + 1]
  <2>1. calls' = (calls \ {c}) \cup {new}
        /\ UNCHANGED <<run, nextRunID, persisted, saves, flown>>
    BY <1>3 DEF AllocateRunID
  <2>2. db'.sequence = db.sequence + 1 /\ db'.record = db.record
    BY <1>3 DEF AllocateRunID, TypeInv, StoreTyped
  <2>3. new.id = db.sequence + 1
    BY DEF TypeInv
  <2> HIDE DEF new
  <2>4. \A e \in calls' : e = new \/ e \in calls
    BY <2>1
  <2>5. \A m \in flown : m.id # new.id
    BY <2>3 DEF Ids
  <2>6. \A e \in calls : e.id # new.id
    BY <2>3 DEF Ids
  <2>7. new.id # run.id
    BY <2>3 DEF Ids
  <2>8. /\ \A e \in calls' : e.id <= db'.sequence
        /\ \A m \in flown' : m.id <= db'.sequence
        /\ run.id <= db'.sequence
    BY <2>1, <2>2, <2>3, <2>4 DEF Ids
  <2>9. \A e \in calls' : e.id # 0 => e.id # run'.id /\ \A m \in flown' : m.id # e.id
    BY <2>1, <2>4, <2>5, <2>7 DEF Ids
  <2>10. \A e, f \in calls' : e.id = f.id /\ e.id # 0 => e = f
    BY <2>4, <2>6 DEF Ids
  <2> QED BY <2>1, <2>2, <2>8, <2>9, <2>10 DEF Ids
<1>4. ASSUME NEW c \in calls, StartOp(c) PROVE Ids'
  <2>1. calls' = calls \ {c} /\ c.id # 0 /\ UNCHANGED <<db, persisted, saves, flown>>
    BY <1>4 DEF StartOp
  <2>2. CASE UNCHANGED <<run, nextRunID>>
    BY <2>1, <2>2 DEF Ids
  <2>3. CASE /\ run' = [id |-> c.id, op |-> c.op, rev |-> 1, active |-> TRUE,
                        recovery |-> FALSE]
             /\ nextRunID' = c.id /\ c.id > nextRunID
    <3>1. run'.id = c.id /\ nextRunID' = run'.id /\ run.id < run'.id
      BY <2>3 DEF Ids
    <3>2. run'.id <= db.sequence /\ db.record.id <= run'.id /\ persisted.id <= run'.id
      BY <3>1 DEF Ids
    <3>3. \A w \in saves : w.rec.id <= run'.id /\ w.checked <= run'.id
      BY <3>1, <2>3 DEF Ids
    <3>4. \A e \in calls' : e.id # 0 => e.id # run'.id
      BY <2>1, <3>1 DEF Ids
    <3> QED BY <2>1, <3>1, <3>2, <3>3, <3>4 DEF Ids
  <2> QED BY <1>4, <2>2, <2>3 DEF StartOp, CanStart
<1>5. CASE Progress
  <2>1. run'.id = run.id /\ run'.active = run.active
        /\ UNCHANGED <<nextRunID, db, persisted, calls, saves, flown>>
    BY <1>5 DEF Progress, RecordType
  <2> QED BY <2>1 DEF Ids
<1>6. CASE End
  <2>1. run'.id = run.id /\ ~run'.active
        /\ UNCHANGED <<nextRunID, db, persisted, calls, saves, flown>>
    BY <1>6 DEF End, Ended, RecordType
  <2> QED BY <2>1 DEF Ids
<1>7. CASE ClearRecovery
  <2>1. run'.id = run.id /\ run'.active = run.active
        /\ UNCHANGED <<nextRunID, db, persisted, calls, saves, flown>>
    BY <1>7 DEF ClearRecovery, RecordType
  <2> QED BY <2>1 DEF Ids
<1>8. CASE Capture
  <2>1. /\ \A w \in saves' : w \in saves \/ (w.rec = run /\ w.checked = 0)
        /\ UNCHANGED <<run, nextRunID, db, persisted, calls, flown>>
    BY <1>8 DEF Capture
  <2> QED BY <2>1 DEF Ids
<1>9. ASSUME NEW w \in saves,
             \/ \E b \in BOOLEAN : SaveOk(w, b)
             \/ \E b \in BOOLEAN, f \in BOOLEAN : SaveError(w, b, f)
      PROVE  Ids'
  <2>1. /\ persisted' = persisted \/ persisted' = Key(w.rec)
        /\ \A v \in saves' : \E u \in saves : v.rec = u.rec /\ v.checked = u.checked
        /\ UNCHANGED <<run, nextRunID, calls, session, flown, settled>>
        /\ db'.sequence = db.sequence /\ db'.record \in {db.record, w.rec}
    BY <1>9, SaveWrites
  <2>2. persisted'.id <= run.id /\ db'.record.id <= run.id
    BY <2>1 DEF Ids, Key
  <2> QED BY <2>1, <2>2 DEF Ids
<1>10. ASSUME NEW w \in saves, PersistenceFault(w) PROVE Ids'
  <2>1. /\ saves' = saves \ {w}
        /\ run' = run \/ run' = Ended(run)
        /\ UNCHANGED <<nextRunID, db, persisted, calls, flown>>
    BY <1>10 DEF PersistenceFault
  <2>2. run'.id = run.id /\ (run'.active => run.active)
    BY <2>1 DEF Ended, RecordType
  <2> QED BY <1>10, <2>1, <2>2 DEF Ids, PersistenceFault
<1>11. ASSUME NEW w \in saves, CheckDurable(w) PROVE Ids'
  <2> DEFINE v == [w EXCEPT !.stage = "clear", !.checked = run.id]
  <2>1. v.rec = w.rec /\ v.checked = run.id
    BY DEF TypeInv, SavesTyped, SaveType
  <2>2. /\ saves' \subseteq saves \cup {v}
        /\ UNCHANGED <<run, nextRunID, db, persisted, calls, flown>>
    BY <1>11 DEF CheckDurable
  <2> HIDE DEF v
  <2> QED BY <2>1, <2>2 DEF Ids
<1>12. ASSUME NEW w \in saves, Claim(w) PROVE Ids'
  <2>1. /\ saves' = saves \ {w}
        /\ \A m \in flown' : m \in flown \/ (run.active /\ m.id = run.id)
        /\ UNCHANGED <<run, nextRunID, db, persisted, calls>>
    BY <1>12 DEF Claim
  <2> QED BY <2>1 DEF Ids
<1>13. ASSUME NEW saved \in BOOLEAN, CrashRestart(saved) PROVE Ids'
  <2>1. /\ calls' = {} /\ saves' = {} /\ UNCHANGED flown
        /\ run' = Restored(db.record) /\ nextRunID' = db.record.id
    BY <1>13 DEF CrashRestart
  <2>2. run'.id = db.record.id /\ run' \in RecordType
    BY <2>1, RestoredTyped DEF TypeInv, StoreTyped
  <2>3. ~run'.active
    BY <2>1 DEF Restored, RecordType
  <2>4. db' = db \/ db' = Written(run')
    BY <1>13 DEF CrashRestart
  <2>5. db'.sequence = db.sequence /\ db'.record.id = db.record.id
    <3>1. run'.id <= db.sequence
      BY <2>2 DEF Ids
    <3>2. Written(run').sequence = db.sequence
      BY <2>2, <3>1, WrittenTables
    <3>3. Written(run').record = run'
      BY DEF Written
    <3> QED BY <2>2, <2>4, <3>2, <3>3
  <2>6. persisted'.id = db.record.id
    BY <1>13, <2>2 DEF CrashRestart, Key
  <2> QED BY <2>1, <2>2, <2>3, <2>5, <2>6 DEF Ids
<1>14. CASE UNCHANGED vars
  BY <1>14 DEF vars, Ids
<1> QED
  BY <1>2, <1>3, <1>4, <1>5, <1>6, <1>7, <1>8, <1>9, <1>10, <1>11, <1>12,
     <1>13, <1>14 DEF Next

-----------------------------------------------------------------------------
(* No restart resumes a mission                                            *)

\* What flew under the id of an active run flew in this process.
ThisSession ==
    /\ NoAutoResume
    /\ \A m \in flown : run.active /\ m.id = run.id => m.session = session

LEMMA ThisSessionStep ==
    ASSUME TypeInv, Ids, ThisSession, [Next]_vars PROVE ThisSession'
<1> USE Numbers
<1>1. ASSUME UNCHANGED <<session, flown>>, run'.active => run.active /\ run'.id = run.id
      PROVE  ThisSession'
  BY <1>1 DEF ThisSession, NoAutoResume
<1>2. ASSUME NEW op \in Ops, LookupOperation(op) PROVE ThisSession'
  BY <1>1, <1>2 DEF LookupOperation
<1>3. ASSUME NEW c \in calls, AllocateRunID(c) PROVE ThisSession'
  BY <1>1, <1>3 DEF AllocateRunID
<1>4. ASSUME NEW c \in calls, StartOp(c) PROVE ThisSession'
  <2>1. CASE UNCHANGED run
    BY <1>1, <1>4, <2>1 DEF StartOp
  <2>2. CASE run' = [id |-> c.id, op |-> c.op, rev |-> 1, active |-> TRUE,
                     recovery |-> FALSE]
    <3>1. run'.id = c.id /\ \A m \in flown : m.id # c.id
      BY <1>4, <2>2 DEF StartOp, Ids
    <3> QED BY <1>4, <3>1 DEF StartOp, ThisSession, NoAutoResume
  <2> QED BY <1>4, <2>1, <2>2 DEF StartOp
<1>5. CASE Progress
  BY <1>1, <1>5 DEF Progress, RecordType
<1>6. CASE End
  BY <1>1, <1>6 DEF End, Ended, RecordType
<1>7. CASE ClearRecovery
  BY <1>1, <1>7 DEF ClearRecovery, RecordType
<1>8. CASE Capture
  BY <1>1, <1>8 DEF Capture
<1>9. ASSUME NEW w \in saves,
             \/ \E b \in BOOLEAN : SaveOk(w, b)
             \/ \E b \in BOOLEAN, f \in BOOLEAN : SaveError(w, b, f)
      PROVE  ThisSession'
  BY <1>1, <1>9, SaveWrites
<1>10. ASSUME NEW w \in saves, PersistenceFault(w) PROVE ThisSession'
  BY <1>1, <1>10 DEF PersistenceFault, Ended, RecordType
<1>11. ASSUME NEW w \in saves, CheckDurable(w) PROVE ThisSession'
  BY <1>1, <1>11 DEF CheckDurable
<1>12. ASSUME NEW w \in saves, Claim(w) PROVE ThisSession'
  <2>1. UNCHANGED <<run, session>>
    BY <1>12 DEF Claim
  <2>2. CASE ~run.active
    BY <1>1, <1>12, <2>1, <2>2 DEF Claim
  <2>3. CASE run.active
    <3>1. \A m \in flown' : m \in flown \/ (m.id = run.id /\ m.session = session)
      BY <1>12 DEF Claim
    <3> QED BY <2>1, <2>3, <3>1 DEF ThisSession, NoAutoResume
  <2> QED BY <2>2, <2>3
<1>13. ASSUME NEW saved \in BOOLEAN, CrashRestart(saved) PROVE ThisSession'
  <2>1. ~run'.active /\ UNCHANGED flown
    BY <1>13 DEF CrashRestart, Restored, RecordType
  <2> QED BY <2>1 DEF ThisSession, NoAutoResume
<1>14. CASE UNCHANGED vars
  BY <1>1, <1>14 DEF vars
<1> QED
  BY <1>2, <1>3, <1>4, <1>5, <1>6, <1>7, <1>8, <1>9, <1>10, <1>11, <1>12,
     <1>13, <1>14 DEF Next

\* A run flies only in the process that accepted it, whatever crashes.
THEOREM NothingResumes == Spec => []NoAutoResume
<1>1. Init => TypeInv /\ Ids /\ ThisSession
  BY TypeInit, IdsInit DEF Init, ThisSession, NoAutoResume
<1>2. (TypeInv /\ Ids /\ ThisSession) /\ [Next]_vars => (TypeInv /\ Ids /\ ThisSession)'
  BY TypeStep, IdsStep, ThisSessionStep
<1>3. ThisSession => NoAutoResume
  BY DEF ThisSession
<1> QED BY <1>1, <1>2, <1>3, PTL DEF Spec

-----------------------------------------------------------------------------
(* One operation, one run                                                  *)

Stored(op, id) == op \in DOMAIN db.ops /\ db.ops[op] = id

\* A run id has one operation, and a run whose record was found durable has
\* its operation in the store's table.
Operations ==
    /\ \A w \in saves : w.rec.id = run.id => w.rec.op = run.op
    /\ db.record.id = run.id => db.record.op = run.op
    /\ db.record.id # 0 => Stored(db.record.op, db.record.id)
    /\ run.id # 0 /\ persisted.id = run.id => Stored(run.op, run.id)
    /\ \A w \in saves : run.id # 0 /\ w.checked = run.id => Stored(run.op, run.id)
    /\ \A m \in flown : Vouched(m) => Stored(m.op, m.id)

\* The operation table only grows.
LEMMA TableGrows ==
    ASSUME TypeInv, Ids, [Next]_vars, NEW op, NEW id, Stored(op, id)
    PROVE  Stored(op, id)'
<1> USE Numbers
<1>1. ASSUME NEW r \in RecordType, db' = Written(r) PROVE Stored(op, id)'
  BY <1>1, WrittenTables DEF Stored
<1>2. CASE db'.ops = db.ops
  BY <1>2 DEF Stored
<1>3. ASSUME NEW c \in calls, AllocateRunID(c) PROVE db'.ops = db.ops
  BY <1>3 DEF AllocateRunID, TypeInv, StoreTyped
<1>4. ASSUME NEW w \in saves,
             \/ \E b \in BOOLEAN : SaveOk(w, b)
             \/ \E b \in BOOLEAN, f \in BOOLEAN : SaveError(w, b, f)
      PROVE  db' = db \/ \E r \in RecordType : db' = Written(r)
  BY <1>4, SaveWrites
<1>5. ASSUME NEW b \in BOOLEAN, CrashRestart(b)
      PROVE  db' = db \/ \E r \in RecordType : db' = Written(r)
  BY <1>5, RestoredTyped DEF CrashRestart, TypeInv, StoreTyped
<1>6. ASSUME NEW x \in Ops, LookupOperation(x) PROVE db' = db
  BY <1>6 DEF LookupOperation
<1>7. ASSUME NEW c \in calls, StartOp(c) PROVE db' = db
  BY <1>7 DEF StartOp
<1>8. ASSUME Progress \/ End \/ ClearRecovery \/ Capture \/ UNCHANGED vars
      PROVE  db' = db
  BY <1>8 DEF Progress, End, ClearRecovery, Capture, vars
<1>9. ASSUME NEW w \in saves, PersistenceFault(w) \/ CheckDurable(w) \/ Claim(w)
      PROVE  db' = db
  BY <1>9 DEF PersistenceFault, CheckDurable, Claim
<1>10. db'.ops = db.ops \/ \E r \in RecordType : db' = Written(r)
  BY <1>3, <1>4, <1>5, <1>6, <1>7, <1>8, <1>9 DEF Next
<1> QED BY <1>1, <1>2, <1>10

\* Every step keeps runs and operations paired.
LEMMA OperationsStep ==
    ASSUME TypeInv, Ids, Operations, [Next]_vars PROVE Operations'
<1> USE Numbers
<1>1. \A m \in flown : Vouched(m) => Stored(m.op, m.id)'
  BY TableGrows DEF Operations
<1>2. \A op, id : Stored(op, id) => Stored(op, id)'
  BY TableGrows
\* Steps that keep the store, the saves and the identity of the run.
<1>3. ASSUME UNCHANGED <<db, persisted, saves, flown>>,
             run'.id = run.id, run'.op = run.op
      PROVE  Operations'
  BY <1>3 DEF Operations, Stored
<1>4. ASSUME NEW op \in Ops, LookupOperation(op) PROVE Operations'
  BY <1>3, <1>4 DEF LookupOperation
<1>5. ASSUME NEW c \in calls, AllocateRunID(c) PROVE Operations'
  <2>1. db'.record = db.record /\ UNCHANGED <<run, persisted, saves, flown>>
    BY <1>5 DEF AllocateRunID, TypeInv, StoreTyped
  <2> QED BY <1>1, <1>2, <2>1 DEF Operations
<1>6. ASSUME NEW c \in calls, StartOp(c) PROVE Operations'
  <2>1. UNCHANGED <<db, persisted, saves, flown>>
    BY <1>6 DEF StartOp
  <2>2. CASE UNCHANGED run
    BY <1>3, <2>1, <2>2
  <2>3. CASE run'.id = c.id /\ run.id < c.id
    <3>1. /\ db.record.id # run'.id /\ persisted.id # run'.id
          /\ \A w \in saves : w.rec.id # run'.id /\ w.checked # run'.id
      BY <2>3 DEF Ids
    <3> QED BY <1>1, <2>1, <3>1 DEF Operations, Stored
  <2> QED BY <1>6, <2>2, <2>3 DEF StartOp, CanStart, Ids
<1>7. CASE Progress
  BY <1>3, <1>7 DEF Progress, RecordType
<1>8. CASE End
  BY <1>3, <1>8 DEF End, Ended, RecordType
<1>9. CASE ClearRecovery
  BY <1>3, <1>9 DEF ClearRecovery, RecordType
<1>10. CASE Capture
  <2>1. /\ \A w \in saves' : w \in saves \/ (w.rec = run /\ w.checked = 0)
        /\ UNCHANGED <<run, db, persisted, flown>>
    BY <1>10 DEF Capture
  <2> QED BY <2>1 DEF Operations, Stored
<1>11. ASSUME NEW w \in saves,
              \/ \E b \in BOOLEAN : SaveOk(w, b)
              \/ \E b \in BOOLEAN, f \in BOOLEAN : SaveError(w, b, f)
       PROVE  Operations'
  <2>1. /\ \/ db' = db
           \/ /\ ~Refused(w.rec) /\ Key(w.rec) # Key(db.record)
              /\ db' = Written(w.rec)
        /\ persisted' = persisted \/ persisted' = Key(w.rec)
        /\ persisted' # persisted => Key(w.rec) = Key(db'.record)
        /\ \A v \in saves' : \E u \in saves : v.rec = u.rec /\ v.checked = u.checked
        /\ UNCHANGED <<run, flown>>
    BY <1>11, SaveWrites
  <2>2. \/ db' = db
        \/ db'.record = w.rec /\ Stored(w.rec.op, w.rec.id)'
    <3>1. CASE ~Refused(w.rec) /\ Key(w.rec) # Key(db.record) /\ db' = Written(w.rec)
      <4>1. w.rec.op \in DOMAIN db.ops => db.ops[w.rec.op] = w.rec.id
        BY <3>1 DEF Refused
      <4>2. Stored(w.rec.op, w.rec.id)'
        BY <3>1, <4>1, WrittenTables DEF Stored
      <4>3. db'.record = w.rec
        BY <3>1 DEF Written
      <4> QED BY <4>2, <4>3
    <3> QED BY <2>1, <3>1
  <2>3. /\ db'.record.id = run.id => db'.record.op = run.op
        /\ db'.record.id # 0 => /\ db'.record.op \in DOMAIN db'.ops
                                /\ db'.ops[db'.record.op] = db'.record.id
    BY <2>2 DEF Operations, Stored
  <2>4. run.id # 0 /\ persisted'.id = run.id => Stored(run.op, run.id)'
    <3>1. CASE persisted' = persisted
      BY <1>2, <2>1, <3>1 DEF Operations, Stored
    <3>2. CASE persisted' # persisted
      <4>1. persisted'.id = db'.record.id
        BY <2>1, <3>2 DEF Key
      <4> QED BY <2>1, <2>3, <4>1 DEF Stored
    <3> QED BY <3>1, <3>2
  <2>5. /\ \A v \in saves' : v.rec.id = run.id => v.rec.op = run.op
        /\ \A v \in saves' : run.id # 0 /\ v.checked = run.id => Stored(run.op, run.id)'
    BY <1>2, <2>1 DEF Operations, Stored
  <2> QED BY <1>1, <2>1, <2>3, <2>4, <2>5 DEF Operations, Stored
<1>12. ASSUME NEW w \in saves, PersistenceFault(w) PROVE Operations'
  <2>1. run'.id = run.id /\ run'.op = run.op
    BY <1>12 DEF PersistenceFault, Ended, RecordType
  <2>2. saves' \subseteq saves /\ UNCHANGED <<db, persisted, flown>>
    BY <1>12 DEF PersistenceFault
  <2> QED BY <2>1, <2>2 DEF Operations, Stored
<1>13. ASSUME NEW w \in saves, CheckDurable(w) PROVE Operations'
  <2> DEFINE v == [w EXCEPT !.stage = "clear", !.checked = run.id]
  <2>1. v.rec = w.rec
    BY DEF TypeInv, SavesTyped, SaveType
  <2>2. /\ UNCHANGED <<run, db, persisted, flown>>
        /\ saves' \subseteq saves \/ (IsDurable /\ saves' \subseteq saves \cup {v})
    BY <1>13 DEF CheckDurable
  <2>3. IsDurable => persisted.id = run.id
    BY DEF IsDurable, Key
  <2> HIDE DEF v
  <2>4. CASE saves' \subseteq saves
    BY <2>2, <2>4 DEF Operations, Stored
  <2>5. CASE IsDurable /\ saves' \subseteq saves \cup {v}
    <3>1. run.id # 0 => Stored(run.op, run.id)
      BY <2>3, <2>5 DEF Operations
    <3> QED BY <2>1, <2>2, <2>5, <3>1 DEF Operations, Stored
  <2> QED BY <2>2, <2>4, <2>5
<1>14. ASSUME NEW w \in saves, Claim(w) PROVE Operations'
  <2>1. /\ saves' \subseteq saves /\ UNCHANGED <<run, db, persisted>>
        /\ \A m \in flown' :
              \/ m \in flown
              \/ run.active /\ m.id = run.id /\ m.op = run.op /\ m.checked = w.checked
    BY <1>14 DEF Claim
  <2>2. ASSUME NEW m \in flown', Vouched(m) PROVE Stored(m.op, m.id)
    <3>1. CASE m \in flown
      BY <2>2, <3>1 DEF Operations
    <3>2. CASE run.active /\ m.id = run.id /\ m.op = run.op /\ m.checked = w.checked
      <4>1. run.id # 0 /\ w.checked = run.id
        BY <2>2, <3>2 DEF Vouched, Ids
      <4> QED BY <3>2, <4>1 DEF Operations
    <3> QED BY <2>1, <3>1, <3>2
  <2> QED BY <2>1, <2>2 DEF Operations, Stored
<1>15. ASSUME NEW saved \in BOOLEAN, CrashRestart(saved) PROVE Operations'
  <2>1. /\ saves' = {} /\ UNCHANGED flown /\ run' = Restored(db.record)
        /\ db' = db \/ (db' = Written(run') /\ db'.record = run')
    BY <1>15 DEF CrashRestart, Written
  <2>2. run'.id = db.record.id /\ run'.op = db.record.op
    BY <2>1 DEF Restored, RecordType
  <2>3. db.record.id # 0 => /\ db.record.op \in DOMAIN db'.ops
                            /\ db'.ops[db.record.op] = db.record.id
    BY <1>2 DEF Operations, Stored
  <2> QED BY <1>1, <2>1, <2>2, <2>3 DEF Operations, Stored
<1>16. CASE UNCHANGED vars
  BY <1>3, <1>16 DEF vars
<1> QED
  BY <1>4, <1>5, <1>6, <1>7, <1>8, <1>9, <1>10, <1>11, <1>12, <1>13, <1>14,
     <1>15, <1>16 DEF Next

LEMMA OperationsInit == Init => Operations
  BY DEF Init, Operations, NoRecord, Key

\* However often StartMission is retried, raced or repeated after a restart, an
\* operation makes at most one run fly.
THEOREM OneRunPerOperation == Spec => []OperationFliesOnce
<1>1. (TypeInv /\ Ids /\ Operations) /\ [Next]_vars => (TypeInv /\ Ids /\ Operations)'
  BY TypeStep, IdsStep, OperationsStep
<1>2. Operations => OperationFliesOnce
  BY DEF Operations, Stored, OperationFliesOnce
<1> QED BY <1>1, <1>2, TypeInit, IdsInit, OperationsInit, PTL DEF Spec

-----------------------------------------------------------------------------
(* A run that flew is not forgotten                                        *)

\* A record of an ended run is of a run that was settled.
Closing(r) == r.id # 0 /\ ~r.active /\ ~r.recovery => r.id \in settled

Remembered ==
    /\ Closing(run) /\ Closing(db.record) /\ \A w \in saves : Closing(w.rec)
    /\ NeverForgotten
    /\ \A m \in flown : Vouched(m) /\ m.id \notin settled => db.record.id = m.id
    /\ \A w \in saves : run.id # 0 /\ w.checked = run.id => db.record.id = run.id

\* Every step keeps the memory of what flew.
LEMMA RememberedStep ==
    ASSUME Trusted, Ids, Remembered, [Next]_vars PROVE Remembered'
<1>1. TypeInv /\ PersistedIsStored
  BY DEF Trusted
<1> USE Numbers
\* Steps that settle or start nothing and keep the run's identity and claim.
<1>2. ASSUME UNCHANGED <<db, saves, flown, settled>>, run'.id = run.id,
             run.active \/ run.recovery => run'.active \/ run'.recovery,
             Closing(run)'
      PROVE  Remembered'
  BY <1>2 DEF Remembered, Closing, NeverForgotten
\* Steps that end the run in view of the operator.
<1>3. ASSUME UNCHANGED <<db, flown>>, run'.id = run.id,
             settled' = settled \cup {run.id}, saves' \subseteq saves
      PROVE  Remembered'
  BY <1>3 DEF Remembered, Closing, NeverForgotten
<1>4. ASSUME NEW op \in Ops, LookupOperation(op) PROVE Remembered'
  BY <1>2, <1>4 DEF LookupOperation, Remembered, Closing
<1>5. ASSUME NEW c \in calls, AllocateRunID(c) PROVE Remembered'
  <2>1. db'.record = db.record /\ UNCHANGED <<run, saves, flown, settled>>
    BY <1>1, <1>5 DEF AllocateRunID, TypeInv, StoreTyped
  <2> QED BY <2>1 DEF Remembered, Closing, NeverForgotten
<1>6. ASSUME NEW c \in calls, StartOp(c) PROVE Remembered'
  <2>1. UNCHANGED <<db, saves, flown, settled>>
    BY <1>6 DEF StartOp
  <2>2. CASE UNCHANGED run
    BY <2>1, <2>2 DEF Remembered, Closing, NeverForgotten
  <2>3. CASE run'.id = c.id /\ run'.active /\ run.id < c.id /\ ~run.active /\ ~run.recovery
    <3>1. \A m \in flown : Vouched(m) => m.id \in settled
      BY <2>3 DEF Remembered, NeverForgotten
    <3>2. \A w \in saves : w.checked # run'.id
      BY <1>1, <2>3 DEF Ids
    <3>3. Closing(run)'
      BY <2>3 DEF Closing
    <3> QED BY <2>1, <3>1, <3>2, <3>3 DEF Remembered, Closing, NeverForgotten
  <2> QED BY <1>1, <1>6, <2>2, <2>3 DEF StartOp, CanStart, Ids
<1>7. CASE Progress
  <2>1. run'.id = run.id /\ run'.active = run.active /\ run'.recovery = run.recovery
        /\ UNCHANGED <<db, saves, flown, settled>>
    BY <1>1, <1>7 DEF Progress, RecordType
  <2> QED BY <2>1 DEF Remembered, Closing, NeverForgotten
<1>8. CASE End
  BY <1>1, <1>3, <1>8 DEF End, Ended, RecordType
<1>9. CASE ClearRecovery
  BY <1>1, <1>3, <1>9 DEF ClearRecovery, RecordType
<1>10. CASE Capture
  <2>1. /\ \A w \in saves' : w \in saves \/ (w.rec = run /\ w.checked = 0)
        /\ UNCHANGED <<run, db, flown, settled>>
    BY <1>10 DEF Capture
  <2> QED BY <2>1 DEF Remembered, Closing, NeverForgotten
<1>11. ASSUME NEW w \in saves,
              \/ \E b \in BOOLEAN : SaveOk(w, b)
              \/ \E b \in BOOLEAN, f \in BOOLEAN : SaveError(w, b, f)
       PROVE  Remembered'
  <2>1. /\ \A v \in saves' : \E u \in saves : v.rec = u.rec /\ v.checked = u.checked
        /\ UNCHANGED <<run, flown, settled>>
        /\ db'.record \in {db.record, w.rec}
    BY <1>1, <1>11, SaveWrites
  <2>2. db.record.id <= db'.record.id /\ db'.record.id <= run.id
    <3>1. ~Older(db'.record, db.record) /\ db'.record.id \in Nat
      BY <1>1, <2>1, StoreForward
    <3>2. db'.record.id <= run.id
      BY <1>1, <2>1 DEF Ids
    <3> QED BY <1>1, <3>1, <3>2 DEF Older
  <2>3. db.record.id = run.id => db'.record.id = run.id
    BY <1>1, <2>1, <2>2 DEF Ids
  <2>4. \A m \in flown : Vouched(m) /\ m.id \notin settled => db'.record.id = m.id
    BY <2>3 DEF Remembered, NeverForgotten
  <2>5. Closing(db.record)' /\ \A v \in saves' : Closing(v.rec)
    BY <2>1 DEF Remembered, Closing
  <2> QED BY <2>1, <2>3, <2>4, <2>5 DEF Remembered, Closing, NeverForgotten
<1>12. ASSUME NEW w \in saves, PersistenceFault(w) PROVE Remembered'
  <2>1. CASE run.active /\ Key(run) = Key(w.rec)
    BY <1>1, <1>3, <1>12, <2>1 DEF PersistenceFault, Ended, RecordType
  <2>2. CASE ~(run.active /\ Key(run) = Key(w.rec))
    <3>1. saves' \subseteq saves /\ UNCHANGED <<run, db, flown, settled>>
      BY <1>12, <2>2 DEF PersistenceFault
    <3> QED BY <3>1 DEF Remembered, Closing, NeverForgotten
  <2> QED BY <2>1, <2>2
<1>13. ASSUME NEW w \in saves, CheckDurable(w) PROVE Remembered'
  <2> DEFINE v == [w EXCEPT !.stage = "clear", !.checked = run.id]
  <2>1. v.rec = w.rec
    BY <1>1 DEF TypeInv, SavesTyped, SaveType
  <2>2. /\ UNCHANGED <<run, db, flown, settled>>
        /\ saves' \subseteq saves \/ (IsDurable /\ saves' \subseteq saves \cup {v})
    BY <1>13 DEF CheckDurable
  <2>3. IsDurable => db.record.id = run.id
    <3>1. IsDurable => persisted.id = run.id /\ run.id # 0
      BY DEF IsDurable, Key, Ids
    <3>2. persisted.id = run.id /\ run.id # 0 => db.record.id = run.id
      BY <1>1 DEF PersistedIsStored, Older, Ids
    <3> QED BY <3>1, <3>2
  <2> HIDE DEF v
  <2>4. CASE saves' \subseteq saves
    BY <2>2, <2>4 DEF Remembered, Closing, NeverForgotten
  <2>5. CASE IsDurable /\ saves' \subseteq saves \cup {v}
    BY <2>1, <2>2, <2>3, <2>5 DEF Remembered, Closing, NeverForgotten
  <2> QED BY <2>2, <2>4, <2>5
<1>14. ASSUME NEW w \in saves, Claim(w) PROVE Remembered'
  <2>1. /\ saves' \subseteq saves /\ UNCHANGED <<run, db, settled>>
        /\ \A m \in flown' :
              \/ m \in flown
              \/ run.active /\ m.id = run.id /\ m.checked = w.checked
    BY <1>14 DEF Claim
  <2>2. ASSUME NEW m \in flown', Vouched(m), m.id \notin settled
        PROVE  run.id = m.id /\ (run.active \/ run.recovery) /\ db.record.id = m.id
    <3>1. CASE m \in flown
      BY <2>2, <3>1 DEF Remembered, NeverForgotten
    <3>2. CASE run.active /\ m.id = run.id /\ m.checked = w.checked
      <4>1. run.id # 0 /\ w.checked = run.id
        BY <2>2, <3>2 DEF Vouched, Ids
      <4> QED BY <3>2, <4>1 DEF Remembered
    <3> QED BY <2>1, <3>1, <3>2
  <2> QED BY <2>1, <2>2 DEF Remembered, Closing, NeverForgotten
<1>15. ASSUME NEW saved \in BOOLEAN, CrashRestart(saved) PROVE Remembered'
  <2>1. /\ saves' = {} /\ UNCHANGED <<flown, settled>> /\ run' = Restored(db.record)
        /\ db'.record \in {db.record, run'}
    BY <1>15 DEF CrashRestart, Written
  <2>2. /\ run'.id = db.record.id
        /\ db.record.active => run'.recovery
        /\ ~db.record.active => run' = db.record
    BY <1>1, <2>1 DEF Restored, RecordType
  <2>3. Closing(run)' /\ Closing(db.record)'
    BY <2>1, <2>2 DEF Remembered, Closing
  <2>4. ASSUME NEW m \in flown, Vouched(m), m.id \notin settled
        PROVE  run'.id = m.id /\ (run'.active \/ run'.recovery) /\ db'.record.id = m.id
    <3>1. db.record.id = m.id /\ m.id # 0
      BY <2>4 DEF Remembered, NeverForgotten, Ids
    <3>2. db.record.active \/ db.record.recovery
      BY <2>4, <3>1 DEF Remembered, Closing
    <3> QED BY <2>1, <2>2, <3>1, <3>2
  <2> QED BY <2>1, <2>3, <2>4 DEF Remembered, NeverForgotten
<1>16. CASE UNCHANGED vars
  BY <1>16 DEF vars, Remembered, Closing, NeverForgotten
<1> QED
  BY <1>4, <1>5, <1>6, <1>7, <1>8, <1>9, <1>10, <1>11, <1>12, <1>13, <1>14,
     <1>15, <1>16 DEF Next

LEMMA RememberedInit == Init => Remembered
  BY DEF Init, Remembered, Closing, NeverForgotten, NoRecord

\* Whatever crashes and whatever saves fail, a run that flew stays the current
\* run, active or waiting for recovery, until it is settled.
THEOREM FlownIsRemembered == Spec => []NeverForgotten
<1>1. (Trusted /\ Ids /\ Remembered) /\ [Next]_vars => (Trusted /\ Ids /\ Remembered)'
  BY TrustedStep, IdsStep, RememberedStep DEF Trusted
<1>2. Remembered => NeverForgotten
  BY DEF Remembered
<1> QED BY <1>1, <1>2, TrustedInit, IdsInit, RememberedInit, PTL DEF Spec

-----------------------------------------------------------------------------
(* Core refines the flight ledger                                          *)

\* Only a run that was started is active or waits for recovery, and no run does
\* both.
Real(r) == (r.active \/ r.recovery => r.id # 0) /\ ~(r.active /\ r.recovery)

\* Which runs are over: every id handed out is within bounds, an ended run is
\* an old one, the active run and the ids not started yet have not ended, and a
\* save that was cleared for dispatch was checked for the current run or for
\* one that has ended.
Endings ==
    /\ db.sequence <= MaxRun
    /\ Real(run) /\ Real(db.record) /\ \A w \in saves : Real(w.rec)
    /\ \A i \in settled : i <= db.sequence
    /\ run.active => run.id \notin settled
    /\ \A c \in calls : c.id # 0 => c.id \notin settled
    /\ \A w \in saves : w.stage = "clear" =>
          w.checked # 0 /\ (w.checked = run.id \/ w.checked \in settled)

\* A save that is cleared for dispatch was so before, but for CheckDurable.
LEMMA ClearedBefore ==
    ASSUME TypeInv, NEW w \in saves, NEW st \in {"saved", "faulting"},
           saves' = saves \ {w} \/ saves' = At(w, st),
           NEW v \in saves', v.stage = "clear"
    PROVE  v \in saves
<1>1. [w EXCEPT !.stage = st].stage = st
  BY DEF TypeInv, SavesTyped, SaveType
<1> QED BY <1>1 DEF At

\* Every step keeps the account of which runs are over.
LEMMA EndingsStep ==
    ASSUME TypeInv, Ids, Remembered, Endings, [Next]_vars PROVE Endings'
<1> USE Numbers
<1>1. MaxRun \in Nat /\ settled \subseteq Nat
  BY BoundAssumption DEF TypeInv
\* Steps that keep the store and only take calls or saves away.
<1>2. ASSUME UNCHANGED <<db, settled>>, run'.id = run.id,
             run'.active => run.active, run'.recovery => run.recovery,
             calls' \subseteq calls, saves' \subseteq saves
      PROVE  Endings'
  BY <1>2 DEF Endings, Real
\* Steps that end the run in view of the operator.
<1>3. ASSUME UNCHANGED <<db, calls>>, run'.id = run.id, ~run'.active, ~run'.recovery,
             settled' = settled \cup {run.id}, saves' \subseteq saves
      PROVE  Endings'
  BY <1>1, <1>3 DEF Endings, Real, Ids
<1>4. ASSUME NEW op \in Ops, LookupOperation(op) PROVE Endings'
  BY <1>4 DEF LookupOperation, Endings
<1>5. ASSUME NEW c \in calls, AllocateRunID(c) PROVE Endings'
  <2>1. /\ db'.record = db.record /\ db'.sequence = db.sequence + 1
        /\ db.sequence < MaxRun /\ UNCHANGED <<run, saves, settled>>
    BY <1>5 DEF AllocateRunID, TypeInv, StoreTyped
  <2>2. \A e \in calls' : e \in calls \/ e.id = db.sequence + 1
    <3>1. [c EXCEPT !.id = db.sequence + 1].id = db.sequence + 1
      BY DEF TypeInv
    <3> QED BY <1>5, <3>1 DEF AllocateRunID
  <2>3. \A i \in settled : i \in Nat /\ i <= db.sequence
    BY <1>1 DEF Endings
  <2>4. db'.sequence <= MaxRun /\ \A i \in settled : i <= db'.sequence
    BY <1>1, <2>1, <2>3
  <2>5. \A e \in calls' : e.id # 0 => e.id \notin settled
    BY <2>2, <2>3 DEF Endings
  <2> QED BY <2>1, <2>4, <2>5 DEF Endings
<1>6. ASSUME NEW c \in calls, StartOp(c) PROVE Endings'
  <2>1. UNCHANGED <<db, saves, settled>> /\ calls' \subseteq calls
    BY <1>6 DEF StartOp
  <2>2. CASE UNCHANGED run
    BY <1>2, <2>1, <2>2
  <2>3. CASE /\ run' = [id |-> c.id, op |-> c.op, rev |-> 1, active |-> TRUE,
                        recovery |-> FALSE]
             /\ CanStart(c) /\ c.id # 0
    <3>1. run'.id = c.id /\ run'.active /\ ~run'.recovery /\ c.id \notin settled
      BY <2>3 DEF Endings
    <3>2. run.id = 0 \/ run.id \in settled
      BY <2>3 DEF CanStart, Remembered, Closing
    <3>3. \A w \in saves : w.stage = "clear" => w.checked # 0 /\ w.checked \in settled
      BY <3>2 DEF Endings
    <3> QED BY <2>1, <2>3, <3>1, <3>3 DEF Endings, Real
  <2> QED BY <1>6, <2>2, <2>3 DEF StartOp
<1>7. CASE Progress
  BY <1>2, <1>7 DEF Progress, RecordType
<1>8. CASE End
  <2>1. run'.id = run.id /\ ~run'.active /\ run'.recovery = run.recovery
    BY <1>8 DEF End, Ended, RecordType
  <2> QED BY <1>1, <1>8, <2>1 DEF End, Endings, Real, Ids
<1>9. CASE ClearRecovery
  <2>1. run'.id = run.id /\ run'.active = run.active /\ ~run'.recovery
    BY <1>9 DEF ClearRecovery, RecordType
  <2>2. ~run.active
    BY <1>9 DEF ClearRecovery, Endings, Real
  <2> QED BY <1>3, <1>9, <2>1, <2>2 DEF ClearRecovery
<1>10. CASE Capture
  <2>1. /\ \A w \in saves' : w \in saves \/ (w.rec = run /\ w.stage = "captured")
        /\ UNCHANGED <<run, db, calls, settled>>
    BY <1>10 DEF Capture
  <2> QED BY <2>1 DEF Endings
<1>11. ASSUME NEW w \in saves,
              \/ \E b \in BOOLEAN : SaveOk(w, b)
              \/ \E b \in BOOLEAN, f \in BOOLEAN : SaveError(w, b, f)
       PROVE  Endings'
  <2>1. /\ \A v \in saves' : \E u \in saves : v.rec = u.rec
        /\ UNCHANGED <<run, calls, settled>>
        /\ db'.sequence = db.sequence /\ db'.record \in {db.record, w.rec}
    BY <1>11, SaveWrites
  <2>2. \E st \in {"saved", "faulting"} : saves' = saves \ {w} \/ saves' = At(w, st)
    BY <1>11 DEF SaveOk, SaveError
  <2>3. \A v \in saves' : v.stage = "clear" => v \in saves
    BY <2>2, ClearedBefore
  <2>4. Real(db.record)' /\ \A v \in saves' : Real(v.rec)
    BY <2>1 DEF Endings, Real
  <2> QED BY <2>1, <2>3, <2>4 DEF Endings
<1>12. ASSUME NEW w \in saves, PersistenceFault(w) PROVE Endings'
  <2>1. saves' \subseteq saves /\ UNCHANGED <<db, calls>>
    BY <1>12 DEF PersistenceFault
  <2>2. CASE run.active /\ run' = Ended(run) /\ settled' = settled \cup {run.id}
    <3>1. run'.id = run.id /\ ~run'.active /\ run'.recovery = run.recovery
      BY <2>2 DEF Ended, RecordType
    <3> QED BY <1>1, <2>1, <2>2, <3>1 DEF Endings, Real, Ids
  <2>3. CASE UNCHANGED <<run, settled>>
    BY <1>2, <2>1, <2>3
  <2> QED BY <1>12, <2>2, <2>3 DEF PersistenceFault
<1>13. ASSUME NEW w \in saves, CheckDurable(w) PROVE Endings'
  <2> DEFINE v == [w EXCEPT !.stage = "clear", !.checked = run.id]
  <2>1. v.rec = w.rec /\ v.checked = run.id
    BY DEF TypeInv, SavesTyped, SaveType
  <2>2. /\ UNCHANGED <<run, db, calls, settled>>
        /\ saves' \subseteq saves \/ (run.active /\ saves' \subseteq saves \cup {v})
    BY <1>13 DEF CheckDurable, IsDurable
  <2> HIDE DEF v
  <2> QED BY <2>1, <2>2 DEF Endings, Ids
<1>14. ASSUME NEW w \in saves, Claim(w) PROVE Endings'
  BY <1>2, <1>14 DEF Claim
<1>15. ASSUME NEW saved \in BOOLEAN, CrashRestart(saved) PROVE Endings'
  <2>1. /\ saves' = {} /\ calls' = {} /\ UNCHANGED settled
        /\ run' = Restored(db.record)
        /\ db' = db \/ db' = Written(run')
    BY <1>15 DEF CrashRestart
  <2>2. run' \in RecordType /\ run'.id = db.record.id /\ ~run'.active
    BY <2>1, RestoredTyped DEF Restored, RecordType, TypeInv, StoreTyped
  <2>3. Real(run)'
    BY <2>1, <2>2 DEF Endings, Real, Restored, RecordType
  <2>4. run'.id <= db.sequence
    BY <2>2 DEF Ids
  <2>5. db'.sequence = db.sequence /\ db'.record \in {db.record, run'}
    <3>1. Written(run').record = run'
      BY DEF Written
    <3> PICK r : r = run'
      OBVIOUS
    <3>2. Written(r).sequence = db.sequence
      BY <2>2, <2>4, WrittenTables
    <3> QED BY <2>1, <3>1, <3>2
  <2> QED BY <2>1, <2>2, <2>3, <2>5 DEF Endings, Real
<1>16. CASE UNCHANGED vars
  BY <1>2, <1>16 DEF vars
<1> QED
  BY <1>4, <1>5, <1>6, <1>7, <1>8, <1>9, <1>10, <1>11, <1>12, <1>13, <1>14,
     <1>15, <1>16 DEF Next

\* What flew under the id of a record flew for the operation of that record,
\* and what flew on its own record is not newer than the stored one.
Flights ==
    /\ \A m \in flown : m.id = run.id => m.op = run.op
    /\ \A m \in flown : m.id = db.record.id => m.op = db.record.op
    /\ \A m \in flown, w \in saves : m.id = w.rec.id => m.op = w.rec.op
    /\ \A m \in flown : Vouched(m) => m.id <= db.record.id

\* Every step keeps the account of what flew.
LEMMA FlightsStep ==
    ASSUME Trusted, Ids, Operations, Remembered, Flights, [Next]_vars
    PROVE  Flights'
<1>1. TypeInv
  BY DEF Trusted
<1> USE Numbers
<1>2. ASSUME UNCHANGED flown, run'.id = run.id, run'.op = run.op,
             db'.record = db.record, saves' \subseteq saves
      PROVE  Flights'
  BY <1>2 DEF Flights
<1>3. ASSUME NEW op \in Ops, LookupOperation(op) PROVE Flights'
  BY <1>2, <1>3 DEF LookupOperation
<1>4. ASSUME NEW c \in calls, AllocateRunID(c) PROVE Flights'
  BY <1>1, <1>2, <1>4 DEF AllocateRunID, TypeInv, StoreTyped
<1>5. ASSUME NEW c \in calls, StartOp(c) PROVE Flights'
  <2>1. UNCHANGED <<db, saves, flown>>
    BY <1>5 DEF StartOp
  <2>2. CASE UNCHANGED run
    BY <1>2, <2>1, <2>2
  <2>3. CASE run'.id = c.id /\ \A m \in flown : m.id # c.id
    BY <2>1, <2>3 DEF Flights
  <2> QED BY <1>5, <2>2, <2>3 DEF StartOp, Ids
<1>6. CASE Progress
  BY <1>1, <1>2, <1>6 DEF Progress, RecordType
<1>7. CASE End
  BY <1>1, <1>2, <1>7 DEF End, Ended, RecordType
<1>8. CASE ClearRecovery
  BY <1>1, <1>2, <1>8 DEF ClearRecovery, RecordType
<1>9. CASE Capture
  <2>1. /\ \A w \in saves' : w \in saves \/ w.rec = run
        /\ UNCHANGED <<run, db, flown>>
    BY <1>9 DEF Capture
  <2> QED BY <2>1 DEF Flights
<1>10. ASSUME NEW w \in saves,
              \/ \E b \in BOOLEAN : SaveOk(w, b)
              \/ \E b \in BOOLEAN, f \in BOOLEAN : SaveError(w, b, f)
       PROVE  Flights'
  <2>1. /\ \A v \in saves' : \E u \in saves : v.rec = u.rec
        /\ UNCHANGED <<run, flown>>
        /\ db'.record \in {db.record, w.rec}
    BY <1>1, <1>10, SaveWrites
  <2>2. db.record.id <= db'.record.id
    <3>1. ~Older(db'.record, db.record) /\ db'.record.id \in Nat
      BY <1>1, <2>1, StoreForward
    <3> QED BY <1>1, <3>1 DEF Older
  <2>3. \A m \in flown : Vouched(m) => m.id <= db'.record.id
    <3>1. db'.record.id \in Nat
      BY <1>1, <2>1
    <3> QED BY <1>1, <2>2, <3>1 DEF Flights
  <2> QED BY <2>1, <2>3 DEF Flights
<1>11. ASSUME NEW w \in saves, PersistenceFault(w) PROVE Flights'
  <2>1. run'.id = run.id /\ run'.op = run.op
    BY <1>1, <1>11 DEF PersistenceFault, Ended, RecordType
  <2> QED BY <1>2, <1>11, <2>1 DEF PersistenceFault
<1>12. ASSUME NEW w \in saves, CheckDurable(w) PROVE Flights'
  <2> DEFINE v == [w EXCEPT !.stage = "clear", !.checked = run.id]
  <2>1. v.rec = w.rec
    BY <1>1 DEF TypeInv, SavesTyped, SaveType
  <2>2. UNCHANGED <<run, db, flown>> /\ saves' \subseteq saves \cup {v}
    BY <1>12 DEF CheckDurable
  <2> HIDE DEF v
  <2> QED BY <2>1, <2>2 DEF Flights
<1>13. ASSUME NEW w \in saves, Claim(w) PROVE Flights'
  <2>1. /\ saves' \subseteq saves /\ UNCHANGED <<run, db>>
        /\ \A m \in flown' :
              \/ m \in flown
              \/ run.active /\ m.id = run.id /\ m.op = run.op /\ m.checked = w.checked
    BY <1>13 DEF Claim
  <2>2. ASSUME NEW m \in flown', Vouched(m) PROVE m.id <= db.record.id
    <3>1. CASE m \in flown
      BY <2>2, <3>1 DEF Flights
    <3>2. CASE run.active /\ m.id = run.id /\ m.checked = w.checked
      BY <1>1, <2>2, <3>2 DEF Vouched, Ids, Remembered
    <3> QED BY <2>1, <3>1, <3>2
  <2> QED BY <2>1, <2>2 DEF Flights, Operations
<1>14. ASSUME NEW saved \in BOOLEAN, CrashRestart(saved) PROVE Flights'
  <2>1. /\ saves' = {} /\ UNCHANGED flown /\ run' = Restored(db.record)
        /\ db'.record \in {db.record, run'}
    BY <1>14 DEF CrashRestart, Written
  <2>2. run'.id = db.record.id /\ run'.op = db.record.op
    BY <1>1, <2>1 DEF Restored, RecordType
  <2> QED BY <2>1, <2>2 DEF Flights
<1>15. CASE UNCHANGED vars
  BY <1>2, <1>15 DEF vars
<1> QED
  BY <1>3, <1>4, <1>5, <1>6, <1>7, <1>8, <1>9, <1>10, <1>11, <1>12, <1>13,
     <1>14, <1>15 DEF Next

\* What the steps of the ledger rest on.
Accounted ==
    /\ Trusted /\ Ids /\ ThisSession /\ Operations /\ Remembered
    /\ Endings /\ Flights

\* Only the current run may still be flying.
LEMMA OnlyTheCurrentIsOpen ==
    ASSUME Remembered PROVE Ledger!OpenRuns \subseteq {run.id}
  BY DEF Remembered, NeverForgotten, Ledger!OpenRuns, Ledger!Vouched, Vouched

\* A run that ends closes its entry.
LEMMA EndingCloses ==
    ASSUME Accounted, run.active \/ run.recovery,
           UNCHANGED <<session, flown>>, settled' = settled \cup {run.id}
    PROVE  Ledger!Next
<1> PICK i : i = run.id
  OBVIOUS
<1>1. i \in 1..MaxRun
  <2>1. run.id # 0 /\ run.id <= MaxRun /\ run.id \in Nat
    BY Numbers, BoundAssumption DEF Accounted, Trusted, Endings, Real, Ids
  <2> QED BY <2>1, BoundAssumption
<1>2. Ledger!OpenRuns \subseteq {i}
  BY OnlyTheCurrentIsOpen DEF Accounted
<1>3. Ledger!Close(i)
  BY <1>2 DEF Ledger!Close
<1> QED BY <1>1, <1>3 DEF Ledger!Next

\* A claim is an entry the ledger admits.
LEMMA ClaimFlies ==
    ASSUME Accounted, NEW w \in saves, Claim(w), run.active
    PROVE  Ledger!Next
<1> USE Numbers
<1>1. /\ TypeInv /\ run.id # 0 /\ run.id \in Nat /\ run.id <= MaxRun
      /\ run.id \notin settled /\ run.op \in Ops /\ session \in Nat
  BY BoundAssumption DEF Accounted, Trusted, TypeInv, Named, Endings, Ids
<1>2. /\ w.stage = "clear" /\ UNCHANGED <<session, settled>>
      /\ flown' = flown \cup {[id |-> run.id, op |-> run.op, session |-> session,
                               checked |-> w.checked]}
  BY DEF Claim
<1>3. PICK e : e = [id |-> run.id, op |-> run.op, session |-> session,
                    checked |-> w.checked]
  OBVIOUS
<1>4. /\ e.id = run.id /\ e.op = run.op /\ e.session = session
      /\ e.checked = w.checked
  BY <1>3
<1>5. /\ w.checked # 0 /\ w.checked <= run.id /\ w.checked \in Nat
      /\ w.checked = run.id \/ w.checked \in settled
  BY <1>1, <1>2 DEF Accounted, Endings, Ids
<1>6. run.id \in 1..MaxRun /\ w.checked \in 1..MaxRun
  BY <1>1, <1>5, BoundAssumption
<1>7. e \in Ledger!Entry
  BY <1>1, <1>3, <1>6 DEF Ledger!Entry
<1>8. Ledger!OpenRuns \subseteq {e.id}
  BY <1>4, OnlyTheCurrentIsOpen DEF Accounted
<1>9. \A f \in flown : f.id = e.id => f.op = e.op /\ f.session = e.session
  BY <1>4 DEF Accounted, Flights, ThisSession
<1>10. \A f \in flown : Vouched(f) => f.id <= e.id
  BY <1>1, <1>4 DEF Accounted, Flights, Ids
<1>11. CASE w.checked = run.id
  <2>1. Stored(run.op, run.id)
    BY <1>1, <1>11 DEF Accounted, Operations
  <2>2. \A f \in flown : Vouched(f) /\ f.op = e.op => f.id = e.id
    BY <1>4, <2>1 DEF Accounted, Operations, Stored
  <2>3. Ledger!Fly(e)
    BY <1>1, <1>2, <1>3, <1>4, <1>8, <1>9, <1>10, <1>11, <2>2
       DEF Ledger!Fly, Ledger!Vouched, Vouched
  <2> QED BY <1>2, <1>3, <1>7, <2>3 DEF Ledger!Next
<1>12. CASE w.checked # run.id
  <2>1. e.checked < e.id /\ e.checked \in settled
    BY <1>1, <1>4, <1>5, <1>12
  <2>2. Ledger!Fly(e)
    BY <1>1, <1>2, <1>3, <1>4, <1>8, <1>9, <1>10, <1>12, <2>1
       DEF Ledger!Fly, Ledger!Vouched, Vouched
  <2> QED BY <1>2, <1>3, <1>7, <2>2 DEF Ledger!Next
<1> QED BY <1>11, <1>12

\* Every step of Core, a crash included, is one the ledger allows.
LEMMA LedgerStep ==
    Accounted /\ [Next]_vars => [Ledger!Next]_(Ledger!vars)
<1> SUFFICES ASSUME Accounted, [Next]_vars
             PROVE  [Ledger!Next]_(Ledger!vars)
  OBVIOUS
<1>1. ASSUME UNCHANGED <<session, flown, settled>>
      PROVE  UNCHANGED Ledger!vars
  BY <1>1 DEF Ledger!vars
<1>2. CASE End
  BY <1>2, EndingCloses DEF End
<1>3. CASE ClearRecovery
  BY <1>3, EndingCloses DEF ClearRecovery
<1>4. ASSUME NEW w \in saves, PersistenceFault(w)
      PROVE  [Ledger!Next]_(Ledger!vars)
  BY <1>1, <1>4, EndingCloses DEF PersistenceFault
<1>5. ASSUME NEW w \in saves, Claim(w) PROVE [Ledger!Next]_(Ledger!vars)
  <2>1. CASE run.active
    BY <1>5, <2>1, ClaimFlies
  <2>2. CASE ~run.active
    BY <1>1, <1>5, <2>2 DEF Claim
  <2> QED BY <2>1, <2>2
<1>6. ASSUME NEW saved \in BOOLEAN, CrashRestart(saved) PROVE Ledger!Next
  <2>1. Ledger!Restart
    BY <1>6 DEF CrashRestart, Ledger!Restart
  <2> QED BY <2>1 DEF Ledger!Next
<1>7. CASE \E op \in Ops : LookupOperation(op)
  BY <1>1, <1>7 DEF LookupOperation
<1>8. CASE \E c \in calls : AllocateRunID(c) \/ StartOp(c)
  BY <1>1, <1>8 DEF AllocateRunID, StartOp
<1>9. CASE Progress \/ Capture
  BY <1>1, <1>9 DEF Progress, Capture
<1>10. CASE \E w \in saves :
              \/ \E b \in BOOLEAN : SaveOk(w, b)
              \/ \E b \in BOOLEAN, f \in BOOLEAN : SaveError(w, b, f)
              \/ CheckDurable(w)
  BY <1>1, <1>10 DEF SaveOk, SaveError, CheckDurable
<1>11. CASE UNCHANGED vars
  BY <1>1, <1>11 DEF vars
<1> QED
  BY <1>2, <1>3, <1>4, <1>5, <1>6, <1>7, <1>8, <1>9, <1>10, <1>11 DEF Next

LEMMA AccountedInit == Init => Accounted
<1> SUFFICES ASSUME Init PROVE Accounted
  OBVIOUS
<1>1. ThisSession /\ Endings /\ Flights
  BY BoundAssumption
     DEF Init, ThisSession, NoAutoResume, Endings, Real, Flights, NoRecord
<1> QED BY <1>1, TrustedInit, IdsInit, OperationsInit, RememberedInit
       DEF Accounted

LEMMA AccountedStep == Accounted /\ [Next]_vars => Accounted'
<1> SUFFICES ASSUME Accounted, [Next]_vars PROVE Accounted'
  OBVIOUS
<1>1. TypeInv
  BY DEF Accounted, Trusted
<1>2. Trusted' /\ Ids' /\ ThisSession' /\ Operations' /\ Remembered'
  BY <1>1, TrustedStep, IdsStep, ThisSessionStep, OperationsStep, RememberedStep
     DEF Accounted
<1>3. Endings' /\ Flights'
  BY <1>1, EndingsStep, FlightsStep DEF Accounted
<1> QED BY <1>2, <1>3 DEF Accounted

\* However Core crashes, whatever saves fail and however StartMission is
\* retried, what flies is what the ledger admits: each run for one operation,
\* in one process, never after its end and never beside another open run.
THEOREM CoreKeepsTheLedger == Spec => LedgerKept
<1>1. Init => Ledger!Init
  BY DEF Init, Ledger!Init
<1>2. Accounted /\ [Next]_vars => [Ledger!Next]_(Ledger!vars)
  BY LedgerStep
<1> QED BY <1>1, <1>2, AccountedInit, AccountedStep, PTL
       DEF Spec, LedgerKept, Ledger!Spec

=============================================================================
