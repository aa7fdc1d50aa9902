-------------------------- MODULE IdempotencyProofs --------------------------
(***************************************************************************)
(* A drone gets the command of a request once, an answer is never of a     *)
(* batch that was cut short, and calls do not wait in a circle, for any    *)
(* calls, requests and drones.                                             *)
(*                                                                         *)
(* The invariant: a call that runs holds the keys it runs under (Owners),  *)
(* and a key in flight is held by a call at work under it (Working); a     *)
(* send not excused is of the holder of its key (Flying), and what is      *)
(* kept, or already passed by a batch, has been handled (Passed).          *)
(***************************************************************************)
EXTENDS Idempotency, TLAPS

Settled == {"batch", "unwinding", "answered", "panicked"}
Running == {"sending", "sent"}

\* c runs a batch: it has taken the key of the batch and not given it back.
Inside(c) ==
    \/ call[c].at \in {"batch", "unwinding"} \cup Running
    \/ call[c].at \in {"asking", "waiting"} /\ call[c].scope # Batch

Holds(c) ==
    /\ call[c].at \in Settled => call[c].scope = Batch
    /\ call[c].at \in Running => call[c].scope \in Drones /\ entry[Key(c)] = Held(c)
    /\ Inside(c) => entry[<<call[c].req, Batch>>] = Held(c)

Owners == \A c \in Calls : Holds(c)

Flying ==
    /\ \A k \in Keys : \A c \in flights[k] :
          entry[k].is \in {"flight", "done"} /\ entry[k].by = c
    /\ \A r \in Requests : flights[<<r, Batch>>] = {}

Whole(r) == Inner(r) \subseteq handled

Kept(k) == entry[k].is \in {"done", "expired"}

TablePassed ==
    /\ \A r \in Requests, d \in Drones : Kept(<<r, d>>) => <<r, d>> \in handled
    /\ \A r \in Requests : Kept(<<r, Batch>>) => Whole(r)

CallPassed(c) ==
    /\ call[c].at \in {"asking", "waiting"} /\ call[c].scope = Batch =>
          call[c].todo = Drones
    /\ Inside(c) => \A d \in Drones \ call[c].todo : <<call[c].req, d>> \in handled
    /\ call[c].at = "answered" => Whole(call[c].req)

Passed == TablePassed /\ \A c \in Calls : CallPassed(c)

-----------------------------------------------------------------------------
(* Types                                                                   *)

\* The key of a call is a key; those of a request's drones are its own.
LEMMA KeyTyped ==
    ASSUME TypeOK, NEW c \in Calls
    PROVE  Key(c) \in Keys /\ <<call[c].req, Batch>> \in Keys
  BY DEF TypeOK, CallType, Key, Keys, Scopes

\* What a sweep leaves is a table again, and it touches nothing in flight.
LEMMA SweptTyped ==
    ASSUME TypeOK, NEW S
    PROVE  /\ Swept(S) \in [Keys -> [is: {"absent", "flight", "done", "expired"},
                                     by: Calls \cup {Nobody}]]
           /\ \A k \in Keys : Swept(S)[k] = entry[k]
                              \/ (entry[k].is = "expired" /\ Swept(S)[k] = Absent)
  BY DEF TypeOK, Swept, Absent

\* A call moves from one description of a call to another, and the others stay.
LEMMA MovesTyped ==
    ASSUME TypeOK, NEW c \in Calls, NEW now \in CallType, Moves(c, now)
    PROVE  /\ call' \in [Calls -> CallType] /\ call'[c] = now
           /\ \A d \in Calls \ {c} : call'[d] = call[d]
  BY DEF TypeOK, Moves

\* A batch that comes back from a drone has one drone less to do.
LEMMA ReturnedTyped ==
    ASSUME TypeOK, NEW c \in Calls
    PROVE  /\ Returned(c) \in CallType
           /\ Returned(c).at = "batch" /\ Returned(c).scope = Batch
           /\ Returned(c).req = call[c].req
           /\ Returned(c).todo = call[c].todo \ {call[c].scope}
  BY DEF TypeOK, Returned, CallType, Scopes

\* The initial state has the types.
LEMMA TypeInit == Init => TypeOK
  <1>1. (CHOOSE r \in Requests : TRUE) \in Requests
    BY RequestAssumption
  <1> QED BY <1>1 DEF Init, TypeOK, CallType, Scopes, Absent

\* What calls change of themselves keeps the type.
LEMMA ChangeTyped ==
    ASSUME TypeOK, NEW c \in Calls
    PROVE  /\ \A a \in {"answered", "batch", "sending", "sent", "panicked"} :
                 [call[c] EXCEPT !.at = a] \in CallType
           /\ \A a \in {"asking", "waiting"}, o \in Calls \cup {Nobody} :
                 [call[c] EXCEPT !.at = a, !.on = o] \in CallType
           /\ \A d \in Drones : [call[c] EXCEPT !.at = "asking", !.scope = d] \in CallType
           /\ [call[c] EXCEPT !.at = "unwinding", !.scope = Batch] \in CallType
<1>1. call[c] \in CallType
  BY DEF TypeOK
<1>2. \A a \in {"answered", "batch", "sending", "sent", "panicked"} :
         [call[c] EXCEPT !.at = a] \in CallType
  BY <1>1 DEF CallType
<1>3. \A a \in {"asking", "waiting"}, o \in Calls \cup {Nobody} :
         [call[c] EXCEPT !.at = a, !.on = o] \in CallType
  BY <1>1 DEF CallType
<1>4. \A d \in Drones : [call[c] EXCEPT !.at = "asking", !.scope = d] \in CallType
  BY <1>1 DEF CallType, Scopes
<1>5. [call[c] EXCEPT !.at = "unwinding", !.scope = Batch] \in CallType
  BY <1>1 DEF CallType, Scopes
<1> QED BY <1>2, <1>3, <1>4, <1>5

\* Every step keeps the types.
LEMMA TypeStep == TypeOK /\ [Next]_vars => TypeOK'
<1> SUFFICES ASSUME TypeOK, [Next]_vars PROVE TypeOK'
  OBVIOUS
<1> DEFINE Table == [Keys -> [is: {"absent", "flight", "done", "expired"},
                              by: Calls \cup {Nobody}]]
<1>1. ASSUME NEW c \in Calls, NEW r \in Requests, Arrive(c, r) PROVE TypeOK'
  <2>1. [at |-> "asking", req |-> r, scope |-> Batch, todo |-> Drones, on |-> Nobody]
           \in CallType
    BY DEF CallType, Scopes
  <2> QED BY <1>1, <2>1, MovesTyped DEF Arrive, TypeOK
<1>2. ASSUME NEW c \in Calls, NEW S \in {{}, Keys}, Ask(c, S) PROVE TypeOK'
  <2> DEFINE e == Swept(S)[Key(c)]
  <2>1. /\ e.by \in Calls \cup {Nobody} /\ Key(c) \in Keys /\ Held(c).is = "flight"
        /\ Swept(S) \in Table
    BY KeyTyped, SweptTyped DEF Held
  <2>2. \E now \in CallType : Moves(c, now)
    <3>1. CASE Wait(c, e)
      BY <2>1, <3>1, ChangeTyped DEF Wait
    <3>2. CASE Replay(c, e)
      BY <3>2, ChangeTyped, ReturnedTyped DEF Replay
    <3>3. CASE Own(c, e)
      BY <3>3, ChangeTyped DEF Own
    <3> QED BY <1>2, <3>1, <3>2, <3>3 DEF Ask
  <2>3. call' \in [Calls -> CallType]
    BY <2>2, MovesTyped
  <2>4. [Swept(S) EXCEPT ![Key(c)] = Held(c)] \in Table
    BY <2>1 DEF Held
  <2>5. entry' \in Table /\ flights' = flights /\ handled' = handled
    BY <1>2, <2>1, <2>4 DEF Ask
  <2> QED BY <2>3, <2>5 DEF TypeOK
<1>3. ASSUME NEW c \in Calls, Wake(c) PROVE TypeOK'
  BY <1>3, ChangeTyped, MovesTyped DEF Wake, TypeOK
<1>4. ASSUME NEW c \in Calls, NEW d \in Drones, NextDrone(c, d) PROVE TypeOK'
  BY <1>4, ChangeTyped, MovesTyped DEF NextDrone, TypeOK
<1>5. ASSUME NEW c \in Calls, Send(c) PROVE TypeOK'
  <2>1. flights' \in [Keys -> SUBSET Calls]
    BY <1>5, KeyTyped DEF Send, TypeOK
  <2> QED BY <1>5, <2>1, ChangeTyped, MovesTyped DEF Send, TypeOK
<1>6. ASSUME NEW c \in Calls
      PROVE  Completed(c, Key(c)) \in Table /\ Abandoned(c, Key(c)) \in Table
  BY KeyTyped DEF Completed, Abandoned, Absent, TypeOK
<1>7. ASSUME NEW c \in Calls, SendReturns(c) PROVE TypeOK'
  BY <1>6, <1>7, KeyTyped, ReturnedTyped, MovesTyped DEF SendReturns, TypeOK
<1>8. ASSUME NEW c \in Calls, FinishBatch(c) PROVE TypeOK'
  BY <1>6, <1>8, ChangeTyped, MovesTyped DEF FinishBatch, TypeOK
<1>9. ASSUME NEW c \in Calls, Panic(c) PROVE TypeOK'
  <2>1. flights' \in [Keys -> SUBSET Calls]
    BY <1>9, KeyTyped DEF Panic, TypeOK
  <2> QED BY <1>6, <1>9, <2>1, ChangeTyped, MovesTyped DEF Panic, TypeOK
<1>10. ASSUME NEW c \in Calls, Unwind(c) PROVE TypeOK'
  BY <1>6, <1>10, ChangeTyped, MovesTyped DEF Unwind, TypeOK
<1>11. ASSUME NEW k \in Keys, Expire(k) PROVE TypeOK'
  BY <1>11 DEF Expire, TypeOK
<1>12. CASE UNCHANGED vars
  BY <1>12 DEF vars, TypeOK
<1> QED BY <1>1, <1>2, <1>3, <1>4, <1>5, <1>7, <1>8, <1>9, <1>10, <1>11, <1>12
       DEF Next, Step

\* Every variable keeps its type in every behaviour.
THEOREM TypeCorrect == Spec => []TypeOK
<1>1. Init => TypeOK
  BY TypeInit
<1>2. TypeOK /\ [Next]_vars => TypeOK'
  BY TypeStep
<1> QED BY <1>1, <1>2, PTL DEF Spec

-----------------------------------------------------------------------------
(* Owners                                                                  *)

\* An owner that completes or gives up a key touches no other key, and none at
\* all that it does not hold.
LEMMA OwnKeyOnly ==
    ASSUME TypeOK, NEW c \in Calls, NEW k \in Keys, NEW j \in Keys,
           j # k \/ entry[k] # Held(c)
    PROVE  Completed(c, k)[j] = entry[j] /\ Abandoned(c, k)[j] = entry[j]
  BY DEF TypeOK, Completed, Abandoned

\* A key that its owner completes is done, one that it gives up is absent.
LEMMA OwnKeyLeft ==
    ASSUME TypeOK, NEW c \in Calls, NEW k \in Keys, entry[k] = Held(c)
    PROVE  /\ Completed(c, k)[k] = [is |-> "done", by |-> c]
           /\ Abandoned(c, k)[k] = Absent
  BY DEF TypeOK, Completed, Abandoned, Held

\* The key of a drone is not the key of its batch.
LEMMA KeysDiffer ==
    ASSUME TypeOK, NEW c \in Calls, call[c].scope \in Drones
    PROVE  Key(c) # <<call[c].req, Batch>>
  BY DroneAssumption DEF Key, Batch

\* What one critical section of do leaves: the key of an owner is its own, and
\* other keys are swept at most.
LEMMA Asked ==
    ASSUME TypeOK, NEW c \in Calls, NEW S, Ask(c, S)
    PROVE  \A k \in Keys :
              \/ entry'[k] = entry[k]
              \/ entry[k].is = "expired" /\ entry'[k] = Absent
              \/ /\ entry[k].is \in {"absent", "expired"} /\ k = Key(c)
                 /\ entry'[k] = Held(c)
<1> DEFINE e == Swept(S)[Key(c)]
<1>1. CASE entry' = Swept(S)
  BY <1>1, SweptTyped
<1>2. CASE Own(c, e) /\ entry' = [Swept(S) EXCEPT ![Key(c)] = Held(c)]
  <2>1. entry[Key(c)].is \in {"absent", "expired"}
    BY <1>2, SweptTyped, KeyTyped DEF Own
  <2>2. entry'[Key(c)] = Held(c) /\ \A k \in Keys \ {Key(c)} : entry'[k] = Swept(S)[k]
    BY <1>2, SweptTyped, KeyTyped
  <2> QED BY <2>1, <2>2, SweptTyped
<1> QED BY <1>1, <1>2 DEF Ask

\* A step of c leaves the other calls alone, and the keys they hold.
LEMMA Frame ==
    ASSUME TypeOK, NEW c \in Calls, Step(c)
    PROVE  /\ \A d \in Calls \ {c} : call'[d] = call[d]
           /\ \A d \in Calls \ {c}, k \in Keys : entry[k] = Held(d) => entry'[k] = Held(d)
<1>1. ASSUME NEW S, Ask(c, S)
      PROVE  /\ \A d \in Calls \ {c} : call'[d] = call[d]
             /\ \A d \in Calls \ {c}, k \in Keys :
                   entry[k] = Held(d) => entry'[k] = Held(d)
  <2>1. \A d \in Calls \ {c} : call'[d] = call[d]
    BY <1>1 DEF Ask, Wait, Replay, Own, Moves, TypeOK
  <2>2. ASSUME NEW d \in Calls, NEW k \in Keys, entry[k] = Held(d)
        PROVE  entry'[k] = Held(d)
    <3>1. entry[k].is = "flight"
      BY <2>2 DEF Held
    <3> QED BY <1>1, <2>2, <3>1, Asked
  <2> QED BY <2>1, <2>2
<1>2. CASE entry' = entry /\ \E now : Moves(c, now)
  BY <1>2 DEF Moves, TypeOK
<1>3. CASE /\ entry' = Completed(c, Key(c)) \/ entry' = Abandoned(c, Key(c))
           /\ \E now : Moves(c, now)
  <2>1. \A d \in Calls \ {c} : call'[d] = call[d]
    BY <1>3 DEF Moves, TypeOK
  <2>2. ASSUME NEW d \in Calls \ {c}, NEW k \in Keys, entry[k] = Held(d)
        PROVE  Completed(c, Key(c))[k] = Held(d) /\ Abandoned(c, Key(c))[k] = Held(d)
    <3>1. Held(d) # Held(c) /\ Key(c) \in Keys
      BY KeyTyped DEF Held
    <3>2. k # Key(c) \/ entry[Key(c)] # Held(c)
      BY <2>2, <3>1
    <3> QED BY <2>2, <3>1, <3>2, OwnKeyOnly
  <2> QED BY <1>3, <2>1, <2>2
<1>4. CASE Wake(c) \/ (\E d \in Drones : NextDrone(c, d)) \/ Send(c)
  BY <1>2, <1>4 DEF Wake, NextDrone, Send
<1>5. CASE SendReturns(c) \/ FinishBatch(c) \/ Panic(c) \/ Unwind(c)
  BY <1>3, <1>5 DEF SendReturns, FinishBatch, Panic, Unwind
<1> QED BY <1>1, <1>4, <1>5 DEF Step

\* A call keeps holding what it holds while others move.
LEMMA OthersHold ==
    ASSUME TypeOK, NEW d \in Calls, Holds(d), call'[d] = call[d],
           \A k \in Keys : entry[k] = Held(d) => entry'[k] = Held(d)
    PROVE  Holds(d)'
  <1>1. Key(d)' = Key(d) /\ Inside(d)' = Inside(d)
    BY DEF Key, Inside
  <1>2. Key(d) \in Keys /\ <<call[d].req, Batch>> \in Keys
    BY KeyTyped
  <1>3. Held(d)' = Held(d)
    BY DEF Held
  <1> QED BY <1>1, <1>2, <1>3 DEF Holds

\* Every call that runs holds the keys it runs under.
LEMMA OwnersStep == TypeOK /\ Owners /\ [Next]_vars => Owners'
<1> SUFFICES ASSUME TypeOK, Owners, [Next]_vars PROVE Owners'
  OBVIOUS
<1> USE DEF Owners
<1>1. ASSUME NEW c \in Calls, Step(c) PROVE Holds(c)'
  <2>1. Holds(c) /\ call[c] \in CallType
    BY DEF TypeOK
  <2>2. Key(c) \in Keys /\ <<call[c].req, Batch>> \in Keys
    BY KeyTyped
  <2>3. ASSUME NEW S, Ask(c, S) PROVE Holds(c)'
    <3> DEFINE e == Swept(S)[Key(c)]
    <3>1. call[c].at = "asking"
      BY <2>3 DEF Ask
    <3>2. call[c].scope # Batch => entry'[<<call[c].req, Batch>>] = Held(c)
      <4>1. call[c].scope # Batch => entry[<<call[c].req, Batch>>] = Held(c)
        BY <2>1, <3>1 DEF Holds, Inside
      <4> QED BY <2>2, <2>3, <4>1, Asked DEF Held
    <3>3. CASE Wait(c, e)
      <4>1. call'[c] = [call[c] EXCEPT !.at = "waiting", !.on = e.by]
        BY <3>3 DEF Wait, Moves, TypeOK
      <4> QED BY <2>1, <3>2, <4>1 DEF Holds, Inside, Settled, Running, CallType, Held
    <3>4. CASE Replay(c, e)
      <4>1. call'[c] = IF call[c].scope = Batch
                       THEN [call[c] EXCEPT !.at = "answered"] ELSE Returned(c)
        BY <3>4 DEF Replay, Moves, TypeOK
      <4> QED BY <2>1, <3>2, <4>1, ReturnedTyped
           DEF Holds, Inside, Settled, Running, CallType, Held
    <3>5. CASE Own(c, e) /\ entry' = [Swept(S) EXCEPT ![Key(c)] = Held(c)]
      <4>1. call'[c] = [call[c] EXCEPT !.at =
                          IF call[c].scope = Batch THEN "batch" ELSE "sending"]
        BY <3>5 DEF Own, Moves, TypeOK
      <4>2. entry'[Key(c)] = Held(c)
        BY <2>2, <3>5, SweptTyped
      <4>3. Key(c)' = Key(c) /\ Held(c)' = Held(c)
        BY <2>1, <4>1 DEF Key, CallType, Held
      <4>4. CASE call[c].scope = Batch
        <5>1. Key(c) = <<call[c].req, Batch>>
          BY <4>4 DEF Key
        <5>2. call'[c].at = "batch" /\ call'[c].scope = Batch /\ call'[c].req = call[c].req
          BY <2>1, <4>1, <4>4 DEF CallType
        <5> QED BY <4>2, <4>3, <5>1, <5>2 DEF Holds, Running, Settled
      <4>5. CASE call[c].scope # Batch
        <5>1. call'[c].at = "sending" /\ call'[c].scope = call[c].scope
              /\ call'[c].req = call[c].req /\ call[c].scope \in Drones
          BY <2>1, <4>1, <4>5 DEF CallType, Scopes
        <5> QED BY <3>2, <4>2, <4>3, <4>5, <5>1 DEF Holds, Running, Settled
      <4> QED BY <4>4, <4>5
    <3> QED BY <2>3, <3>3, <3>4, <3>5 DEF Ask
  <2>4. CASE Wake(c)
    <3>1. call'[c] = [call[c] EXCEPT !.at = "asking", !.on = Nobody] /\ entry' = entry
          /\ call[c].at = "waiting"
      BY <2>4 DEF Wake, Moves, TypeOK
    <3> QED BY <2>1, <3>1 DEF Holds, Inside, Settled, Running, CallType, Held
  <2>5. ASSUME NEW d \in Drones, NextDrone(c, d) PROVE Holds(c)'
    <3>1. call'[c] = [call[c] EXCEPT !.at = "asking", !.scope = d] /\ entry' = entry
          /\ call[c].at = "batch"
      BY <2>5 DEF NextDrone, Moves, TypeOK
    <3> QED BY <2>1, <3>1 DEF Holds, Inside, Settled, Running, CallType, Held
  <2>6. CASE Send(c)
    <3>1. call'[c] = [call[c] EXCEPT !.at = "sent"] /\ entry' = entry
          /\ call[c].at = "sending"
      BY <2>6 DEF Send, Moves, TypeOK
    <3>2. Key(c)' = Key(c)
      BY <2>1, <3>1 DEF Key, CallType
    <3> QED BY <2>1, <3>1, <3>2 DEF Holds, Inside, Settled, Running, CallType, Held
  <2>7. ASSUME SendReturns(c) \/ Panic(c)
        PROVE  entry'[<<call[c].req, Batch>>] = Held(c)
    <3>1. call[c].at \in Running
      BY <2>7 DEF SendReturns, Panic, Running
    <3>2. Key(c) # <<call[c].req, Batch>> /\ entry[<<call[c].req, Batch>>] = Held(c)
      BY <2>1, <3>1, KeysDiffer DEF Holds, Inside
    <3>3. /\ Completed(c, Key(c))[<<call[c].req, Batch>>] = Held(c)
          /\ Abandoned(c, Key(c))[<<call[c].req, Batch>>] = Held(c)
      BY <2>2, <3>2, OwnKeyOnly
    <3> QED BY <2>7, <3>3 DEF SendReturns, Panic
  <2>8. CASE SendReturns(c)
    <3>1. call'[c] = Returned(c)
      BY <2>8 DEF SendReturns, Moves, TypeOK
    <3> QED BY <2>7, <2>8, <3>1, ReturnedTyped DEF Holds, Settled, Running, Held
  <2>9. CASE Panic(c)
    <3>1. call'[c] = [call[c] EXCEPT !.at = "unwinding", !.scope = Batch]
      BY <2>9 DEF Panic, Moves, TypeOK
    <3> QED BY <2>1, <2>7, <2>9, <3>1 DEF Holds, Settled, Running, CallType, Held
  <2>10. CASE FinishBatch(c)
    <3>1. call'[c] = [call[c] EXCEPT !.at = "answered"] /\ call[c].at = "batch"
      BY <2>10 DEF FinishBatch, Moves, TypeOK
    <3> QED BY <2>1, <3>1 DEF Holds, Inside, Settled, Running, CallType
  <2>11. CASE Unwind(c)
    <3>1. call'[c] = [call[c] EXCEPT !.at = "panicked"] /\ call[c].at = "unwinding"
      BY <2>11 DEF Unwind, Moves, TypeOK
    <3> QED BY <2>1, <3>1 DEF Holds, Inside, Settled, Running, CallType
  <2> QED BY <1>1, <2>3, <2>4, <2>5, <2>6, <2>8, <2>9, <2>10, <2>11 DEF Step
<1>2. ASSUME NEW c \in Calls, Step(c) PROVE Owners'
  BY <1>1, <1>2, Frame, OthersHold
<1>3. ASSUME NEW c \in Calls, NEW r \in Requests, Arrive(c, r) PROVE Owners'
  <2>1. \A d \in Calls \ {c} : call'[d] = call[d]
    BY <1>3 DEF Arrive, Moves, TypeOK
  <2>2. call'[c].at = "asking" /\ call'[c].scope = Batch /\ entry' = entry
    BY <1>3 DEF Arrive, Moves, TypeOK
  <2>3. Holds(c)'
    BY <2>2 DEF Holds, Inside, Settled, Running
  <2> QED BY <2>1, <2>2, <2>3, OthersHold
<1>4. ASSUME NEW k \in Keys, Expire(k) PROVE Owners'
  <2>1. call' = call /\ \A d \in Calls, j \in Keys : entry[j] = Held(d) => entry'[j] = Held(d)
    BY <1>4 DEF Expire, Held, TypeOK
  <2> QED BY <2>1, OthersHold
<1>5. CASE UNCHANGED vars
  BY <1>5, OthersHold DEF vars
<1> QED BY <1>2, <1>3, <1>4, <1>5 DEF Next

-----------------------------------------------------------------------------
(* Flying                                                                  *)

Serving == TypeOK /\ Owners /\ Flying

\* A send that is not excused is of the owner of its key.
LEMMA FlyingStep == Serving /\ [Next]_vars => Flying'
<1> SUFFICES ASSUME TypeOK, Owners, Flying, [Next]_vars PROVE Flying'
  BY DEF Serving
<1>1. ASSUME NEW c \in Calls, NEW S, Ask(c, S) PROVE Flying'
  <2>1. flights' = flights
    BY <1>1 DEF Ask
  <2>2. ASSUME NEW k \in Keys, NEW d \in flights[k] PROVE entry'[k] = entry[k]
    <3>1. entry[k].is \in {"flight", "done"}
      BY <2>2 DEF Flying
    <3> QED BY <1>1, <3>1, Asked
  <2> QED BY <2>1, <2>2 DEF Flying
<1>2. ASSUME NEW c \in Calls, Send(c) PROVE Flying'
  <2>1. /\ Key(c) \in Keys /\ call[c].scope \in Drones
        /\ entry[Key(c)] = Held(c) /\ Key(c) # <<call[c].req, Batch>>
    BY <1>2, KeyTyped, KeysDiffer DEF Send, Owners, Holds, Running
  <2>2. \A r \in Requests : Key(c) # <<r, Batch>>
    BY <2>1, DroneAssumption DEF Key, Batch
  <2>3. /\ entry' = entry
        /\ \A k \in Keys \ {Key(c)} : flights'[k] = flights[k]
        /\ flights'[Key(c)] = flights[Key(c)] \cup {c}
    BY <1>2, <2>1 DEF Send, TypeOK
  <2>4. \A r \in Requests : <<r, Batch>> \in Keys
    BY DEF Keys, Scopes
  <2>5. \A r \in Requests : flights'[<<r, Batch>>] = {}
    BY <2>2, <2>3, <2>4 DEF Flying
  <2>6. ASSUME NEW k \in Keys, NEW d \in flights'[k]
        PROVE  entry'[k].is \in {"flight", "done"} /\ entry'[k].by = d
    <3>1. CASE d \in flights[k]
      BY <2>3, <3>1 DEF Flying
    <3>2. CASE k = Key(c) /\ d = c
      BY <2>1, <2>3, <3>2 DEF Held
    <3> QED BY <2>3, <2>6, <3>1, <3>2
  <2> QED BY <2>5, <2>6 DEF Flying
<1>3. ASSUME NEW c \in Calls, SendReturns(c) \/ FinishBatch(c) PROVE Flying'
  <2>1. Key(c) \in Keys /\ flights' = flights /\ entry' = Completed(c, Key(c))
    BY <1>3, KeyTyped DEF SendReturns, FinishBatch
  <2>2. ASSUME NEW k \in Keys, NEW d \in flights[k]
        PROVE  entry'[k].is \in {"flight", "done"} /\ entry'[k].by = d
    <3>1. CASE k # Key(c) \/ entry[k] # Held(c)
      BY <2>1, <3>1, OwnKeyOnly DEF Flying
    <3>2. CASE k = Key(c) /\ entry[k] = Held(c)
      <4>1. d = c
        BY <3>2 DEF Flying, Held
      <4>2. Completed(c, Key(c))[Key(c)] = [is |-> "done", by |-> c]
        BY <2>1, <3>2, OwnKeyLeft
      <4> QED BY <2>1, <3>2, <4>1, <4>2
    <3> QED BY <3>1, <3>2
  <2> QED BY <2>1, <2>2 DEF Flying
<1>4. ASSUME NEW c \in Calls, Panic(c) PROVE Flying'
  <2>1. Key(c) \in Keys /\ entry[Key(c)] = Held(c)
    BY <1>4, KeyTyped DEF Panic, Owners, Holds, Running
  <2>2. flights[Key(c)] \subseteq {c}
    BY <2>1 DEF Flying, Held
  <2>3. /\ flights'[Key(c)] = {}
        /\ \A k \in Keys \ {Key(c)} : flights'[k] = flights[k] /\ entry'[k] = entry[k]
    BY <1>4, <2>1, <2>2, OwnKeyOnly DEF Panic, TypeOK
  <2>4. \A r \in Requests : <<r, Batch>> \in Keys
    BY DEF Keys, Scopes
  <2> QED BY <2>3, <2>4 DEF Flying
<1>5. ASSUME NEW c \in Calls, Unwind(c) PROVE Flying'
  <2>1. Key(c) = <<call[c].req, Batch>> /\ Key(c) \in Keys /\ call[c].req \in Requests
    BY <1>5, KeyTyped DEF Unwind, Owners, Holds, Settled, Key, TypeOK, CallType
  <2>2. flights' = flights /\ flights[Key(c)] = {}
    BY <1>5, <2>1 DEF Unwind, Flying
  <2>3. \A k \in Keys \ {Key(c)} : entry'[k] = entry[k]
    BY <1>5, <2>1, OwnKeyOnly DEF Unwind
  <2> QED BY <2>2, <2>3 DEF Flying
<1>6. ASSUME NEW k \in Keys, Expire(k) PROVE Flying'
  <2>1. /\ flights'[k] = {}
        /\ \A j \in Keys \ {k} : flights'[j] = flights[j] /\ entry'[j] = entry[j]
    BY <1>6 DEF Expire, TypeOK
  <2>2. \A r \in Requests : <<r, Batch>> \in Keys
    BY DEF Keys, Scopes
  <2> QED BY <2>1, <2>2 DEF Flying
<1>7. CASE UNCHANGED <<entry, flights>>
  BY <1>7 DEF Flying
<1>8. ASSUME NEW c \in Calls, Wake(c) \/ \E d \in Drones : NextDrone(c, d)
      PROVE  Flying'
  BY <1>7, <1>8 DEF Wake, NextDrone
<1>9. ASSUME NEW c \in Calls, NEW r \in Requests, Arrive(c, r) PROVE Flying'
  BY <1>7, <1>9 DEF Arrive
<1> QED BY <1>1, <1>2, <1>3, <1>4, <1>5, <1>6, <1>7, <1>8, <1>9
       DEF Next, Step, vars

\* Initially nothing is held, sent or kept.
LEMMA ServingInit == Init => Serving
<1> SUFFICES ASSUME Init PROVE Serving
  OBVIOUS
<1>1. Owners
  BY DEF Init, Owners, Holds, Inside, Settled, Running
<1>2. Flying
  BY DEF Init, Flying, Keys, Scopes
<1> QED BY <1>1, <1>2, TypeInit DEF Serving

\* However often a request is retried, a drone gets its command once, unless
\* that send panicked or its result has expired.
THEOREM RetriesSendOnce == Spec => []SentOnce
<1>1. Init => Serving
  BY ServingInit
<1>2. Serving /\ [Next]_vars => Serving'
  BY TypeStep, OwnersStep, FlyingStep DEF Serving
<1>3. Serving => SentOnce
  BY DEF Serving, Flying, SentOnce
<1> QED BY <1>1, <1>2, <1>3, PTL DEF Spec

-----------------------------------------------------------------------------
(* Passed                                                                  *)

\* Keys and requests of the drones' commands.
LEMMA InnerKeys ==
    \A r \in Requests : /\ <<r, Batch>> \in Keys
                        /\ \A d \in Drones : <<r, d>> \in Keys /\ <<r, d>> \in Inner(r)
  BY DEF Keys, Scopes, Inner

\* The table stays as it should be if nothing is newly kept.
LEMMA NothingKept ==
    ASSUME TablePassed, handled \subseteq handled',
           \A k \in Keys : entry'[k] = entry[k] \/ ~Kept(k)' \/ Kept(k)
    PROVE  TablePassed'
<1>1. \A k \in Keys : Kept(k)' => Kept(k)
  BY DEF Kept
<1> QED BY <1>1, InnerKeys DEF TablePassed, Whole

\* A call that does not move stays as it should be.
LEMMA CallStays ==
    ASSUME NEW d \in Calls, CallPassed(d), call'[d] = call[d],
           handled \subseteq handled'
    PROVE  CallPassed(d)'
<1>1. Inside(d)' = Inside(d)
  BY DEF Inside
<1> QED BY <1>1 DEF CallPassed, Whole

\* What is kept, and what a batch has come past, has been handled.
LEMMA PassedStep == TypeOK /\ Owners /\ Passed /\ [Next]_vars => Passed'
<1> SUFFICES ASSUME TypeOK, Owners, Passed, [Next]_vars PROVE Passed'
  OBVIOUS
<1>1. TablePassed /\ \A c \in Calls : CallPassed(c)
  BY DEF Passed
<1>2. ASSUME NEW c \in Calls, Step(c) PROVE TablePassed' /\ CallPassed(c)'
  <2>1. call[c] \in CallType /\ Key(c) \in Keys /\ Holds(c) /\ CallPassed(c)
    BY <1>1, KeyTyped DEF TypeOK, Owners
  <2>2. ASSUME NEW S, Ask(c, S) PROVE TablePassed' /\ CallPassed(c)'
    <3> DEFINE e == Swept(S)[Key(c)]
    <3>1. handled' = handled /\ call[c].at = "asking"
      BY <2>2 DEF Ask
    <3>2. \A k \in Keys : entry'[k] = entry[k] \/ ~Kept(k)'
      <4>1. Absent.is = "absent" /\ Held(c).is = "flight"
        BY DEF Absent, Held
      <4> QED BY <2>2, <4>1, Asked DEF Kept
    <3>3. TablePassed'
      BY <1>1, <3>1, <3>2, NothingKept
    <3>4. CASE Wait(c, e)
      <4>1. call'[c] = [call[c] EXCEPT !.at = "waiting", !.on = e.by]
        BY <3>4 DEF Wait, Moves, TypeOK
      <4> QED BY <2>1, <3>1, <3>3, <4>1 DEF CallPassed, Inside, CallType, Running, Whole
    <3>5. CASE Replay(c, e)
      <4>1. Kept(Key(c))
        BY <2>1, <3>5, SweptTyped DEF Replay, Kept, Absent
      <4>2. CASE call[c].scope = Batch
        <5>1. call'[c] = [call[c] EXCEPT !.at = "answered"]
          BY <3>5, <4>2 DEF Replay, Moves, TypeOK
        <5>2. Whole(call[c].req)
          BY <1>1, <2>1, <4>1, <4>2 DEF TablePassed, Key, CallType
        <5> QED BY <2>1, <3>1, <3>3, <5>1, <5>2
             DEF CallPassed, Inside, CallType, Running, Whole
      <4>3. CASE call[c].scope # Batch
        <5>1. call'[c] = Returned(c)
          BY <3>5, <4>3 DEF Replay, Moves, TypeOK
        <5>2. <<call[c].req, call[c].scope>> \in handled
          BY <1>1, <2>1, <4>1, <4>3 DEF TablePassed, Key, CallType, Scopes
        <5>3. Inside(c)
          BY <3>1, <4>3 DEF Inside
        <5> QED BY <2>1, <3>1, <3>3, <5>1, <5>2, <5>3, ReturnedTyped DEF CallPassed
      <4> QED BY <4>2, <4>3
    <3>6. CASE Own(c, e)
      <4>1. call'[c] = [call[c] EXCEPT !.at =
                          IF call[c].scope = Batch THEN "batch" ELSE "sending"]
        BY <3>6 DEF Own, Moves, TypeOK
      <4>2. CASE call[c].scope = Batch
        BY <2>1, <3>1, <3>3, <4>1, <4>2 DEF CallPassed, CallType
      <4>3. CASE call[c].scope # Batch
        <5>1. Inside(c)
          BY <3>1, <4>3 DEF Inside
        <5> QED BY <2>1, <3>1, <3>3, <4>1, <4>3, <5>1 DEF CallPassed, CallType
      <4> QED BY <4>2, <4>3
    <3> QED BY <2>2, <3>4, <3>5, <3>6 DEF Ask
  <2>3. CASE Wake(c) \/ (\E d \in Drones : NextDrone(c, d)) \/ Send(c)
    <3>1. TablePassed'
      BY <1>1, <2>3, NothingKept DEF Wake, NextDrone, Send
    <3>2. CASE Wake(c)
      <4>1. call'[c] = [call[c] EXCEPT !.at = "asking", !.on = Nobody]
            /\ call[c].at = "waiting" /\ handled' = handled
        BY <3>2 DEF Wake, Moves, TypeOK
      <4> QED BY <2>1, <3>1, <4>1 DEF CallPassed, Inside, CallType, Running
    <3>3. ASSUME NEW d \in Drones, NextDrone(c, d) PROVE CallPassed(c)'
      <4>1. call'[c] = [call[c] EXCEPT !.at = "asking", !.scope = d]
            /\ call[c].at = "batch" /\ handled' = handled
        BY <3>3 DEF NextDrone, Moves, TypeOK
      <4> QED BY <2>1, <4>1, DroneAssumption DEF CallPassed, Inside, CallType, Batch
    <3>4. CASE Send(c)
      <4>1. call'[c] = [call[c] EXCEPT !.at = "sent"]
            /\ call[c].at = "sending" /\ handled' = handled
        BY <3>4 DEF Send, Moves, TypeOK
      <4> QED BY <2>1, <3>1, <4>1 DEF CallPassed, Inside, CallType, Running
    <3> QED BY <2>3, <3>1, <3>2, <3>3, <3>4
  <2>4. CASE SendReturns(c)
    <3>1. /\ call'[c] = Returned(c) /\ entry' = Completed(c, Key(c))
          /\ handled' = handled \cup {Key(c)} /\ call[c].at = "sent"
      BY <2>4 DEF SendReturns, Moves, TypeOK
    <3>2. Inside(c) /\ call[c].scope \in Drones /\ call[c].req \in Requests
      BY <2>1, <3>1 DEF Inside, Running, Holds, CallType
    <3>3. CallPassed(c)'
      BY <2>1, <3>1, <3>2, ReturnedTyped DEF CallPassed, Key
    <3>4. \A k \in Keys \ {Key(c)} : entry'[k] = entry[k]
      BY <2>1, <3>1, OwnKeyOnly
    <3>5. \A r \in Requests : Key(c) # <<r, Batch>>
      BY <3>2, DroneAssumption DEF Key, Batch
    <3>6. \A k \in Keys \ {Key(c)} : Kept(k)' => Kept(k)
      BY <3>4 DEF Kept
    <3> QED BY <1>1, <3>1, <3>3, <3>5, <3>6, InnerKeys DEF TablePassed, Whole
  <2>5. CASE FinishBatch(c)
    <3>1. /\ call'[c] = [call[c] EXCEPT !.at = "answered"] /\ handled' = handled
          /\ entry' = Completed(c, Key(c)) /\ call[c].at = "batch"
          /\ call[c].todo = {}
      BY <2>5 DEF FinishBatch, Moves, TypeOK
    <3>2. Key(c) = <<call[c].req, Batch>> /\ call[c].req \in Requests
      BY <2>1, <3>1 DEF Holds, Settled, Key, CallType
    <3>3. Whole(call[c].req)
      BY <2>1, <3>1 DEF CallPassed, Inside, Whole, Inner
    <3>4. CallPassed(c)'
      BY <2>1, <3>1, <3>3 DEF CallPassed, Inside, Whole, CallType, Running
    <3>5. \A k \in Keys \ {Key(c)} : entry'[k] = entry[k]
      BY <2>1, <3>1, OwnKeyOnly
    <3>6. \A k \in Keys \ {Key(c)} : Kept(k)' => Kept(k)
      BY <3>5 DEF Kept
    <3>7. \A r \in Requests, d \in Drones : <<r, d>> # Key(c)
      BY <3>2, DroneAssumption DEF Batch
    <3>8. \A r \in Requests : <<r, Batch>> # Key(c) \/ r = call[c].req
      BY <3>2
    <3> QED BY <1>1, <3>1, <3>3, <3>4, <3>6, <3>7, <3>8, InnerKeys DEF TablePassed, Whole
  <2>6. CASE Panic(c) \/ Unwind(c)
    <3>1. handled' = handled /\ entry' = Abandoned(c, Key(c))
      BY <2>6 DEF Panic, Unwind
    <3>2. \A k \in Keys : entry'[k] = entry[k] \/ ~Kept(k)'
      <4>1. \A k \in Keys \ {Key(c)} : entry'[k] = entry[k]
        BY <2>1, <3>1, OwnKeyOnly
      <4>2. entry'[Key(c)] = entry[Key(c)] \/ entry'[Key(c)] = Absent
        BY <2>1, <3>1, OwnKeyOnly, OwnKeyLeft
      <4> QED BY <4>1, <4>2 DEF Kept, Absent
    <3>3. TablePassed'
      BY <1>1, <3>1, <3>2, NothingKept
    <3>4. CASE Panic(c)
      <4>1. call'[c] = [call[c] EXCEPT !.at = "unwinding", !.scope = Batch]
            /\ call[c].at \in Running
        BY <3>4 DEF Panic, Moves, TypeOK, Running
      <4> QED BY <2>1, <3>1, <3>3, <4>1 DEF CallPassed, Inside, CallType
    <3>5. CASE Unwind(c)
      <4>1. call'[c] = [call[c] EXCEPT !.at = "panicked"]
        BY <3>5 DEF Unwind, Moves, TypeOK
      <4> QED BY <2>1, <3>3, <4>1 DEF CallPassed, Inside, Running, CallType
    <3> QED BY <2>6, <3>4, <3>5
  <2> QED BY <1>2, <2>2, <2>3, <2>4, <2>5, <2>6 DEF Step
<1>3. ASSUME NEW c \in Calls, Step(c) PROVE handled \subseteq handled'
  BY <1>3 DEF Step, Ask, Wake, NextDrone, Send, SendReturns, FinishBatch, Panic, Unwind
<1>4. ASSUME NEW c \in Calls, Step(c) PROVE Passed'
  BY <1>1, <1>2, <1>3, <1>4, Frame, CallStays DEF Passed
<1>5. ASSUME NEW c \in Calls, NEW r \in Requests, Arrive(c, r) PROVE Passed'
  <2>1. handled' = handled /\ entry' = entry /\ \A d \in Calls \ {c} : call'[d] = call[d]
    BY <1>5 DEF Arrive, Moves, TypeOK
  <2>2. call'[c].at = "asking" /\ call'[c].scope = Batch /\ call'[c].todo = Drones
    BY <1>5 DEF Arrive, Moves, TypeOK
  <2>3. CallPassed(c)'
    BY <2>2 DEF CallPassed, Inside, Running
  <2>4. TablePassed'
    BY <1>1, <2>1, NothingKept
  <2> QED BY <1>1, <2>1, <2>3, <2>4, CallStays DEF Passed
<1>6. ASSUME NEW k \in Keys, Expire(k) PROVE Passed'
  <2>1. handled' = handled /\ call' = call /\ \A j \in Keys : entry'[j] = entry[j] \/ Kept(j)
    BY <1>6 DEF Expire, TypeOK, Kept
  <2>2. TablePassed'
    BY <1>1, <2>1, NothingKept
  <2> QED BY <1>1, <2>1, <2>2, CallStays DEF Passed
<1>7. CASE UNCHANGED vars
  <2>1. handled' = handled /\ entry' = entry /\ call' = call
    BY <1>7 DEF vars
  <2>2. TablePassed'
    BY <1>1, <2>1, NothingKept
  <2> QED BY <1>1, <2>1, <2>2, CallStays DEF Passed
<1> QED BY <1>4, <1>5, <1>6, <1>7 DEF Next

\* A call is answered only when the command of every drone has returned.
THEOREM AnswersCoverTheBatch == Spec => []AnswersAreWhole
<1>1. Init => Serving /\ Passed
  <2> SUFFICES ASSUME Init PROVE Passed
    BY ServingInit
  <2> QED BY InnerKeys
      DEF Init, Passed, TablePassed, CallPassed, Kept, Inside, Running, Absent
<1>2. Serving /\ Passed /\ [Next]_vars => (Serving /\ Passed)'
  BY TypeStep, OwnersStep, FlyingStep, PassedStep DEF Serving
<1>3. Passed => AnswersAreWhole
  BY DEF Passed, CallPassed, Whole, AnswersAreWhole
<1> QED BY <1>1, <1>2, <1>3, PTL DEF Spec

-----------------------------------------------------------------------------
(* Nobody waits in a circle                                                *)

\* Call o is at work under key k: inside the batch, or sending to the drone.
AtWork(o, k) ==
    /\ call[o].req = k[1]
    /\ IF k[2] = Batch THEN Inside(o)
                       ELSE call[o].scope = k[2] /\ call[o].at \in Running

\* The other direction of Owners: a key in flight is held by a call that is at
\* work under it.
Working ==
    \A k \in Keys : entry[k].is = "flight" =>
        entry[k].by \in Calls /\ AtWork(entry[k].by, k)

\* A step of c has to account for the keys that c holds after it only.
LEMMA WorkingFrame ==
    ASSUME Working, NEW c \in Calls,
           \A d \in Calls \ {c} : call'[d] = call[d],
           \A k \in Keys : entry'[k].is = "flight" =>
              entry'[k] = entry[k] \/ entry'[k] = Held(c),
           \A k \in Keys : entry'[k].is = "flight" /\ entry'[k].by = c => AtWork(c, k)'
    PROVE  Working'
<1> SUFFICES ASSUME NEW k \in Keys, entry'[k].is = "flight"
             PROVE  (entry[k].by \in Calls /\ AtWork(entry[k].by, k))'
  BY DEF Working
<1> PICK d : d = entry'[k].by
  OBVIOUS
<1>1. CASE d = c
  BY <1>1
<1>2. CASE d # c
  <2>1. entry'[k] = entry[k]
    BY <1>2 DEF Held
  <2>2. d \in Calls \ {c} /\ AtWork(d, k)
    BY <1>2, <2>1 DEF Working
  <2>3. call'[d] = call[d]
    BY <2>2
  <2>4. AtWork(d, k)'
    BY <2>2, <2>3 DEF AtWork, Inside
  <2> QED BY <2>2, <2>4
<1> QED BY <1>1, <1>2

\* A key that c holds is the key c is at, or that of the batch it is inside.
LEMMA OwnKeys ==
    ASSUME TypeOK, Working, NEW c \in Calls, NEW k \in Keys,
           entry[k].is = "flight", entry[k].by = c
    PROVE  /\ k[1] = call[c].req /\ k = <<k[1], k[2]>> /\ entry[k] = Held(c)
           /\ k[2] = Batch => Inside(c)
           /\ k[2] # Batch => k = Key(c) /\ call[c].at \in Running
<1>1. k = <<k[1], k[2]>>
  BY DEF Keys
<1>2. AtWork(c, k)
  BY DEF Working
<1>3. entry[k] = Held(c)
  BY DEF TypeOK, Held
<1> QED BY <1>1, <1>2, <1>3 DEF AtWork, Key

\* Every step keeps the holders of keys at work under them.
LEMMA WorkingStep == TypeOK /\ Owners /\ Working /\ [Next]_vars => Working'
<1> SUFFICES ASSUME TypeOK, Owners, Working, [Next]_vars PROVE Working'
  OBVIOUS
\* A step of c that frees no key but lets c go on from where it was.
<1>1. ASSUME NEW c \in Calls, NEW now, Moves(c, now), entry' = entry,
             now.req = call[c].req,
             call[c].at \in Running => now.at \in Running /\ now.scope = call[c].scope,
             Inside(c) => \/ now.at \in {"batch", "unwinding"} \cup Running
                          \/ now.at \in {"asking", "waiting"} /\ now.scope # Batch
      PROVE  Working'
  <2>1. call'[c] = now /\ \A d \in Calls \ {c} : call'[d] = call[d]
    BY <1>1 DEF Moves, TypeOK
  <2>2. ASSUME NEW k \in Keys, entry'[k].is = "flight", entry'[k].by = c
        PROVE  AtWork(c, k)'
    <3>1. AtWork(c, k)
      BY <1>1, <2>2 DEF Working
    <3>2. Inside(c) => Inside(c)'
      BY <1>1, <2>1 DEF Inside
    <3> QED BY <1>1, <2>1, <3>1, <3>2 DEF AtWork
  <2> QED BY <1>1, <2>1, <2>2, WorkingFrame
<1>2. ASSUME NEW c \in Calls, NEW S, Ask(c, S) PROVE Working'
  <2> DEFINE e == Swept(S)[Key(c)]
  <2>1. /\ call[c].at = "asking" /\ call[c] \in CallType
        /\ \A d \in Calls \ {c} : call'[d] = call[d]
    BY <1>2, Frame DEF Ask, Step, Wait, Replay, Own, Moves, TypeOK
  <2>2. \A k \in Keys : entry'[k].is = "flight" =>
           entry'[k] = entry[k] \/ (entry'[k] = Held(c) /\ k = Key(c))
    BY <1>2, Asked DEF Absent
  <2>3. ASSUME NEW k \in Keys, entry'[k].is = "flight", entry'[k].by = c,
               entry'[k] = entry[k]
        PROVE  k[2] = Batch /\ k[1] = call[c].req /\ call[c].scope # Batch
    BY <2>1, <2>3, OwnKeys DEF Inside, Running
  <2>4. call'[c].req = call[c].req /\ (call[c].scope # Batch => Inside(c)')
    <3>1. CASE Wait(c, e)
      <4>1. call'[c] = [call[c] EXCEPT !.at = "waiting", !.on = e.by]
        BY <3>1 DEF Wait, Moves, TypeOK
      <4> QED BY <2>1, <4>1 DEF Inside, CallType
    <3>2. CASE Replay(c, e)
      <4>1. call'[c] = IF call[c].scope = Batch
                       THEN [call[c] EXCEPT !.at = "answered"] ELSE Returned(c)
        BY <3>2 DEF Replay, Moves, TypeOK
      <4> QED BY <2>1, <4>1, ReturnedTyped DEF Inside, CallType
    <3>3. CASE Own(c, e)
      <4>1. call'[c] = [call[c] EXCEPT !.at =
                          IF call[c].scope = Batch THEN "batch" ELSE "sending"]
        BY <3>3 DEF Own, Moves, TypeOK
      <4> QED BY <2>1, <4>1 DEF Inside, CallType, Running
    <3> QED BY <1>2, <3>1, <3>2, <3>3 DEF Ask
  <2>5. ASSUME entry'[Key(c)] = Held(c), entry[Key(c)] # Held(c)
        PROVE  \A k \in Keys : k = Key(c) => AtWork(c, k)'
    <3> PICK j : j = Key(c)
      OBVIOUS
    <3>0. /\ j \in Keys /\ Absent.is # Held(c).is
          /\ Swept(S)[j] = entry[j] \/ Swept(S)[j] = Absent
      BY KeyTyped, SweptTyped DEF Held, Absent
    <3>1. entry' # Swept(S)
      BY <2>5, <3>0
    <3>2. Own(c, e)
      BY <1>2, <3>1 DEF Ask
    <3>3. call'[c] = [call[c] EXCEPT !.at =
                        IF call[c].scope = Batch THEN "batch" ELSE "sending"]
      BY <3>2 DEF Own, Moves, TypeOK
    <3>4. /\ call'[c].scope = call[c].scope /\ call'[c].req = call[c].req
          /\ call'[c].at = IF call[c].scope = Batch THEN "batch" ELSE "sending"
      BY <2>1, <3>3 DEF CallType
    <3>5. call'[c].req = j[1] /\ j[2] = call[c].scope
      BY <3>4 DEF Key
    <3>6. CASE call[c].scope = Batch
      <4>1. Inside(c)'
        BY <3>4, <3>6 DEF Inside
      <4> QED BY <3>5, <3>6, <4>1 DEF AtWork
    <3>7. CASE call[c].scope # Batch
      <4>1. call'[c].at \in Running /\ call'[c].scope = j[2] /\ j[2] # Batch
        BY <3>4, <3>5, <3>7 DEF Running
      <4> QED BY <3>5, <4>1 DEF AtWork
    <3> QED BY <3>6, <3>7
  <2>6. ASSUME NEW k \in Keys, entry'[k].is = "flight", entry'[k].by = c
        PROVE  AtWork(c, k)'
    <3>1. CASE entry'[k] = entry[k]
      BY <2>3, <2>4, <2>6, <3>1 DEF AtWork
    <3>2. CASE entry'[k] # entry[k]
      BY <2>2, <2>5, <2>6, <3>2
    <3> QED BY <3>1, <3>2
  <2> QED BY <2>1, <2>2, <2>6, WorkingFrame
<1>3. ASSUME NEW c \in Calls, Wake(c) PROVE Working'
  <2>1. /\ Moves(c, [call[c] EXCEPT !.at = "asking", !.on = Nobody])
        /\ entry' = entry /\ call[c].at = "waiting" /\ call[c] \in CallType
    BY <1>3 DEF Wake, TypeOK
  <2>2. PICK now : now = [call[c] EXCEPT !.at = "asking", !.on = Nobody]
    OBVIOUS
  <2>3. now.at = "asking" /\ now.req = call[c].req /\ now.scope = call[c].scope
    BY <2>1, <2>2 DEF CallType
  <2> QED BY <1>1, <2>1, <2>2, <2>3 DEF Running, Inside
<1>4. ASSUME NEW c \in Calls, NEW d \in Drones, NextDrone(c, d) PROVE Working'
  <2>1. /\ Moves(c, [call[c] EXCEPT !.at = "asking", !.scope = d])
        /\ entry' = entry /\ call[c].at = "batch" /\ call[c] \in CallType
    BY <1>4 DEF NextDrone, TypeOK
  <2>2. PICK now : now = [call[c] EXCEPT !.at = "asking", !.scope = d]
    OBVIOUS
  <2>3. now.at = "asking" /\ now.req = call[c].req /\ now.scope # Batch
    BY <2>1, <2>2, DroneAssumption DEF CallType, Batch
  <2> QED BY <1>1, <2>1, <2>2, <2>3 DEF Running
<1>5. ASSUME NEW c \in Calls, Send(c) PROVE Working'
  <2>1. /\ Moves(c, [call[c] EXCEPT !.at = "sent"])
        /\ entry' = entry /\ call[c] \in CallType
    BY <1>5 DEF Send, TypeOK
  <2>2. PICK now : now = [call[c] EXCEPT !.at = "sent"]
    OBVIOUS
  <2>3. now.at = "sent" /\ now.req = call[c].req /\ now.scope = call[c].scope
    BY <2>1, <2>2 DEF CallType
  <2> QED BY <1>1, <2>1, <2>2, <2>3 DEF Running
\* A step that ends what c does under a key takes that key out of flight.
<1>6. ASSUME NEW c \in Calls, NEW now, Moves(c, now),
             entry' = Completed(c, Key(c)) \/ entry' = Abandoned(c, Key(c)),
             now.req = call[c].req,
             call[c].scope = Batch \/ now.at \in {"batch", "unwinding"}
      PROVE  Working'
  <2>1. call'[c] = now /\ \A d \in Calls \ {c} : call'[d] = call[d]
    BY <1>6 DEF Moves, TypeOK
  <2>2. Key(c) \in Keys
    BY KeyTyped
  <2>3. ASSUME NEW k \in Keys, entry'[k].is = "flight"
        PROVE  entry'[k] = entry[k] /\ (k # Key(c) \/ entry[k] # Held(c))
    <3>1. CASE k # Key(c) \/ entry[k] # Held(c)
      BY <1>6, <2>2, <3>1, OwnKeyOnly
    <3>2. CASE k = Key(c) /\ entry[k] = Held(c)
      <4>1. \/ entry'[k] = [is |-> "done", by |-> c]
            \/ entry'[k] = Absent
        BY <1>6, <2>2, <3>2, OwnKeyLeft
      <4> QED BY <2>3, <4>1 DEF Absent
    <3> QED BY <3>1, <3>2
  <2>4. ASSUME NEW k \in Keys, entry'[k].is = "flight", entry'[k].by = c
        PROVE  AtWork(c, k)'
    <3>1. k # Key(c) /\ entry[k] = Held(c)
      BY <2>3, <2>4, OwnKeys
    <3>2. k[1] = call[c].req /\ k[2] = Batch /\ k = <<k[1], k[2]>>
      BY <2>3, <2>4, <3>1, OwnKeys
    <3>3. call[c].scope # Batch
      BY <3>1, <3>2 DEF Key
    <3>4. Inside(c)'
      BY <1>6, <2>1, <3>3 DEF Inside
    <3> QED BY <1>6, <2>1, <3>2, <3>4 DEF AtWork
  <2> QED BY <2>1, <2>3, <2>4, WorkingFrame
<1>7. ASSUME NEW c \in Calls, SendReturns(c) PROVE Working'
  <2>1. Moves(c, Returned(c)) /\ entry' = Completed(c, Key(c))
    BY <1>7 DEF SendReturns
  <2>2. PICK now : now = Returned(c)
    OBVIOUS
  <2> QED BY <1>6, <2>1, <2>2, ReturnedTyped
<1>8. ASSUME NEW c \in Calls, Panic(c) PROVE Working'
  <2>1. /\ Moves(c, [call[c] EXCEPT !.at = "unwinding", !.scope = Batch])
        /\ entry' = Abandoned(c, Key(c)) /\ call[c] \in CallType
    BY <1>8 DEF Panic, TypeOK
  <2>2. PICK now : now = [call[c] EXCEPT !.at = "unwinding", !.scope = Batch]
    OBVIOUS
  <2>3. now.at = "unwinding" /\ now.req = call[c].req
    BY <2>1, <2>2 DEF CallType
  <2> QED BY <1>6, <2>1, <2>2, <2>3
<1>9. ASSUME NEW c \in Calls, FinishBatch(c) PROVE Working'
  <2>1. /\ Moves(c, [call[c] EXCEPT !.at = "answered"])
        /\ entry' = Completed(c, Key(c)) /\ call[c] \in CallType
        /\ call[c].scope = Batch
    BY <1>9 DEF FinishBatch, TypeOK, Owners, Holds, Settled
  <2>2. PICK now : now = [call[c] EXCEPT !.at = "answered"]
    OBVIOUS
  <2>3. now.req = call[c].req
    BY <2>1, <2>2 DEF CallType
  <2> QED BY <1>6, <2>1, <2>2, <2>3
<1>10. ASSUME NEW c \in Calls, Unwind(c) PROVE Working'
  <2>1. /\ Moves(c, [call[c] EXCEPT !.at = "panicked"])
        /\ entry' = Abandoned(c, Key(c)) /\ call[c] \in CallType
        /\ call[c].scope = Batch
    BY <1>10 DEF Unwind, TypeOK, Owners, Holds, Settled
  <2>2. PICK now : now = [call[c] EXCEPT !.at = "panicked"]
    OBVIOUS
  <2>3. now.req = call[c].req
    BY <2>1, <2>2 DEF CallType
  <2> QED BY <1>6, <2>1, <2>2, <2>3
<1>11. ASSUME NEW c \in Calls, NEW r \in Requests, Arrive(c, r) PROVE Working'
  <2>1. /\ \A d \in Calls \ {c} : call'[d] = call[d]
        /\ entry' = entry /\ call[c].at = "idle"
    BY <1>11 DEF Arrive, Moves, TypeOK
  <2>2. \A k \in Keys : ~(entry'[k].is = "flight" /\ entry'[k].by = c)
    BY <2>1, OwnKeys DEF Inside, Running
  <2> QED BY <2>1, <2>2, WorkingFrame
<1>12. ASSUME NEW k \in Keys, Expire(k) PROVE Working'
  <2>1. call' = call /\ \A j \in Keys : entry'[j].is = "flight" => entry'[j] = entry[j]
    BY <1>12 DEF Expire, TypeOK
  <2> QED BY <2>1 DEF Working, AtWork, Inside
<1>13. CASE UNCHANGED vars
  BY <1>13 DEF vars, Working, AtWork, Inside
<1> QED BY <1>2, <1>3, <1>4, <1>5, <1>7, <1>8, <1>9, <1>10, <1>11, <1>12, <1>13
       DEF Next, Step

\* For any calls, requests and drones, the owner that a call waits for is at
\* work on the key: waiting for a batch leads to a drone's command, which is
\* being sent, so calls never wait for each other in a circle.
THEOREM WaitingIsForWork == Spec => []NoCircularWait
<1>1. Init => TypeOK /\ Owners /\ Working
  <2>1. Init => Working
    BY DEF Init, Working, Absent
  <2> QED BY <2>1, TypeInit, ServingInit DEF Serving
<1>2. TypeOK /\ Owners /\ Working /\ [Next]_vars => (TypeOK /\ Owners /\ Working)'
  BY TypeStep, OwnersStep, WorkingStep
<1>3. TypeOK /\ Owners /\ Working => NoCircularWait
  <2> SUFFICES ASSUME TypeOK, Owners, Working, NEW c \in Calls,
                      call[c].at = "waiting", entry[Key(c)] = Held(call[c].on)
               PROVE  LET owner == call[call[c].on]
                      IN /\ owner.req = call[c].req
                         /\ IF call[c].scope \in Drones
                            THEN /\ owner.scope = call[c].scope
                                 /\ owner.at \in {"sending", "sent"}
                            ELSE \/ /\ owner.scope \in Drones
                                    /\ owner.at \in {"asking", "waiting", "sending", "sent"}
                                 \/ owner.scope = Batch /\ owner.at \in {"batch", "unwinding"}
    BY DEF NoCircularWait
  <2> DEFINE o == call[c].on
  <2>1. Key(c) \in Keys /\ Key(c)[1] = call[c].req /\ Key(c)[2] = call[c].scope
    BY KeyTyped DEF Key
  <2>2. o \in Calls /\ AtWork(o, Key(c))
    BY <2>1 DEF Working, Held
  <2>3. call[o].scope \in {Batch} \cup Drones /\ call[c].scope \in {Batch} \cup Drones
    BY <2>2 DEF TypeOK, CallType, Scopes
  <2>4. Holds(o) /\ Batch \notin Drones
    BY <2>2, DroneAssumption DEF Owners, Batch
  <2> QED BY <2>1, <2>2, <2>3, <2>4 DEF AtWork, Inside, Holds, Settled, Running
<1> QED BY <1>1, <1>2, <1>3, PTL DEF Spec

=============================================================================
