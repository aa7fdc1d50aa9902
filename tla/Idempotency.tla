------------------------------ MODULE Idempotency ------------------------------
(***************************************************************************)
(* Retries of operator commands (internal/command/idempotency.go and the   *)
(* batches of internal/api).  A batch RPC runs under the key of its        *)
(* request, and inside it each drone's command under a key of its own, so  *)
(* a call that runs goes twice through idemStore.do.  A key is in flight   *)
(* while its owner runs; others wait for the owner's done channel.  The    *)
(* owner answers, or panics and takes the key out of the table again.      *)
(*                                                                         *)
(* A critical section of idemStore.mu is one action, and so is what the    *)
(* drone's command does.  Results are known by the call that produced      *)
(* them; requests without an id are not deduplicated and left out, and so  *)
(* are the leases of CommandAuthority and the targets that are refused     *)
(* before their command runs.  The drones of a batch run in any order.     *)
(*                                                                         *)
(* "Deviation" marks a definition that is the one after it with a          *)
(* plausible mistake.                                                      *)
(***************************************************************************)
EXTENDS Naturals, FiniteSets

CONSTANTS
    Calls,     \* RPC calls: attempts of operators and their retries
    Nobody,    \* no call
    Requests,  \* request ids, not empty
    Drones     \* the targets a batch has claimed, positive integers

VARIABLES
    call,     \* what each RPC call is doing
    entry,    \* idemStore.entries
    flights,  \* history: the calls that sent each key's command, see SentOnce
    handled   \* history: the keys whose command returned

vars == <<call, entry, flights, handled>>

\* Batch stands for batchIdempotencyDroneID.
Batch == 0
Scopes == {Batch} \cup Drones
Keys == Requests \X Scopes

ASSUME CallAssumption == Nobody \notin Calls
ASSUME RequestAssumption == Requests # {}
ASSUME DroneAssumption == Drones \subseteq Nat \ {0} /\ IsFiniteSet(Drones)

Absent == [is |-> "absent", by |-> Nobody]
Held(c) == [is |-> "flight", by |-> c]

\* The key a call is at: the batch, or the drone it has come to.
Key(c) == <<call[c].req, call[c].scope>>

Inner(r) == {r} \X Drones

-----------------------------------------------------------------------------
(* idemStore.do                                                            *)

\* c alone moves on.
Moves(c, now) == call' = [call EXCEPT ![c] = now]

Arrive(c, r) ==
    /\ call[c].at = "idle"
    /\ Moves(c, [at |-> "asking", req |-> r, scope |-> Batch, todo |-> Drones,
                 on |-> Nobody])
    /\ UNCHANGED <<entry, flights, handled>>

\* Deviation: the sweep takes entries in flight for expired ones.
SweptInFlight(S) ==
    [k \in Keys |-> IF entry[k].is \in {"expired", "flight"} /\ k \in S
                    THEN Absent ELSE entry[k]]

\* sweepLocked, throttled: S is every key, or none.
Swept(S) ==
    [k \in Keys |-> IF entry[k].is = "expired" /\ k \in S THEN Absent ELSE entry[k]]

\* The lookup of a key sees an entry in flight and waits for its channel.
Wait(c, e) ==
    /\ e.is = "flight"
    /\ Moves(c, [call[c] EXCEPT !.at = "waiting", !.on = e.by])

\* Back from the drone's do: the batch goes on with its next drone.
Returned(c) ==
    [call[c] EXCEPT !.at = "batch", !.todo = @ \ {call[c].scope},
                    !.scope = Batch]

\* A result is replayed.  The time was read before the lock was taken, so a
\* result may be replayed although it has just expired.
Replay(c, e) ==
    /\ e.is \in {"done", "expired"}
    /\ Moves(c, IF call[c].scope = Batch
                THEN [call[c] EXCEPT !.at = "answered"] ELSE Returned(c))

Own(c, e) ==
    /\ e.is \in {"absent", "expired"}
    /\ Moves(c, [call[c] EXCEPT !.at =
                    IF call[c].scope = Batch THEN "batch" ELSE "sending"])

Ask(c, S) ==
    /\ call[c].at = "asking"
    /\ LET e == Swept(S)[Key(c)]
       IN \/ Wait(c, e) /\ entry' = Swept(S)
          \/ Replay(c, e) /\ entry' = Swept(S)
          \/ /\ Own(c, e)
             /\ entry' = [Swept(S) EXCEPT ![Key(c)] = Held(c)]
    /\ UNCHANGED <<flights, handled>>

\* The owner closes its channel in the critical section in which it takes the
\* key out of flight.
Wake(c) ==
    /\ call[c].at = "waiting"
    /\ entry[Key(c)] # Held(call[c].on)
    /\ Moves(c, [call[c] EXCEPT !.at = "asking", !.on = Nobody])
    /\ UNCHANGED <<entry, flights, handled>>

-----------------------------------------------------------------------------
(* What runs under the keys                                                *)

\* runClaimed comes to the next drone of the batch.
NextDrone(c, d) ==
    /\ call[c].at = "batch"
    /\ d \in call[c].todo
    /\ Moves(c, [call[c] EXCEPT !.at = "asking", !.scope = d])
    /\ UNCHANGED <<entry, flights, handled>>

\* The drone's command is sent; its result is not known yet.
Send(c) ==
    /\ call[c].at = "sending"
    /\ Moves(c, [call[c] EXCEPT !.at = "sent"])
    /\ flights' = [flights EXCEPT ![Key(c)] = @ \cup {c}]
    /\ UNCHANGED <<entry, handled>>

\* Owner c keeps the result of key k.
Completed(c, k) ==
    IF entry[k] = Held(c)
    THEN [entry EXCEPT ![k].is = "done"] ELSE entry

SendReturns(c) ==
    /\ call[c].at = "sent"
    /\ entry' = Completed(c, Key(c))
    /\ Moves(c, Returned(c))
    /\ handled' = handled \cup {Key(c)}
    /\ UNCHANGED flights

FinishBatch(c) ==
    /\ call[c].at = "batch"
    /\ call[c].todo = {}
    /\ entry' = Completed(c, Key(c))
    /\ Moves(c, [call[c] EXCEPT !.at = "answered"])
    /\ UNCHANGED <<flights, handled>>

\* Deviation: the key stays in flight.
AbandonedInFlight(c, k) == entry

\* Deviation: a panic keeps what there is of the result.
AbandonedDone(c, k) ==
    IF entry[k] = Held(c)
    THEN [entry EXCEPT ![k].is = "done"] ELSE entry

\* After a panic of its owner c the key is free for another attempt.
Abandoned(c, k) ==
    IF entry[k] = Held(c)
    THEN [entry EXCEPT ![k] = Absent] ELSE entry

\* The drone's command panics: its key is given up, then that of the batch.
Panic(c) ==
    /\ call[c].at \in {"sending", "sent"}
    /\ entry' = Abandoned(c, Key(c))
    /\ flights' = [flights EXCEPT ![Key(c)] = @ \ {c}]
    /\ Moves(c, [call[c] EXCEPT !.at = "unwinding", !.scope = Batch])
    /\ UNCHANGED handled

Unwind(c) ==
    /\ call[c].at = "unwinding"
    /\ entry' = Abandoned(c, Key(c))
    /\ Moves(c, [call[c] EXCEPT !.at = "panicked"])
    /\ UNCHANGED <<flights, handled>>

\* The retention of a result passes.  What completed first expires first: the
\* drones of a batch before the batch.
Expire(k) ==
    /\ entry[k].is = "done"
    /\ k[2] = Batch => \A i \in Inner(k[1]) : entry[i].is # "done"
    /\ entry' = [entry EXCEPT ![k].is = "expired"]
    /\ flights' = [flights EXCEPT ![k] = {}]
    /\ UNCHANGED <<call, handled>>

-----------------------------------------------------------------------------

Init ==
    /\ call = [c \in Calls |->
                 [at |-> "idle", req |-> CHOOSE r \in Requests : TRUE,
                  scope |-> Batch, todo |-> {}, on |-> Nobody]]
    /\ entry = [k \in Keys |-> Absent]
    /\ flights = [k \in Keys |-> {}]
    /\ handled = {}

Step(c) ==
    \/ \E S \in {{}, Keys} : Ask(c, S)
    \/ Wake(c)
    \/ \E d \in Drones : NextDrone(c, d)
    \/ Send(c)
    \/ SendReturns(c)
    \/ FinishBatch(c)
    \/ Panic(c)
    \/ Unwind(c)

Next ==
    \/ \E c \in Calls, r \in Requests : Arrive(c, r)
    \/ \E c \in Calls : Step(c)
    \/ \E k \in Keys : Expire(k)

Spec == Init /\ [][Next]_vars

\* Goroutines are scheduled, and a command returns or panics.
FairSpec == Spec /\ \A c \in Calls : WF_vars(Step(c))

-----------------------------------------------------------------------------
(* Properties                                                              *)

CallType ==
    [at: {"idle", "asking", "waiting", "batch", "sending", "sent", "unwinding",
          "answered", "panicked"},
     req: Requests, scope: Scopes, todo: SUBSET Drones, on: Calls \cup {Nobody}]

\* Every variable has its type.
TypeOK ==
    /\ call \in [Calls -> CallType]
    /\ entry \in [Keys -> [is: {"absent", "flight", "done", "expired"},
                           by: Calls \cup {Nobody}]]
    /\ flights \in [Keys -> SUBSET Calls]
    /\ handled \subseteq Keys

\* However often a request is retried, and at whatever moment, a drone gets its
\* command once, unless that send panicked or its result has expired.
SentOnce == \A k \in Keys : \A c, d \in flights[k] : c = d

\* A call is answered only when the command of every drone of its request has
\* returned: no replay or answer is of a batch that a panic cut short.
AnswersAreWhole ==
    \A c \in Calls : call[c].at = "answered" => Inner(call[c].req) \subseteq handled

\* Nobody waits in a circle: the owner a call waits for is at work on that key;
\* the owner of a drone's command is sending it, and the owner of a batch waits,
\* if at all, for a drone's command.
NoCircularWait ==
    \A c \in Calls :
        call[c].at = "waiting" /\ entry[Key(c)] = Held(call[c].on) =>
            LET owner == call[call[c].on]
            IN /\ owner.req = call[c].req
               /\ IF call[c].scope \in Drones
                  THEN owner.scope = call[c].scope /\ owner.at \in {"sending", "sent"}
                  ELSE \/ owner.scope \in Drones
                          /\ owner.at \in {"asking", "waiting", "sending", "sent"}
                       \/ owner.scope = Batch /\ owner.at \in {"batch", "unwinding"}

\* Every call ends, answered or with the panic of the command it ran itself:
\* no waiter stays behind when its owner panics.
EveryCallEnds ==
    \A c \in Calls :
        call[c].at # "idle" ~> call[c].at \in {"answered", "panicked"}

=============================================================================
