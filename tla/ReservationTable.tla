---------------------------- MODULE ReservationTable ----------------------------
(***************************************************************************)
(* What the reservation table promises of every drone                      *)
(* (api/command_reservation.go, "Invariants preserved" and                 *)
(* commandSendGuard): it has at most one holder, a weaker intent does not  *)
(* take it from a stronger one, accepting an intent closes the guard of    *)
(* the holder before it in the same step, and a holder that lost a drone   *)
(* neither writes to it again nor frees it.                                *)
(*                                                                         *)
(* A holder that is not followed further, because an implementation does   *)
(* not tell such holders apart, is Outside.                                *)
(***************************************************************************)
EXTENDS Naturals

CONSTANTS
    Drones,
    Holders,  \* leases; a name may be used again once its lease has retired
    Ranks,    \* priorities, 0 for the weakest
    Free,     \* no holder
    Outside   \* a holder that is not followed

VARIABLES
    holder,  \* whose reservation holds each drone
    rank,    \* how strong the intent behind it is
    active,  \* the leases that were granted and have not retired
    open     \* the guards that let a write through: pairs <<lease, drone>>

vars == <<holder, rank, active, open>>

Init ==
    /\ holder = [d \in Drones |-> Free]
    /\ rank = [d \in Drones |-> 0]
    /\ active = {}
    /\ open = {}

\* The drones S go to h at rank r, the drones lost to nobody.
Rewrite(S, h, r, lost) ==
    /\ holder' = [d \in Drones |-> IF d \in S THEN h
                                   ELSE IF d \in lost THEN Free ELSE holder[d]]
    /\ rank' = [d \in Drones |-> IF d \in S THEN r
                                 ELSE IF d \in lost THEN 0 ELSE rank[d]]

HeldBy(h) == {d \in Drones : holder[d] = h}

\* A new lease takes the drones S from whoever held them.
Grant(h, r, S) ==
    /\ h \notin active
    /\ active' = active \cup {h}
    /\ \A d \in S : rank[d] <= r
    /\ Rewrite(S, h, r, {})
    /\ open' = {p \in open : p[2] \notin S} \cup ({h} \X S)

\* Somebody outside takes the drones S, and the leases R lose all they have.
Seize(r, S, R) ==
    /\ \A d \in S : rank[d] <= r
    /\ Rewrite(S, Outside, r, {d \in Drones : holder[d] \in R})
    /\ open' = {p \in open : p[2] \notin S /\ p[1] \notin R}
    /\ UNCHANGED active

\* Holder h is done with the drones S; those it has lost stay as they are.
GiveBack(h, S) ==
    /\ Rewrite({}, Free, 0, S \cap HeldBy(h))
    /\ open' = {p \in open : ~(p[1] = h /\ p[2] \in S)}
    /\ UNCHANGED active

Retire(h) ==
    /\ h \in active
    /\ active' = active \ {h}
    /\ Rewrite({}, Free, 0, HeldBy(h))
    /\ open' = {p \in open : p[1] # h}

Next ==
    \/ \E h \in Holders \cup {Outside}, S \in SUBSET Drones : GiveBack(h, S)
    \/ \E h \in active : Retire(h)
    \/ \E h \in Holders, r \in Ranks, S \in SUBSET Drones : Grant(h, r, S)
    \/ \E r \in Ranks, S \in SUBSET Drones, R \in SUBSET active : Seize(r, S, R)

Spec == Init /\ [][Next]_vars
=============================================================================
