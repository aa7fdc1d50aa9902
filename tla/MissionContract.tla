---------------------------- MODULE MissionContract ----------------------------
(***************************************************************************)
(* What the mission engine promises, whatever the mode, the route and the  *)
(* authority profile (docs/MISSION_CORE_CUTOVER_CONTRACT.md, part B): run  *)
(* identities only grow, one run navigates at a time and only while it is  *)
(* active, a run that ended never navigates again, and the only authority  *)
(* after an ending is one Return, claimed at most once.                    *)
(***************************************************************************)
EXTENDS Naturals

VARIABLES
    current,   \* identity of the run, 0 before the first
    phase,     \* who has authority
    order,     \* the kind of order the last step let out
    returned   \* the run's Return has been claimed

vars == <<current, phase, order, returned>>

Phases == {"none", "active", "return", "ended"}

TypeOK ==
    /\ current \in Nat
    /\ phase \in Phases
    /\ order \in {"none", "navigate", "return"}
    /\ returned \in BOOLEAN

Init == current = 0 /\ phase = "none" /\ order = "none" /\ returned = FALSE

Start ==
    /\ phase \in {"none", "ended"}
    /\ current' \in Nat
    /\ current' > current
    /\ phase' = "active"
    /\ returned' = FALSE
    /\ order' = "none"

Navigate ==
    /\ phase = "active"
    /\ order' = "navigate"
    /\ UNCHANGED <<current, phase, returned>>

End ==
    /\ phase = "active"
    /\ phase' \in {"ended", "return"}
    /\ order' = "none"
    /\ UNCHANGED <<current, returned>>

Return ==
    /\ phase = "return"
    /\ ~returned
    /\ returned' = TRUE
    /\ order' = "return"
    /\ UNCHANGED <<current, phase>>

Settle ==
    /\ phase = "return"
    /\ phase' = "ended"
    /\ order' = "none"
    /\ UNCHANGED <<current, returned>>

\* Progress inside a phase, and calls that change nothing.
Work == order' = "none" /\ UNCHANGED <<current, phase, returned>>

Next == Start \/ Navigate \/ End \/ Return \/ Settle \/ Work

Spec == Init /\ [][Next]_vars
=============================================================================
