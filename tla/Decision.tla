------------------------------- MODULE Decision -------------------------------
(***************************************************************************)
(* What a menu of a session promises: of each item every side decides at   *)
(* most once, and no two sides decide differently.                         *)
(***************************************************************************)
CONSTANTS Sides, Items, Values, None

VARIABLE decided    \* decided[i][s]: what s has decided on item i, or None

Init == decided = [i \in Items |-> [s \in Sides |-> None]]

Decide(i, s, v) ==
    /\ decided[i][s] = None
    /\ \A t \in Sides : decided[i][t] \in {None, v}
    /\ decided' = [decided EXCEPT ![i][s] = v]

Next == \E i \in Items, s \in Sides, v \in Values : Decide(i, s, v)

Spec == Init /\ [][Next]_decided
=============================================================================
