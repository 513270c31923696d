----------------------------- MODULE MCSelection -----------------------------
(* Small instances of Selection for TLC. *)
EXTENDS Selection, TLC

\* Two selections with another choice each, and packets that overtake each other.
Twice ==
    [menus |-> 2, requests |-> 0, wanted |-> {}, choices |-> <<{1}, {2}>>, inFlight |-> 2]

\* One selection in which both players may ask for the other settings.
Asking ==
    [menus |-> 1, requests |-> 1, wanted |-> {2}, choices |-> <<{1}, {}>>, inFlight |-> 1]

\* Either of the two sessions.
TwiceAndAsking == {Twice, Asking}
=============================================================================
