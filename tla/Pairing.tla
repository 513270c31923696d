------------------------------- MODULE Pairing -------------------------------
(***************************************************************************)
(* What the search for a route promises.  In every session the host offers *)
(* at most one route; a guest takes the route that is offered, for good;   *)
(* and the host goes on to the game only on the route it has offered last, *)
(* when the guest at its end has taken it.                                 *)
(***************************************************************************)
CONSTANTS Guests, Sessions, Routes, None, GuestOf(_)

VARIABLES
    offered,  \* offered[s]: the route offered in session s, or None
    taken,    \* taken[g]: the session and the route guest g has taken, or None
    paired    \* the session and the route the host goes on with, or None

Init ==
    /\ offered = [s \in Sessions |-> None]
    /\ taken = [g \in Guests |-> None]
    /\ paired = None

Offer(s) ==
    /\ offered[s] = None /\ paired = None
    /\ offered'[s] \in Routes
    /\ offered' = [offered EXCEPT ![s] = offered'[s]]
    /\ UNCHANGED <<taken, paired>>

Take(g, s) ==
    /\ taken[g] = None
    /\ offered[s] # None /\ GuestOf(offered[s]) = g
    /\ taken' = [taken EXCEPT ![g] = <<s, offered[s]>>]
    /\ UNCHANGED <<offered, paired>>

Pair(s) ==
    /\ paired = None
    /\ offered[s] # None
    /\ taken[GuestOf(offered[s])] = <<s, offered[s]>>
    /\ paired' = <<s, offered[s]>>
    /\ UNCHANGED <<offered, taken>>

Next ==
    \/ \E s \in Sessions : Pair(s) \/ Offer(s)
    \/ \E g \in Guests, s \in Sessions : Take(g, s)

Spec == Init /\ [][Next]_<<offered, taken, paired>>
=============================================================================
