---------------------------- MODULE MCConnecting ----------------------------
(* Small instances of Connecting for TLC. *)
EXTENDS Connecting

\* Address 1 is in the local network, 2 outside.
LocalFirst == <<0, 1>>

\* Both addresses work and stay what they are.
Steadily == [down |-> <<{1}, {2}>>, up |-> <<{1}, {2}>>]

\* Only what leaves from outside comes back.
OutsideOnly == [down |-> <<{1}, {2}>>, up |-> <<{}, {2}>>]

\* A router that gives the host another address from packet to packet.
Shifting == [down |-> <<{}, {1, 2}>>, up |-> <<{2}, {2}>>]

Routers == {Steadily, OutsideOnly, Shifting}

\* Two joiners with IPv4 sockets who must punch, or one who reaches the host
\* over IPv6 directly and has IPv4 too.
Net(open, one, other) ==
    [open |-> open, speaks |-> [g \in Joiners |-> IF g = "joiner" THEN one ELSE other]]

Networks == {Net({}, {"v4"}, {"v4"}), Net({"v6"}, Families, {})}
=============================================================================
