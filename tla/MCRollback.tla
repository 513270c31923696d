----------------------------- MODULE MCRollback -----------------------------
(* Small instances of Rollback for TLC. *)
EXTENDS Rollback

\* The round ends when both players have given input 1 in the same frame.
BothStrike(w) == \E i \in DOMAIN w : w[i] = <<1, 1>>

\* With D > 0 the own input of a frame is taken before it is fed; with D = 0
\* and the input lead after it.
Leads == {0, -1}
=============================================================================
