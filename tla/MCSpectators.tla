--------------------------- MODULE MCSpectators ---------------------------
(* Small instances of Spectators for TLC. *)
EXTENDS Spectators
=============================================================================
