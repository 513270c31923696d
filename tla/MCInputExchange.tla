--------------------------- MODULE MCInputExchange ---------------------------
(* Small instances of InputExchange for TLC. *)
EXTENDS InputExchange, TLC
=============================================================================
