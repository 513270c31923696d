-------------------------------- MODULE Menu --------------------------------
(***************************************************************************)
(* What the two menus of a session, the character selection (Selection)    *)
(* and the rematch menu (Retry), have in common: the two sides that leave  *)
(* them together, and how many menus there are.  Menus are numbered from   *)
(* 1; the number stands for the epoch of the menu.                         *)
(***************************************************************************)
EXTENDS Integers

CONSTANT Menus      \* bound: menus of a kind, those of the longest session

Host == "host"
Client == "client"
Sides == {Host, Client}
Other(s) == IF s = Host THEN Client ELSE Host
=============================================================================
