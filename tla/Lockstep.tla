------------------------------ MODULE Lockstep ------------------------------
(***************************************************************************)
(* What rollback promises to anyone who watches one side's confirmed game: *)
(* it is a lockstep game.  Frame after frame it is fed with the real       *)
(* inputs of both players, once they are known, and an input once fed is   *)
(* never taken back.  When the game so fed has ended a round, the side     *)
(* turns its rollback frames into extra input delay; from then on a frame  *)
(* is fed with older inputs.  Rollback implements this specification.      *)
(***************************************************************************)
EXTENDS Integers, Sequences

CONSTANTS
    Frames,     \* bound: frames 1..Frames are played
    Unknown,    \* the value of an input that has not been taken or received
    Extra,      \* extra frames of delay after the end of a round
    Ends(_)     \* has the game fed with this sequence of inputs ended the round?

VARIABLES
    local, remote,  \* the real inputs of the two players, as far as known here
    game,           \* the inputs the confirmed game has been fed with
    first           \* the first frame with the extra delay, 0 if there is none

vars == <<local, remote, game, first>>

Source(f) ==
    IF first = 0 \/ f < first THEN f
    ELSE IF f - first < Extra THEN first - 1 ELSE f - Extra

Init ==
    /\ game = <<>>
    /\ first = 0

\* Inputs become known; known inputs stay.
Learn ==
    /\ DOMAIN local' = DOMAIN local
    /\ DOMAIN remote' = DOMAIN remote
    /\ \A i \in DOMAIN local : local[i] # Unknown => local'[i] = local[i]
    /\ \A i \in DOMAIN remote : remote[i] # Unknown => remote'[i] = remote[i]
    /\ UNCHANGED <<game, first>>

\* The confirmed game goes on by any number of frames, and its end is noticed
\* at once or later.
Play ==
    /\ \E n \in Len(game) .. Frames :
          /\ \A f \in Len(game) + 1 .. n :
                local[Source(f)] # Unknown /\ remote[Source(f)] # Unknown
          /\ game' = [f \in 1 .. n |-> IF f <= Len(game) THEN game[f]
                                       ELSE <<local[Source(f)], remote[Source(f)]>>]
    /\ first' \in {first} \cup
                  (IF first = 0 /\ Ends(game') THEN {Len(game') + 1} ELSE {})
    /\ UNCHANGED <<local, remote>>

Next == Learn \/ Play

Spec == Init /\ [][Next]_vars
=============================================================================
