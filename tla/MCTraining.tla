---------------------------- MODULE MCTraining ----------------------------
(* Matching for TLC: an invitation that may be called off or take too long. *)
EXTENDS Matching

OneInvitation ==
    {[late |-> TRUE, invitations |-> 1, calls |-> 0, stops |-> {}, crashes |-> {},
      faults |-> 0, losses |-> 0]}
=============================================================================
