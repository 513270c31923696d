---------------------------- MODULE MCMatching ----------------------------
(* Small instances of MatchingService for TLC: the listing alone; the end of   *)
(* the registration of either player in the middle of an invitation; two       *)
(* invitations, all going well and with a post that fails; and time limits,    *)
(* with a message that is lost and with a player who changes his mind.         *)
EXTENDS MatchingService

Nothing == [late |-> FALSE, invitations |-> 0, calls |-> 0, stops |-> {}, crashes |-> {},
            faults |-> 0, losses |-> 0, revisions |-> 0]

Scenarios == {
    [Nothing EXCEPT !.revisions = Fresh, !.stops = {1}, !.crashes = {1}],
    [Nothing EXCEPT !.revisions = 1, !.stops = {1}, !.crashes = {1}, !.invitations = 1],
    [Nothing EXCEPT !.stops = {2}, !.crashes = {2}, !.invitations = 1],
    [Nothing EXCEPT !.invitations = 2],
    [Nothing EXCEPT !.invitations = 2, !.faults = 1],
    [Nothing EXCEPT !.late = TRUE, !.invitations = 1, !.losses = 1],
    [Nothing EXCEPT !.late = TRUE, !.invitations = 1, !.calls = 1]}
=============================================================================
