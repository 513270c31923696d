-------------------------- MODULE MatchingService --------------------------
(***************************************************************************)
(* The matching client whole: players pair (Matching) while one of them    *)
(* lists the registration, withdraws it, ends it or crashes (Listing).     *)
(* Listing and pairing share the client's thread, so that no message is    *)
(* read while a registration is announced, withdrawn or ended.  Nobody is  *)
(* invited whose code has been closed, and the end of the registration     *)
(* ends invitations and the match.                                         *)
(***************************************************************************)
EXTENDS Matching, Listing

CONSTANTS
    Lister,    \* the player whose listing is modelled
    Fresh      \* left.revisions of one whose registration begins

ASSUME ServiceAssumption ==
    /\ Lister \in Players
    /\ \A b \in Budgets : b.revisions = Fresh \/ b.revisions \in 0 .. MaxRevision - 1

serviceVars == <<pairingVars, listingVars>>

\* The lister is registered, not listed, and has n revisions left.  (Revisions
\* are only compared.)  The worker has died.
Settled(n) ==
    /\ life = "registered" /\ step = "rest" /\ stopping = FALSE
    /\ revision = MaxRevision - n
    /\ shown = FALSE /\ mayExist = FALSE
    /\ healthy = TRUE
    /\ journal = {Closed(revision)}
    /\ worker = "over" /\ held = journal /\ tries = 0
    /\ board = {}
    /\ status = "registered"
    /\ read = Record("remove", 0, "client")

ServiceInit ==
    /\ PairingInit
    /\ IF left.revisions = Fresh THEN ListingInit ELSE Settled(left.revisions)

\* The client's thread reads messages and commands.
Idle == (AtRest /\ ~stopping) \/ Over

Pairs(p) ==
    /\ \/ (p = Lister => Idle) /\ (Act(p) \/ Handle(p))
       \/ \E q \in Players : /\ (p = Lister => Idle) /\ (q = Lister => status = "registered")
                             /\ Invite(p, q)
       \/ Around(p)
       \/ p # Lister /\ (Unregister(p) \/ Die(p))
    /\ UNCHANGED listingVars

\* Without a decision of the player.
GoesOn ==
    \/ TellFirst \/ Announce
    \/ TellListing \/ PostListing
    \/ (stopping /\ Withdraw) \/ Rearm \/ TellAgain
    \/ Close \/ Disarm \/ TellLast

\* StopRegistration pauses first.
Pauses ==
    /\ Lister \in left.stops
    /\ Stop
    /\ client' = [client EXCEPT ![Lister].open = FALSE]
    /\ UNCHANGED <<inbox, events, commands, game, tokens, left>>

Ends == (StartFails \/ HangUp) /\ Unregister(Lister)

Lists ==
    \/ (Start \/ GoesOn \/ List \/ Withdraw \/ Others) /\ UNCHANGED pairingVars
    \/ Pauses
    \/ Ends
    \/ Crash /\ Die(Lister)

ServiceNext == Lists \/ \E p \in Players : Pairs(p)

\* As in Listing and Matching; the lister's thread goes on with what it has begun.
ServiceFairness ==
    /\ ListingFairness
    /\ WF_serviceVars((GoesOn /\ UNCHANGED pairingVars) \/ Ends)
    /\ \A p \in Players :
          /\ WF_pairingVars((p = Lister => Idle) /\ Handle(p))
          /\ WF_pairingVars(Controller(p) \/ GameEnds(p))

ServiceSpec == ServiceInit /\ [][ServiceNext]_serviceVars /\ ServiceFairness
=============================================================================
