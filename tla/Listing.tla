------------------------------- MODULE Listing -------------------------------
(***************************************************************************)
(* A player's registration is announced under its code and may be listed   *)
(* in a public directory.  Who ends the program, or whose program crashes, *)
(* must not stay listed.  So before anything is announced the client saves *)
(* the withdrawals it would need in a journal and tells them to a worker   *)
(* process; when the client is gone the worker posts them, and what it     *)
(* leaves in the journal is posted when the program is next started.       *)
(*                                                                         *)
(* Modelled are Start, Visibility, StopRegistration and RecoverOrphans of  *)
(* the matching client, CleanupGuard::Update, the worker, RecoverCleanup   *)
(* and Directory::Apply, for one registration: each has a key, a code, a   *)
(* journal and a worker of its own.  A step is what the client, the worker *)
(* or a program started later does to the outside at once; a crash may     *)
(* come before each.  A post may fail, also after it has arrived.  Not     *)
(* modelled are the time a server asks to wait and the listings that       *)
(* expire after six hours.                                                 *)
(***************************************************************************)
EXTENDS Integers, FiniteSetsExt

CONSTANTS
    MaxRevision,  \* bound: revisions of the registration; what would need more is not begun
    Attempts      \* failed posts after which the worker gives up

ASSUME ConstantsAssumption == MaxRevision \in Nat \ {0, 1} /\ Attempts \in Nat \ {0}

VARIABLES
    life,      \* what has become of the registration
    step,      \* what the client's thread does next
    stopping,  \* StopRegistration is under way
    revision,  \* the last revision used
    shown,     \* state.publicVisible
    mayExist,  \* listingMayExist
    healthy,   \* CleanupGuard::healthy
    journal,   \* the withdrawals that are saved
    worker,    \* what the worker does
    held,      \* the withdrawals it holds
    tries,     \* posts of the worker that have failed
    board,     \* what has been posted in the directory
    status,    \* the last message under the player's code
    read       \* Directory: the newest record a reader has seen

clientVars == <<life, step, stopping, revision, shown, mayExist, healthy>>
workerVars == <<worker, held, tries>>
boardVars == <<board, status>>
listingVars == <<clientVars, journal, workerVars, boardVars, read>>

Revisions == 0 .. MaxRevision
Removal(n) == [action |-> "remove", revision |-> n]
Closed(n) == [action |-> "closed", revision |-> n]
Withdrawals == {Removal(n) : n \in Revisions} \cup {Closed(n) : n \in Revisions}

\* A record in the directory; by tells whether the client itself has posted it.
Record(action, n, by) == [action |-> action, revision |-> n, by |-> by]

ListingInit ==
    /\ life = "new" /\ step = "rest" /\ stopping = FALSE
    /\ revision = 1
    /\ shown = FALSE /\ mayExist = FALSE
    /\ healthy = TRUE
    /\ journal = {}
    /\ worker = "none" /\ held = {} /\ tries = 0
    /\ board = {}
    /\ status = "none"
    /\ read = Record("remove", 0, "client")

Up == life \in {"starting", "registered"}
Over == life \in {"stopped", "gone"}

\* A post that succeeds has arrived, one that fails may have.
Outcomes == {"done", "arrived", "lost"}

PostRecord(m, o) ==
    /\ board' = IF o # "lost" THEN board \cup {m} ELSE board
    /\ UNCHANGED status

PostStatus(s, o) ==
    /\ status' = IF o # "lost" THEN s ELSE status
    /\ UNCHANGED board

PostWithdrawal(m, by, o) ==
    IF m.action = "remove" THEN PostRecord(Record("remove", m.revision, by), o)
    ELSE PostStatus("closed", o)

-----------------------------------------------------------------------------
(* The client. *)

\* CleanupGuard::Update first saves the withdrawals.  The new file replaces the
\* old one at once or not at all.
Save(payload, then, otherwise) ==
    \/ journal' = payload /\ step' = then
    \/ journal' = journal /\ step' = otherwise

\* Then it tells the worker, which is started when there is none.  A worker that
\* has died or does not answer in time is not trusted again.
Tell(then, otherwise) ==
    \/ /\ healthy /\ worker # "over"
       /\ worker' = "waiting" /\ held' = journal
       /\ step' = then
       /\ UNCHANGED healthy
    \/ /\ held' \in {held} \cup (IF healthy /\ worker = "waiting" THEN {journal} ELSE {})
       /\ healthy' = FALSE
       /\ step' = otherwise
       /\ UNCHANGED worker

\* Start: before the code is announced, the message that closes it is saved.
Start ==
    /\ life = "new"
    /\ life' = "starting"
    /\ revision' = revision + 1
    /\ Save({Closed(revision + 1)}, "tell first", "fail")
    /\ UNCHANGED <<stopping, shown, mayExist, healthy, workerVars, boardVars, read>>

TellFirst ==
    /\ Up /\ step = "tell first"
    /\ Tell("announce", "fail")
    /\ UNCHANGED <<life, stopping, revision, shown, mayExist, journal, tries, boardVars, read>>

Announce ==
    /\ Up /\ step = "announce"
    /\ \E o \in Outcomes :
          /\ PostStatus("registered", o)
          /\ life' = IF o = "done" THEN "registered" ELSE life
          /\ step' = IF o = "done" THEN "rest" ELSE "fail"
    /\ UNCHANGED <<stopping, revision, shown, mayExist, healthy, journal, workerVars, read>>

\* The registration is given up; the worker notices when the next one begins.
StartFails ==
    /\ Up /\ step = "fail"
    /\ life' = "gone"
    /\ UNCHANGED <<step, stopping, revision, shown, mayExist, healthy, journal, workerVars,
                   boardVars, read>>

AtRest == life = "registered" /\ step = "rest"

\* Mistake: the withdrawal is numbered before the listing.
NumberedLast == revision

\* Visibility makes the record of the listing first, then those that withdraw it.
ListingNumber == revision - 2

List ==
    /\ AtRest /\ ~stopping /\ ~shown
    /\ revision + 3 <= MaxRevision
    /\ revision' = revision + 3
    /\ Save({Removal(revision + 2), Closed(revision + 3)}, "tell listing", "rest")
    /\ UNCHANGED <<life, stopping, shown, mayExist, healthy, workerVars, boardVars, read>>

TellListing ==
    /\ Up /\ step = "tell listing"
    /\ Tell("post listing", "rest")
    /\ UNCHANGED <<life, stopping, revision, shown, mayExist, journal, tries, boardVars, read>>

PostListing ==
    /\ Up /\ step = "post listing"
    /\ mayExist' = TRUE
    /\ \E o \in Outcomes :
          /\ PostRecord(Record("register", ListingNumber, "client"), o)
          /\ shown' = (o = "done")
    /\ step' = "rest"
    /\ UNCHANGED <<life, stopping, revision, healthy, journal, workerVars, read>>

\* What Visibility(false) has something to do for.
ToWithdraw == shown \/ mayExist

\* The player ends the registration, or the program is closed.
Stop ==
    /\ AtRest /\ ~stopping
    /\ revision + (IF ToWithdraw THEN 3 ELSE 1) <= MaxRevision
    /\ stopping' = TRUE
    /\ UNCHANGED <<life, step, revision, shown, mayExist, healthy, journal, workerVars, boardVars,
                   read>>

\* Visibility(false), by the player or from StopRegistration, which stops there
\* when the post fails.
Withdraw ==
    /\ AtRest /\ ToWithdraw
    /\ revision + 2 <= MaxRevision
    /\ revision' = revision + 1
    /\ \E o \in Outcomes :
          /\ PostRecord(Record("remove", revision + 1, "client"), o)
          /\ IF o = "done"
             THEN shown' = FALSE /\ mayExist' = FALSE /\ step' = "rearm" /\ UNCHANGED stopping
             ELSE stopping' = FALSE /\ UNCHANGED <<shown, mayExist, step>>
    /\ UNCHANGED <<life, healthy, journal, workerVars, read>>

\* ArmCleanup(false); whether it succeeds makes no difference.
Rearm ==
    /\ Up /\ step = "rearm"
    /\ revision' = revision + 1
    /\ Save({Closed(revision + 1)}, "tell", "rest")
    /\ UNCHANGED <<life, stopping, shown, mayExist, healthy, workerVars, boardVars, read>>

TellAgain ==
    /\ Up /\ step = "tell"
    /\ Tell("rest", "rest")
    /\ UNCHANGED <<life, stopping, revision, shown, mayExist, journal, tries, boardVars, read>>

Close ==
    /\ AtRest /\ stopping /\ ~ToWithdraw
    /\ revision' = revision + 1
    /\ \E o \in Outcomes :
          /\ PostStatus("closed", o)
          /\ step' = IF o = "done" THEN "disarm" ELSE "rest"
          /\ stopping' = (o = "done")
    /\ UNCHANGED <<life, shown, mayExist, healthy, journal, workerVars, read>>

\* CleanupGuard::Disarm: nothing is left to withdraw.
Disarm ==
    /\ Up /\ step = "disarm"
    /\ Save({}, "tell last", "hang up")
    /\ UNCHANGED <<life, stopping, revision, shown, mayExist, healthy, workerVars, boardVars, read>>

TellLast ==
    /\ Up /\ step = "tell last"
    /\ Tell("hang up", "hang up")
    /\ UNCHANGED <<life, stopping, revision, shown, mayExist, journal, tries, boardVars, read>>

HangUp ==
    /\ Up /\ step = "hang up"
    /\ life' = "stopped"
    /\ UNCHANGED <<step, stopping, revision, shown, mayExist, healthy, journal, workerVars,
                   boardVars, read>>

\* The program crashes, or ends although StopRegistration could not post.
Crash ==
    /\ Up
    /\ life' = "gone"
    /\ UNCHANGED <<step, stopping, revision, shown, mayExist, healthy, journal, workerVars,
                   boardVars, read>>

-----------------------------------------------------------------------------
(* The worker and programs started later. *)

\* RunCleanupWorker: the pipe is closed.
WorkerWakes ==
    /\ worker = "waiting" /\ Over
    /\ worker' = IF held = {} THEN "over" ELSE "sending"
    /\ UNCHANGED <<clientVars, journal, held, tries, boardVars, read>>

\* What has been posted is taken off and the rest is saved.
WorkerPosts(m) ==
    /\ worker = "sending" /\ m \in held
    /\ \E o \in Outcomes :
          /\ PostWithdrawal(m, "others", o)
          /\ IF o # "done"
             THEN /\ tries' = tries + 1
                  /\ worker' = IF tries + 1 = Attempts THEN "over" ELSE worker
                  /\ UNCHANGED <<held, journal>>
             ELSE /\ held' = held \ {m}
                  /\ UNCHANGED tries
                  /\ \/ journal' = held' /\ worker' = IF held' = {} THEN "over" ELSE worker
                     \/ journal' = journal /\ worker' = "over"
    /\ UNCHANGED <<clientVars, read>>

WorkerDies ==
    /\ worker \in {"waiting", "sending"}
    /\ worker' = "over"
    /\ UNCHANGED <<clientVars, journal, held, tries, boardVars, read>>

\* Mistake: the lock beside a journal is ignored.
Unleased == TRUE

\* Client and worker keep the journal locked while they live.
LeaseFree == Over /\ worker \in {"none", "over"}

\* RecoverCleanup posts the records of a journal in their order.  A record whose
\* post fails stays, and so do those after it.
Recover(m, o) ==
    /\ LeaseFree
    /\ m \in journal /\ (m.action = "closed" => \A n \in journal : n.action = "closed")
    /\ PostWithdrawal(m, "others", o)
    /\ journal' \in {journal} \cup (IF o = "done" THEN {journal \ {m}} ELSE {})
    /\ UNCHANGED <<clientVars, workerVars, read>>

Recovered(m) == Recover(m, "done") /\ journal' # journal

\* Mistake: a reader goes by the order in which it reads.
Whatever(m) == TRUE

\* Directory::Apply: records with an old revision are passed over.
Newer(m) == m.revision > read.revision

\* Readers come and go; who comes late reads all that has been posted.
Read(m) ==
    /\ m \in board
    /\ Newer(m)
    /\ read' = m
    /\ UNCHANGED <<clientVars, journal, workerVars, boardVars>>

-----------------------------------------------------------------------------

Client ==
    \/ Start \/ TellFirst \/ Announce \/ StartFails
    \/ List \/ TellListing \/ PostListing
    \/ Withdraw \/ Rearm \/ TellAgain
    \/ Stop \/ Close \/ Disarm \/ TellLast \/ HangUp \/ Crash

Others ==
    \/ WorkerWakes \/ WorkerDies
    \/ \E m \in held : WorkerPosts(m)
    \/ \E m \in journal, o \in Outcomes : Recover(m, o)
    \/ \E m \in board : Read(m)

ListingNext == Client \/ Others

ListingSpec == ListingInit /\ [][ListingNext]_listingVars

\* The worker runs, readers read, and the program is started again and again
\* until the server takes what it posts.
ListingFairness ==
    /\ WF_listingVars(WorkerWakes \/ \E m \in held : WorkerPosts(m))
    /\ WF_listingVars(\E m \in journal : Recovered(m))
    /\ WF_listingVars(\E m \in board : Read(m))

ListingFairSpec == ListingSpec /\ ListingFairness

-----------------------------------------------------------------------------
(* Properties. *)

Directory == [action : {"register", "remove"}, revision : Revisions, by : {"client", "others"}]

\* Type invariant.
ListingTypeOK ==
    /\ life \in {"new", "starting", "registered", "stopped", "gone"}
    /\ step \in {"rest", "tell first", "announce", "fail", "tell listing", "post listing",
                 "rearm", "tell", "disarm", "tell last", "hang up"}
    /\ stopping \in BOOLEAN /\ shown \in BOOLEAN /\ mayExist \in BOOLEAN /\ healthy \in BOOLEAN
    /\ revision \in 1 .. MaxRevision
    /\ journal \subseteq Withdrawals /\ held \subseteq Withdrawals
    /\ worker \in {"none", "waiting", "sending", "over"}
    /\ tries \in 0 .. Attempts
    /\ board \subseteq Directory
    /\ status \in {"none", "registered", "closed"}
    /\ read \in Directory

\* Whatever is listed can be withdrawn at any moment by others than the client:
\* the journal holds a withdrawal that is newer (Matching.cpp:156), so that
\* a crash at any moment, of the client and of the worker, leaves it behind.
WithdrawalReady ==
    \A m \in board : m.action = "register" =>
        \E w \in board \cup journal : w.action = "remove" /\ w.revision > m.revision

\* Nobody else withdraws the listing of a client that runs: another window that
\* is opened does not take its journal for one left behind.
OwnListingStays == Up => \A m \in board : m.by = "client"

\* When the client is gone, stopped or crashed, whoever reads the directory
\* sees the listing gone at last and never again, and who asks under the code
\* is told that it is closed.
NothingLeftListed ==
    [](Over => <>[](read.action # "register" /\ status # "registered"))
=============================================================================
