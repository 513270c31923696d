------------------------ MODULE MatchingServiceProofs ------------------------
(***************************************************************************)
(* Proofs about the matching client: first about one registration          *)
(* (Listing), for every number of revisions and of attempts, then about    *)
(* the whole client.                                                       *)
(*                                                                         *)
(* A listing can be withdrawn at any moment because the client saves the   *)
(* withdrawal before it lists.  That this is enough hangs on what becomes  *)
(* of the saved withdrawal: the client replaces it only by a newer one, or *)
(* when nothing is listed; the worker takes off only what it has posted,   *)
(* but saves what it holds in the place of what is saved, so what it holds *)
(* must do as well, although the client may have failed to tell it.  It    *)
(* does because a client that has failed once lists nothing more.          *)
(*                                                                         *)
(* The second half is about the pairing (Matching): the two who are in one *)
(* match, and the game of each.                                            *)
(***************************************************************************)
EXTENDS MatchingService, TLAPS, FiniteSetTheorems

Listed == {m \in board : m.action = "register"}

\* A newer removal is in the directory.
Withdrawn(m) == \E w \in board : w.action = "remove" /\ w.revision > m.revision

\* A newer removal is among the withdrawals of payload.
Answered(payload, m) == \E w \in payload : w.action = "remove" /\ w.revision > m.revision

Fit(payload) == \A m \in Listed : Withdrawn(m) \/ Answered(payload, m)

\* The revisions that are kept back for the end of the registration are there.
Reserve ==
    /\ life = "new" => revision = 1 /\ ~stopping
    /\ worker # "over" => tries < Attempts
    /\ Up /\ step = "rearm" =>
          revision + 1 <= MaxRevision /\ (stopping => revision + 2 <= MaxRevision)
    /\ Up /\ step \in {"rest", "tell"} /\ stopping =>
          revision + 1 <= MaxRevision /\ (mayExist => revision + 3 <= MaxRevision)
    /\ Up /\ step \in {"tell first", "announce", "tell listing", "post listing", "fail"} => ~stopping

\* What the client is about to do agrees with what it has saved and remembers.
Order ==
    /\ shown => mayExist
    /\ life = "new" => ~mayExist
    /\ Up /\ step \in {"rearm", "tell", "disarm", "tell last", "hang up"} => ~mayExist
    /\ Up /\ step \in {"tell listing", "post listing"} =>
          /\ revision >= 4
          /\ journal = {Removal(revision - 1), Closed(revision)}
    /\ Up /\ step = "post listing" /\ worker = "waiting" => held = journal

\* Nobody but the client acts for the registration as long as it is not over.
Alone == ~Over => worker # "sending" /\ \A m \in board : m.by = "client"

\* Listings are withdrawn, or can be from the journal and by the worker.
Ready ==
    /\ \A m \in Listed : m.revision < revision
    /\ ~mayExist => \A m \in Listed : Withdrawn(m)
    /\ Fit(journal)
    /\ worker \in {"waiting", "sending"} => Fit(held)


\* The type invariant in two parts, for the provers.
Flags == stopping \in BOOLEAN /\ shown \in BOOLEAN /\ mayExist \in BOOLEAN /\ healthy \in BOOLEAN

Typed ==
    /\ life \in {"new", "starting", "registered", "stopped", "gone"}
    /\ step \in {"rest", "tell first", "announce", "fail", "tell listing", "post listing",
                 "rearm", "tell", "disarm", "tell last", "hang up"}
    /\ revision \in 1 .. MaxRevision
    /\ journal \subseteq Withdrawals /\ held \subseteq Withdrawals
    /\ worker \in {"none", "waiting", "sending", "over"}
    /\ tries \in 0 .. Attempts
    /\ board \subseteq Directory
    /\ status \in {"none", "registered", "closed"}
    /\ read \in Directory

LInv == Typed /\ Flags /\ Reserve /\ Order /\ Alone /\ Ready

LEMMA TypeParts == ListingTypeOK <=> Typed /\ Flags
BY Zenon DEF ListingTypeOK, Typed, Flags

LEMMA InitKeeps == ListingInit => LInv
<1> SUFFICES ASSUME ListingInit PROVE LInv
  OBVIOUS
<1> USE ConstantsAssumption DEF ListingInit
<1>1. Typed BY DEF Typed, Withdrawals, Directory, Record, Revisions
<1>2. Flags BY DEF Flags
<1>3. Reserve /\ Order BY DEF Reserve, Order, Up
<1>4. Alone /\ Ready BY DEF Alone, Ready, Listed, Fit
<1> QED BY <1>1, <1>2, <1>3, <1>4 DEF LInv

-----------------------------------------------------------------------------
(* Type correctness. *)

LEMMA Payloads ==
    /\ \A n \in Revisions : Removal(n) \in Withdrawals /\ Closed(n) \in Withdrawals
    /\ \A m \in Withdrawals : m.action \in {"remove", "closed"} /\ m.revision \in Revisions
    /\ \A n : Removal(n).action = "remove" /\ Closed(n).action = "closed"
    /\ \A n : Removal(n).revision = n /\ Closed(n).revision = n
<1>1. \A n \in Revisions : Removal(n) \in Withdrawals /\ Closed(n) \in Withdrawals
  BY DEF Withdrawals
<1>2. ASSUME NEW m \in Withdrawals PROVE m.action \in {"remove", "closed"} /\ m.revision \in Revisions
  BY DEF Withdrawals, Removal, Closed
<1>3. ASSUME NEW n PROVE Removal(n).action = "remove" /\ Closed(n).action = "closed"
  BY DEF Removal, Closed
<1>4. ASSUME NEW n PROVE Removal(n).revision = n /\ Closed(n).revision = n
  BY DEF Removal, Closed
<1> QED BY <1>1, <1>2, <1>3, <1>4

LEMMA Records ==
    /\ \A a \in {"register", "remove"}, n \in Revisions, b \in {"client", "others"} :
          Record(a, n, b) \in Directory
    /\ \A m \in Directory : m.action \in {"register", "remove"} /\ m.revision \in Revisions
    /\ \A a, n, b : Record(a, n, b).action = a /\ Record(a, n, b).revision = n /\ Record(a, n, b).by = b
<1>1. ASSUME NEW a \in {"register", "remove"}, NEW n \in Revisions, NEW b \in {"client", "others"}
      PROVE  Record(a, n, b) \in Directory
  BY DEF Record, Directory
<1>2. ASSUME NEW m \in Directory PROVE m.action \in {"register", "remove"} /\ m.revision \in Revisions
  BY DEF Directory
<1>3. ASSUME NEW a, NEW n, NEW b
      PROVE  Record(a, n, b).action = a /\ Record(a, n, b).revision = n /\ Record(a, n, b).by = b
  BY DEF Record
<1> QED BY <1>1, <1>2, <1>3

LEMMA PostedWithdrawal ==
    ASSUME Typed, NEW m \in Withdrawals, NEW o \in Outcomes, PostWithdrawal(m, "others", o)
    PROVE  /\ board' \subseteq Directory /\ status' \in {"none", "registered", "closed"}
           /\ board' = board \/ board' = board \cup {Record("remove", m.revision, "others")}
           /\ m.action = "remove" /\ o = "done" => board' = board \cup {Record("remove", m.revision, "others")}
<1>1. Record("remove", m.revision, "others") \in Directory BY Payloads, Records
<1>2. CASE m.action = "remove"
  <2>1. PostRecord(Record("remove", m.revision, "others"), o) BY <1>2 DEF PostWithdrawal
  <2> QED BY <1>1, <2>1 DEF PostRecord, Typed
<1>3. CASE m.action # "remove" BY <1>3 DEF PostWithdrawal, PostStatus, Typed
<1> QED BY <1>2, <1>3

LEMMA TypedStep == ASSUME LInv, [ListingNext]_listingVars PROVE Typed'
<1> USE ConstantsAssumption
<1>0. Typed /\ Reserve /\ Order BY DEF LInv
<1>a. /\ MaxRevision \in Nat /\ MaxRevision >= 2
      /\ revision \in Nat /\ 1 <= revision /\ revision <= MaxRevision
  <2>1. revision \in 1 .. MaxRevision BY <1>0 DEF Typed
  <2> QED BY <2>1
<1> USE <1>0
<1>1. CASE UNCHANGED listingVars
  BY <1>1 DEF Typed, listingVars, clientVars, workerVars, boardVars
<1>2. CASE Start
  <2>1. revision = 1 BY <1>2 DEF Start, Reserve
  <2>2. revision + 1 \in Revisions /\ revision + 1 \in 1 .. MaxRevision BY <2>1, <1>a DEF Revisions
  <2> QED BY <1>2, <2>2, Payloads DEF Start, Typed, Save, workerVars, boardVars
<1>3. CASE TellFirst BY <1>3 DEF TellFirst, Typed, Tell, boardVars
<1>4. CASE Announce BY <1>4 DEF Announce, Typed, PostStatus, workerVars
<1>5. CASE StartFails BY <1>5 DEF StartFails, Typed, workerVars, boardVars
<1>6. CASE List
  <2>1. revision + 2 \in Revisions /\ revision + 3 \in Revisions /\ revision + 3 \in 1 .. MaxRevision
    <3>1. revision + 3 <= MaxRevision BY <1>6 DEF List
    <3> QED BY <3>1, <1>a DEF Revisions
  <2> QED BY <1>6, <2>1, Payloads DEF List, Typed, Save, workerVars, boardVars
<1>7. CASE TellListing BY <1>7 DEF TellListing, Typed, Tell, boardVars
<1>8. CASE PostListing
  <2>1. revision - 2 \in Revisions
    <3>1. revision >= 4 BY <1>8 DEF PostListing, Order
    <3> QED BY <3>1, <1>a DEF Revisions
  <2>2. PICK o \in Outcomes : PostRecord(Record("register", revision - 2, "client"), o)
    BY <1>8 DEF PostListing, ListingNumber
  <2>3. Record("register", revision - 2, "client") \in Directory BY <2>1, Records
  <2>4. board' \subseteq Directory /\ status' = status BY <2>2, <2>3 DEF PostRecord, Typed
  <2> QED BY <1>8, <2>4 DEF PostListing, Typed, workerVars
<1>9. CASE Withdraw
  <2>1. revision + 1 \in Revisions /\ revision + 1 \in 1 .. MaxRevision
    <3>1. revision + 2 <= MaxRevision BY <1>9 DEF Withdraw
    <3> QED BY <3>1, <1>a DEF Revisions
  <2>2. PICK o \in Outcomes : PostRecord(Record("remove", revision + 1, "client"), o)
    BY <1>9 DEF Withdraw
  <2>3. Record("remove", revision + 1, "client") \in Directory BY <2>1, Records
  <2>4. board' \subseteq Directory /\ status' = status BY <2>2, <2>3 DEF PostRecord, Typed
  <2>5. step' \in {step, "rearm"} BY <1>9 DEF Withdraw
  <2> QED BY <1>9, <2>1, <2>4, <2>5 DEF Withdraw, Typed, workerVars
<1>10. CASE Rearm
  <2>1. revision + 1 \in Revisions /\ revision + 1 \in 1 .. MaxRevision
    <3>1. revision + 1 <= MaxRevision BY <1>10 DEF Rearm, Reserve
    <3> QED BY <3>1, <1>a DEF Revisions
  <2> QED BY <1>10, <2>1, Payloads DEF Rearm, Typed, Save, workerVars, boardVars
<1>11. CASE TellAgain BY <1>11 DEF TellAgain, Typed, Tell, boardVars
<1>12. CASE Stop BY <1>12 DEF Stop, Typed, workerVars, boardVars
<1>13. CASE Close
  <2>1. revision + 1 \in 1 .. MaxRevision
    <3>1. revision + 1 <= MaxRevision
      BY <1>13 DEF Close, Reserve, AtRest, ToWithdraw, Up
    <3> QED BY <3>1, <1>a
  <2> QED BY <1>13, <2>1 DEF Close, Typed, PostStatus, workerVars
<1>14. CASE Disarm BY <1>14 DEF Disarm, Typed, Save, workerVars, boardVars
<1>15. CASE TellLast BY <1>15 DEF TellLast, Typed, Tell, boardVars
<1>16. CASE HangUp BY <1>16 DEF HangUp, Typed, workerVars, boardVars
<1>17. CASE Crash BY <1>17 DEF Crash, Typed, workerVars, boardVars
<1>18. CASE WorkerWakes BY <1>18 DEF WorkerWakes, Typed, clientVars, boardVars
<1>19. CASE WorkerDies BY <1>19 DEF WorkerDies, Typed, clientVars, boardVars
<1>20. ASSUME NEW m \in held, WorkerPosts(m) PROVE Typed'
  <2>1. PICK o \in Outcomes : PostWithdrawal(m, "others", o) BY <1>20 DEF WorkerPosts
  <2>2. board' \subseteq Directory /\ status' \in {"none", "registered", "closed"}
    BY <2>1, PostedWithdrawal DEF Typed
  <2>3. /\ held' \subseteq held /\ (journal' = journal \/ journal' = held')
        /\ worker' \in {worker, "over"} /\ tries' \in {tries, tries + 1}
    BY <1>20 DEF WorkerPosts
  <2>4. tries' \in 0 .. Attempts
    <3>1. tries \in 0 .. Attempts /\ tries < Attempts BY <1>20 DEF WorkerPosts, Typed, Reserve
    <3> QED BY <2>3, <3>1
  <2> QED BY <1>20, <2>2, <2>3, <2>4 DEF WorkerPosts, Typed, clientVars
<1>21. ASSUME NEW m \in journal, NEW o \in Outcomes, Recover(m, o) PROVE Typed'
  <2>1. board' \subseteq Directory /\ status' \in {"none", "registered", "closed"}
    BY <1>21, PostedWithdrawal DEF Typed, Recover
  <2> QED BY <1>21, <2>1 DEF Recover, Typed, clientVars, workerVars
<1>22. ASSUME NEW m \in board, Read(m) PROVE Typed'
  BY <1>22 DEF Read, Typed, clientVars, workerVars, boardVars
<1> QED
  BY <1>1, <1>2, <1>3, <1>4, <1>5, <1>6, <1>7, <1>8, <1>9, <1>10, <1>11, <1>12, <1>13, <1>14,
     <1>15, <1>16, <1>17, <1>18, <1>19, <1>20, <1>21, <1>22 DEF ListingNext, Client, Others

LEMMA FlagsStep == ASSUME LInv, [ListingNext]_listingVars PROVE Flags'
<1> USE DEF LInv, Flags, Tell, clientVars
<1>1. CASE UNCHANGED listingVars BY <1>1 DEF listingVars
<1>2. CASE Start \/ TellFirst \/ Announce \/ StartFails
  BY <1>2 DEF Start, TellFirst, Announce, StartFails
<1>3. CASE List \/ TellListing \/ PostListing
  BY <1>3 DEF List, TellListing, PostListing
<1>4. CASE Withdraw \/ Rearm \/ TellAgain
  BY <1>4 DEF Withdraw, Rearm, TellAgain
<1>5. CASE Stop \/ Close BY <1>5 DEF Stop, Close
<1>6. CASE Disarm \/ TellLast \/ HangUp \/ Crash BY <1>6 DEF Disarm, TellLast, HangUp, Crash
<1>7. CASE Others BY <1>7 DEF Others, WorkerWakes, WorkerDies, WorkerPosts, Recover, Read
<1> QED BY <1>1, <1>2, <1>3, <1>4, <1>5, <1>6, <1>7 DEF ListingNext, Client

LEMMA Numbers ==
    ASSUME LInv
    PROVE  /\ MaxRevision \in Nat /\ MaxRevision >= 2 /\ Attempts \in Nat
           /\ revision \in Nat /\ 1 <= revision /\ revision <= MaxRevision
           /\ tries \in Nat /\ tries <= Attempts
<1>1. revision \in 1 .. MaxRevision /\ tries \in 0 .. Attempts BY DEF LInv, Typed
<1> QED BY <1>1, ConstantsAssumption

LEMMA ReserveStep == ASSUME LInv, [ListingNext]_listingVars PROVE Reserve'
<1>0. Typed /\ Flags /\ Reserve /\ Order BY DEF LInv
<1>a. revision \in Nat /\ MaxRevision \in Nat /\ tries \in Nat /\ Attempts \in Nat
  BY Numbers
<1> USE <1>0, <1>a
<1>1. CASE UNCHANGED listingVars
  BY <1>1 DEF listingVars, clientVars, workerVars, boardVars, Reserve, Up
<1>2. CASE Start
  <2>1. ~stopping' /\ UNCHANGED <<worker, tries>> /\ life' = "starting" /\ step' \in {"tell first", "fail"}
    BY <1>2 DEF Start, Save, workerVars, Reserve, Up
  <2> QED BY <2>1 DEF Reserve, Up
<1>3. CASE TellFirst BY <1>3 DEF TellFirst, Tell, Reserve, Up
<1>4. CASE Announce BY <1>4 DEF Announce, workerVars, Reserve, Up
<1>5. CASE StartFails BY <1>5 DEF StartFails, workerVars, Reserve, Up
<1>6. CASE List BY <1>6 DEF List, Save, AtRest, workerVars, Reserve, Up
<1>7. CASE TellListing BY <1>7 DEF TellListing, Tell, Reserve, Up
<1>8. CASE PostListing BY <1>8 DEF PostListing, workerVars, Reserve, Up
<1>9. CASE Withdraw
  <2>1. /\ life = "registered" /\ step = "rest" /\ mayExist
        /\ revision + 2 <= MaxRevision /\ revision' = revision + 1
        /\ UNCHANGED <<life, worker, tries>>
    BY <1>9 DEF Withdraw, AtRest, ToWithdraw, workerVars, Order, Reserve, Up
  <2>2. \/ step' = "rearm" /\ stopping' = stopping
        \/ step' = "rest" /\ ~stopping'
    BY <1>9, <2>1 DEF Withdraw, Reserve, Up
  <2>3. stopping => revision + 3 <= MaxRevision BY <2>1 DEF Reserve, Up
  <2>4. CASE step' = "rearm" /\ stopping' = stopping BY <2>1, <2>3, <2>4 DEF Reserve, Up
  <2>5. CASE step' = "rest" /\ ~stopping' BY <2>1, <2>5 DEF Reserve, Up
  <2> QED BY <2>2, <2>4, <2>5 DEF Reserve, Up
<1>10. CASE Rearm
  <2>1. /\ step = "rearm" /\ ~mayExist /\ ~mayExist' /\ Up
        /\ UNCHANGED <<life, stopping, worker, tries>>
        /\ revision' = revision + 1 /\ step' \in {"tell", "rest"}
    BY <1>10 DEF Rearm, Save, workerVars, Order, Reserve, Up
  <2>2. stopping => revision' + 1 <= MaxRevision BY <2>1 DEF Reserve, Up
  <2> QED BY <2>1, <2>2 DEF Reserve, Up
<1>11. CASE TellAgain BY <1>11 DEF TellAgain, Tell, Reserve, Up
<1>12. CASE Stop
  <2> DEFINE kept == IF ToWithdraw THEN 3 ELSE 1
  <2>1. /\ AtRest /\ UNCHANGED <<life, step, revision, mayExist, worker, tries>>
        /\ revision + kept <= MaxRevision
    BY <1>12 DEF Stop, workerVars
  <2>2. kept \in Nat /\ kept >= 1 /\ (mayExist => kept = 3) BY DEF ToWithdraw
  <2>3. revision + 1 <= MaxRevision /\ (mayExist => revision + 3 <= MaxRevision)
    <3> HIDE DEF kept
    <3> QED BY <2>1, <2>2
  <2> HIDE DEF kept
  <2> QED BY <2>1, <2>3 DEF AtRest, Reserve, Up
<1>13. CASE Close
  <2>1. /\ life = "registered" /\ UNCHANGED <<life, worker, tries>>
        /\ step' = "disarm" \/ (step' = "rest" /\ ~stopping')
    <3>1. PICK o \in Outcomes : step' = (IF o = "done" THEN "disarm" ELSE "rest") /\ stopping' = (o = "done")
      BY <1>13 DEF Close, Reserve, Up
    <3> QED BY <1>13, <3>1 DEF Close, AtRest, workerVars, Reserve, Up
  <2> QED BY <2>1 DEF Reserve, Up
<1>14. CASE Disarm BY <1>14 DEF Disarm, Save, workerVars, Reserve, Up
<1>15. CASE TellLast BY <1>15 DEF TellLast, Tell, Reserve, Up
<1>16. CASE HangUp BY <1>16 DEF HangUp, workerVars, Reserve, Up
<1>17. CASE Crash BY <1>17 DEF Crash, workerVars, Reserve, Up
<1>18. CASE WorkerWakes BY <1>18 DEF WorkerWakes, clientVars, Reserve, Up
<1>19. CASE WorkerDies BY <1>19 DEF WorkerDies, clientVars, Reserve, Up
<1>20. ASSUME NEW m \in held, WorkerPosts(m) PROVE Reserve'
  <2>1. UNCHANGED clientVars BY <1>20 DEF WorkerPosts, Reserve, Up
  <2>2. worker = "sending" BY <1>20 DEF WorkerPosts
  <2>3. tries < Attempts BY <2>2 DEF Reserve
  <2>4. \/ tries' = tries
        \/ tries' = tries + 1 /\ (tries + 1 = Attempts => worker' = "over")
    BY <1>20 DEF WorkerPosts
  <2>6. worker' # "over" => tries' < Attempts BY <2>3, <2>4
  <2> QED BY <2>1, <2>6 DEF clientVars, Reserve, Up
<1>21. ASSUME NEW m \in journal, NEW o \in Outcomes, Recover(m, o) PROVE Reserve'
  BY <1>21 DEF Recover, clientVars, workerVars, Reserve, Up
<1>22. ASSUME NEW m \in board, Read(m) PROVE Reserve'
  BY <1>22 DEF Read, clientVars, workerVars, Reserve, Up
<1> QED
  BY <1>1, <1>2, <1>3, <1>4, <1>5, <1>6, <1>7, <1>8, <1>9, <1>10, <1>11, <1>12, <1>13, <1>14,
     <1>15, <1>16, <1>17, <1>18, <1>19, <1>20, <1>21, <1>22 DEF ListingNext, Client, Others

LEMMA OrderStep == ASSUME LInv, [ListingNext]_listingVars PROVE Order'
<1>0. Typed /\ Flags /\ Reserve /\ Order /\ Alone BY DEF LInv
<1>a. revision \in Nat /\ revision >= 1 BY Numbers
<1> USE <1>0, <1>a
<1>1. CASE UNCHANGED listingVars
  BY <1>1 DEF listingVars, clientVars, workerVars, boardVars, Order, Up
<1>2. CASE Start BY <1>2 DEF Start, Save, workerVars, Order, Up
<1>3. CASE TellFirst BY <1>3 DEF TellFirst, Tell, Order, Up
<1>4. CASE Announce BY <1>4 DEF Announce, workerVars, Order, Up
<1>5. CASE StartFails BY <1>5 DEF StartFails, workerVars, Order, Up
<1>6. CASE List
  <2>1. /\ UNCHANGED <<shown, mayExist, life>> /\ revision' = revision + 3
        /\ \/ step' = "rest"
           \/ step' = "tell listing" /\ journal' = {Removal(revision + 2), Closed(revision + 3)}
    BY <1>6 DEF List, Save, Order, Up
  <2>2. revision' = revision + 3 BY <2>1
  <2>3. revision' - 1 = revision + 2 /\ revision' >= 4 BY <2>2
  <2> QED BY <2>1, <2>2, <2>3 DEF Order, Up
<1>7. CASE TellListing BY <1>7 DEF TellListing, Tell, Order, Up
<1>8. CASE PostListing BY <1>8 DEF PostListing, workerVars, Order, Up
<1>9. CASE Withdraw BY <1>9 DEF Withdraw, AtRest, ToWithdraw, workerVars, Order, Up
<1>10. CASE Rearm BY <1>10 DEF Rearm, Save, workerVars, Order, Up
<1>11. CASE TellAgain BY <1>11 DEF TellAgain, Tell, Order, Up
<1>12. CASE Stop BY <1>12 DEF Stop, workerVars, Order, Up
<1>13. CASE Close BY <1>13 DEF Close, ToWithdraw, workerVars, AtRest, Order, Up
<1>14. CASE Disarm BY <1>14 DEF Disarm, Save, workerVars, Order, Up
<1>15. CASE TellLast BY <1>15 DEF TellLast, Tell, Order, Up
<1>16. CASE HangUp BY <1>16 DEF HangUp, workerVars, Order, Up
<1>17. CASE Crash BY <1>17 DEF Crash, workerVars, Order, Up
<1>18. CASE WorkerWakes BY <1>18 DEF WorkerWakes, clientVars, Over, Order, Up
<1>19. CASE WorkerDies BY <1>19 DEF WorkerDies, clientVars, Order, Up
<1>20. ASSUME NEW m \in held, WorkerPosts(m) PROVE Order'
  <2>1. UNCHANGED clientVars /\ worker = "sending" BY <1>20 DEF WorkerPosts, Order, Up
  <2>2. ~Up BY <2>1 DEF Alone, Over, Order, Up
  <2> QED BY <2>1, <2>2 DEF clientVars, Order, Up
<1>21. ASSUME NEW m \in journal, NEW o \in Outcomes, Recover(m, o) PROVE Order'
  <2>1. UNCHANGED clientVars /\ ~Up BY <1>21 DEF Recover, LeaseFree, Over, Order, Up
  <2> QED BY <2>1 DEF clientVars, Order, Up
<1>22. ASSUME NEW m \in board, Read(m) PROVE Order'
  BY <1>22 DEF Read, clientVars, workerVars, Order, Up
<1> QED
  BY <1>1, <1>2, <1>3, <1>4, <1>5, <1>6, <1>7, <1>8, <1>9, <1>10, <1>11, <1>12, <1>13, <1>14,
     <1>15, <1>16, <1>17, <1>18, <1>19, <1>20, <1>21, <1>22 DEF ListingNext, Client, Others

LEMMA AloneStep == ASSUME LInv, [ListingNext]_listingVars PROVE Alone'
<1>0. Alone BY DEF LInv
<1> USE <1>0 DEF Alone, Over
<1>1. CASE UNCHANGED listingVars
  BY <1>1 DEF listingVars, clientVars, workerVars, boardVars
<1>2. CASE Start BY <1>2 DEF Start, workerVars, boardVars
<1>3. CASE TellFirst BY <1>3 DEF TellFirst, Up, Tell, boardVars
<1>4. CASE Announce BY <1>4 DEF Announce, Up, PostStatus, workerVars
<1>5. CASE StartFails BY <1>5 DEF StartFails
<1>6. CASE List BY <1>6 DEF List, workerVars, boardVars
<1>7. CASE TellListing BY <1>7 DEF TellListing, Up, Tell, boardVars
<1>8. CASE PostListing
  <2>1. UNCHANGED life /\ UNCHANGED worker BY <1>8 DEF PostListing, workerVars
  <2>2. \A m \in board' : m \in board \/ m = Record("register", ListingNumber, "client")
    BY <1>8 DEF PostListing, PostRecord
  <2> QED BY <2>1, <2>2, Records
<1>9. CASE Withdraw
  <2>1. UNCHANGED life /\ UNCHANGED worker BY <1>9 DEF Withdraw, workerVars
  <2>2. \A m \in board' : m \in board \/ m = Record("remove", revision + 1, "client")
    BY <1>9 DEF Withdraw, PostRecord
  <2> QED BY <2>1, <2>2, Records
<1>10. CASE Rearm BY <1>10 DEF Rearm, workerVars, boardVars
<1>11. CASE TellAgain BY <1>11 DEF TellAgain, Up, Tell, boardVars
<1>12. CASE Stop BY <1>12 DEF Stop, workerVars, boardVars
<1>13. CASE Close BY <1>13 DEF Close, PostStatus, workerVars
<1>14. CASE Disarm BY <1>14 DEF Disarm, workerVars, boardVars
<1>15. CASE TellLast BY <1>15 DEF TellLast, Up, Tell, boardVars
<1>16. CASE HangUp BY <1>16 DEF HangUp
<1>17. CASE Crash BY <1>17 DEF Crash
<1>18. CASE WorkerWakes BY <1>18 DEF WorkerWakes, clientVars
<1>19. CASE WorkerDies BY <1>19 DEF WorkerDies, clientVars, boardVars
<1>20. ASSUME NEW m \in held, WorkerPosts(m) PROVE Alone'
  BY <1>20 DEF WorkerPosts, clientVars
<1>21. ASSUME NEW m \in journal, NEW o \in Outcomes, Recover(m, o) PROVE Alone'
  BY <1>21 DEF Recover, LeaseFree, clientVars
<1>22. ASSUME NEW m \in board, Read(m) PROVE Alone'
  BY <1>22 DEF Read, clientVars, workerVars, boardVars
<1> QED
  BY <1>1, <1>2, <1>3, <1>4, <1>5, <1>6, <1>7, <1>8, <1>9, <1>10, <1>11, <1>12, <1>13, <1>14,
     <1>15, <1>16, <1>17, <1>18, <1>19, <1>20, <1>21, <1>22 DEF ListingNext, Client, Others

-----------------------------------------------------------------------------
(* The withdrawals. *)

\* When nothing is listed, any withdrawals will do.
LEMMA NothingListed == ASSUME Ready, ~mayExist, NEW payload PROVE Fit(payload)
BY DEF Ready, Fit

LEMMA ListedRevision == ASSUME LInv, NEW m \in Listed PROVE m.revision \in Nat
<1>1. m \in Directory BY DEF LInv, Typed, Listed
<1>2. m.revision \in Revisions BY <1>1, Records
<1> QED BY <1>2, Numbers DEF Revisions

\* The directory is left alone.
LEMMA SameBoard ==
    ASSUME LInv, board' = board, revision' \in Nat, revision' >= revision, mayExist' = mayExist,
           Fit(journal'), worker' \in {"waiting", "sending"} => Fit(held')
    PROVE  Ready'
<1>1. Ready BY DEF LInv
<1>2. Listed' = Listed /\ \A m : Withdrawn(m)' = Withdrawn(m) BY DEF Listed, Withdrawn
<1>3. ASSUME NEW m \in Listed PROVE m.revision < revision'
  <2>1. m.revision \in Nat BY ListedRevision
  <2>2. m.revision < revision BY <1>1 DEF Ready
  <2> QED BY <2>1, <2>2, Numbers
<1>4. mayExist' \/ \A m \in Listed' : Withdrawn(m)' BY <1>1, <1>2 DEF Ready
<1>5. Fit(journal)' BY <1>2 DEF Fit, Answered
<1>6. worker' \in {"waiting", "sending"} => Fit(held)' BY <1>2 DEF Fit, Answered
<1> QED BY <1>2, <1>3, <1>4, <1>5, <1>6 DEF Ready

\* A removal is posted.
LEMMA RemovalPosted ==
    ASSUME NEW n, NEW by, board' = board \/ board' = board \cup {Record("remove", n, by)}
    PROVE  Listed' = Listed /\ \A m : Withdrawn(m) => Withdrawn(m)'
<1>1. Record("remove", n, by).action = "remove" BY Records
<1> QED BY <1>1 DEF Listed, Withdrawn

LEMMA RemovalWithdraws ==
    ASSUME NEW n, NEW by, board' = board \cup {Record("remove", n, by)}, NEW m, n > m.revision
    PROVE  Withdrawn(m)'
BY Records DEF Withdrawn

\* What has been posted need not be held any longer.
LEMMA PostedFits ==
    ASSUME Typed, NEW payload, payload \subseteq Withdrawals, Fit(payload), NEW m \in payload,
           NEW o \in Outcomes, PostWithdrawal(m, "others", o)
    PROVE  /\ Listed' = Listed /\ \A x : Withdrawn(x) => Withdrawn(x)'
           /\ \A x \in Listed' : Withdrawn(x)' \/ Answered(payload, x)
           /\ o = "done" => \A x \in Listed' : Withdrawn(x)' \/ Answered(payload \ {m}, x)
<1>1. /\ board' = board \/ board' = board \cup {Record("remove", m.revision, "others")}
      /\ m.action = "remove" /\ o = "done" => board' = board \cup {Record("remove", m.revision, "others")}
  BY PostedWithdrawal
<1>2. Listed' = Listed /\ \A x : Withdrawn(x) => Withdrawn(x)' BY <1>1, RemovalPosted
<1>3. ASSUME NEW x \in Listed PROVE Withdrawn(x)' \/ Answered(payload, x) BY <1>2 DEF Fit
<1>4. ASSUME o = "done", NEW x \in Listed PROVE Withdrawn(x)' \/ Answered(payload \ {m}, x)
  <2>1. CASE Withdrawn(x) BY <2>1, <1>2
  <2>2. CASE Answered(payload, x)
    <3>1. PICK w \in payload : w.action = "remove" /\ w.revision > x.revision BY <2>2 DEF Answered
    <3>2. CASE w = m
      <4>1. board' = board \cup {Record("remove", m.revision, "others")} BY <1>1, <1>4, <3>1, <3>2
      <4> QED BY <4>1, <3>1, <3>2, RemovalWithdraws
    <3>3. CASE w # m BY <3>1, <3>3 DEF Answered
    <3> QED BY <3>2, <3>3
  <2> QED BY <2>1, <2>2 DEF Fit
<1> QED BY <1>2, <1>3, <1>4

\* What a client tells leaves the worker with withdrawals that do.
LEMMA Told ==
    ASSUME LInv, NEW then, NEW otherwise, Tell(then, otherwise)
    PROVE  worker' \in {"waiting", "sending"} => Fit(held')
<1>1. Fit(journal) /\ (worker \in {"waiting", "sending"} => Fit(held)) BY DEF LInv, Ready
<1>2. CASE worker' = "waiting" /\ held' = journal BY <1>1, <1>2
<1>3. CASE /\ held' \in {held} \cup (IF healthy /\ worker = "waiting" THEN {journal} ELSE {})
           /\ worker' = worker
  <2>1. held' = held \/ held' = journal BY <1>3
  <2> QED BY <1>1, <1>3, <2>1
<1> QED BY <1>2, <1>3 DEF Tell

LEMMA ReadyStep == ASSUME LInv, [ListingNext]_listingVars PROVE Ready'
<1>0. Typed /\ Order /\ Alone /\ Ready BY DEF LInv
<1>a. revision \in Nat /\ \A m \in Listed : m.revision \in Nat /\ m.revision < revision
  BY <1>0, Numbers, ListedRevision DEF Ready
<1>b. Fit(journal) /\ (worker \in {"waiting", "sending"} => Fit(held)) BY <1>0 DEF Ready
<1>c. revision + 1 \in Nat /\ revision + 1 >= revision /\ revision + 3 \in Nat /\ revision + 3 >= revision
      /\ revision >= revision
  BY <1>a
<1>1. CASE UNCHANGED listingVars
  BY <1>1, <1>a, <1>b, <1>c, SameBoard DEF listingVars, clientVars, workerVars, boardVars
<1>2. CASE Start
  <2>1. Fit(journal') BY <1>0, <1>2, NothingListed DEF Start, Order
  <2> QED BY <1>2, <1>b, <1>c, <2>1, SameBoard DEF Start, workerVars, boardVars
<1>3. CASE TellFirst BY <1>3, <1>a, <1>b, <1>c, Told, SameBoard DEF TellFirst, boardVars
<1>4. CASE Announce BY <1>4, <1>a, <1>b, <1>c, SameBoard DEF Announce, PostStatus, workerVars
<1>5. CASE StartFails BY <1>5, <1>a, <1>b, <1>c, SameBoard DEF StartFails, workerVars, boardVars
<1>6. CASE List
  <2>1. Fit({Removal(revision + 2), Closed(revision + 3)})
    <3>1. ASSUME NEW m \in Listed PROVE Answered({Removal(revision + 2), Closed(revision + 3)}, m)
      <4>1. revision + 2 > m.revision BY <1>a
      <4> QED BY <4>1, Payloads DEF Answered
    <3> QED BY <3>1 DEF Fit
  <2>2. Fit(journal') BY <1>6, <1>b, <2>1 DEF List, Save
  <2> QED BY <1>6, <1>b, <1>c, <2>2, SameBoard DEF List, workerVars, boardVars
<1>7. CASE TellListing BY <1>7, <1>a, <1>b, <1>c, Told, SameBoard DEF TellListing, boardVars
<1>8. CASE PostListing
  <2> DEFINE new == Record("register", revision - 2, "client")
  <2>1. /\ UNCHANGED <<life, revision, journal, worker, held>> /\ Up /\ step = "post listing"
        /\ mayExist' = TRUE /\ board' \in {board, board \cup {new}}
    BY <1>8 DEF PostListing, PostRecord, ListingNumber, workerVars
  <2>2. new.action = "register" /\ new.revision = revision - 2 BY Records
  <2>3. revision >= 4 /\ journal = {Removal(revision - 1), Closed(revision)}
        /\ (worker = "waiting" => held = journal) /\ worker # "sending"
    BY <1>0, <2>1 DEF Order, Alone, Over, Up
  <2>4. new.revision < revision BY <2>2, <2>3, <1>a
  <2>5. Answered(journal, new)
    <3>1. revision - 1 > new.revision BY <2>2, <2>3, <1>a
    <3> QED BY <2>3, <3>1, Payloads DEF Answered
  <2> HIDE DEF new
  <2>6. \A m \in Listed' : m \in Listed \/ m = new BY <2>1 DEF Listed
  <2>7. \A m : Withdrawn(m) => Withdrawn(m)' BY <2>1 DEF Withdrawn
  <2>8. ASSUME NEW m \in Listed' PROVE m.revision < revision' /\ (Withdrawn(m)' \/ Answered(journal, m))
    <3>1. CASE m \in Listed BY <3>1, <1>a, <1>b, <2>1, <2>7 DEF Fit
    <3>2. CASE m = new BY <3>2, <2>1, <2>4, <2>5
    <3> QED BY <2>6, <3>1, <3>2
  <2>9. Fit(journal)' BY <2>1, <2>8 DEF Fit, Answered
  <2>10. worker' \in {"waiting", "sending"} => Fit(held)' BY <2>1, <2>3, <2>9 DEF Fit, Answered
  <2> QED BY <2>1, <2>8, <2>9, <2>10 DEF Ready
<1>9. CASE Withdraw
  <2>1. /\ UNCHANGED <<journal, worker, held>> /\ revision' = revision + 1
        /\ \/ board' = board /\ mayExist' = mayExist
           \/ board' = board \cup {Record("remove", revision + 1, "client")}
    BY <1>9 DEF Withdraw, PostRecord, workerVars
  <2>2. CASE board' = board /\ mayExist' = mayExist
    BY <2>1, <2>2, <1>b, <1>c, SameBoard
  <2>3. CASE board' = board \cup {Record("remove", revision + 1, "client")}
    <3>1. Listed' = Listed BY <2>3, RemovalPosted
    <3>2. ASSUME NEW m \in Listed PROVE Withdrawn(m)' /\ m.revision < revision'
      <4>1. revision + 1 > m.revision BY <1>a
      <4> QED BY <2>1, <2>3, <4>1, <1>a, RemovalWithdraws
    <3> QED BY <3>1, <3>2 DEF Ready, Fit
  <2> QED BY <2>1, <2>2, <2>3
<1>10. CASE Rearm
  <2>1. Fit(journal') BY <1>0, <1>10, NothingListed DEF Rearm, Order
  <2> QED BY <1>10, <1>b, <1>c, <2>1, SameBoard DEF Rearm, workerVars, boardVars
<1>11. CASE TellAgain BY <1>11, <1>a, <1>b, <1>c, Told, SameBoard DEF TellAgain, boardVars
<1>12. CASE Stop BY <1>12, <1>a, <1>b, <1>c, SameBoard DEF Stop, workerVars, boardVars
<1>13. CASE Close BY <1>13, <1>a, <1>b, <1>c, SameBoard DEF Close, PostStatus, workerVars
<1>14. CASE Disarm
  <2>1. Fit(journal') BY <1>0, <1>14, NothingListed DEF Disarm, Order
  <2> QED BY <1>14, <1>a, <1>b, <1>c, <2>1, SameBoard DEF Disarm, workerVars, boardVars
<1>15. CASE TellLast BY <1>15, <1>a, <1>b, <1>c, Told, SameBoard DEF TellLast, boardVars
<1>16. CASE HangUp BY <1>16, <1>a, <1>b, <1>c, SameBoard DEF HangUp, workerVars, boardVars
<1>17. CASE Crash BY <1>17, <1>a, <1>b, <1>c, SameBoard DEF Crash, workerVars, boardVars
<1>18. CASE WorkerWakes BY <1>18, <1>a, <1>b, <1>c, SameBoard DEF WorkerWakes, clientVars, boardVars
<1>19. CASE WorkerDies BY <1>19, <1>a, <1>b, <1>c, SameBoard DEF WorkerDies, clientVars, boardVars
<1>20. ASSUME NEW m \in held, WorkerPosts(m) PROVE Ready'
  <2>1. worker = "sending" /\ UNCHANGED clientVars BY <1>20 DEF WorkerPosts
  <2>2. PICK o \in Outcomes :
          /\ PostWithdrawal(m, "others", o)
          /\ \/ UNCHANGED <<held, journal>>
             \/ /\ o = "done" /\ held' = held \ {m}
                /\ journal' = held' \/ journal' = journal
    BY <1>20 DEF WorkerPosts
  <2>3. Fit(held) /\ held \subseteq Withdrawals /\ journal \subseteq Withdrawals BY <1>b, <2>1, <1>0 DEF Typed
  <2>4. /\ Listed' = Listed /\ \A x : Withdrawn(x) => Withdrawn(x)'
        /\ \A x \in Listed' : Withdrawn(x)' \/ Answered(held, x)
        /\ o = "done" => \A x \in Listed' : Withdrawn(x)' \/ Answered(held \ {m}, x)
    BY <2>2, <2>3, <1>0, PostedFits
  <2>5. \A x \in Listed' : Withdrawn(x)' \/ Answered(journal, x) BY <2>4, <1>b DEF Fit
  <2>6. \A x \in Listed' : Withdrawn(x)' \/ Answered(held', x) BY <2>2, <2>4
  <2>7. \A x \in Listed' : Withdrawn(x)' \/ Answered(journal', x) BY <2>2, <2>5, <2>6
  <2>8. Fit(journal)' /\ Fit(held)' BY <2>6, <2>7 DEF Fit, Answered
  <2>9. revision' = revision /\ mayExist' = mayExist BY <2>1 DEF clientVars
  <2> QED BY <1>0, <2>4, <2>8, <2>9 DEF Ready
<1>21. ASSUME NEW m \in journal, NEW o \in Outcomes, Recover(m, o) PROVE Ready'
  <2>1. /\ PostWithdrawal(m, "others", o) /\ UNCHANGED clientVars /\ UNCHANGED workerVars
        /\ worker \in {"none", "over"}
        /\ journal' = journal \/ (o = "done" /\ journal' = journal \ {m})
    BY <1>21 DEF Recover, LeaseFree
  <2>2. journal \subseteq Withdrawals BY <1>0 DEF Typed
  <2>3. /\ Listed' = Listed /\ \A x : Withdrawn(x) => Withdrawn(x)'
        /\ \A x \in Listed' : Withdrawn(x)' \/ Answered(journal, x)
        /\ o = "done" => \A x \in Listed' : Withdrawn(x)' \/ Answered(journal \ {m}, x)
    BY <2>1, <2>2, <1>0, <1>b, PostedFits
  <2>4. \A x \in Listed' : Withdrawn(x)' \/ Answered(journal', x) BY <2>1, <2>3
  <2>5. Fit(journal)' BY <2>4 DEF Fit, Answered
  <2>6. revision' = revision /\ mayExist' = mayExist /\ worker' \notin {"waiting", "sending"}
    BY <2>1 DEF clientVars, workerVars
  <2> QED BY <1>0, <2>3, <2>5, <2>6 DEF Ready
<1>22. ASSUME NEW m \in board, Read(m) PROVE Ready'
  BY <1>22, <1>a, <1>b, <1>c, SameBoard DEF Read, clientVars, workerVars, boardVars
<1> QED
  BY <1>1, <1>2, <1>3, <1>4, <1>5, <1>6, <1>7, <1>8, <1>9, <1>10, <1>11, <1>12, <1>13, <1>14,
     <1>15, <1>16, <1>17, <1>18, <1>19, <1>20, <1>21, <1>22 DEF ListingNext, Client, Others

-----------------------------------------------------------------------------
(* The theorems. *)

LEMMA LInvStep == LInv /\ [ListingNext]_listingVars => LInv'
BY TypedStep, FlagsStep, ReserveStep, OrderStep, AloneStep, ReadyStep DEF LInv

\* Everything about one registration, over all its steps.
THEOREM ListingInvariant == ListingSpec => []LInv
BY InitKeeps, LInvStep, PTL DEF ListingSpec

\* Whatever is listed can be withdrawn at any moment from the journal or has been
\* withdrawn already, whichever posts, saves and messages to the worker fail and
\* wherever client and worker die.
THEOREM WithdrawalIsReady == ListingSpec => []WithdrawalReady
<1>1. LInv => WithdrawalReady
  BY DEF LInv, Ready, Fit, Listed, Withdrawn, Answered, WithdrawalReady
<1> QED BY <1>1, ListingInvariant, PTL

\* Worker and later programs never withdraw the listing of a client that runs.
THEOREM OwnListingIsKept == ListingSpec => []OwnListingStays
<1>1. LInv => OwnListingStays BY DEF LInv, Alone, Over, Up, OwnListingStays
<1> QED BY <1>1, ListingInvariant, PTL

\* The variables have their types; the revisions that the end of the registration
\* takes are always left.
THEOREM ListingTypes == ListingSpec => []ListingTypeOK
<1>1. LInv => ListingTypeOK BY TypeParts DEF LInv
<1> QED BY <1>1, ListingInvariant, PTL

-----------------------------------------------------------------------------
(* The whole client: pairing leaves the listing alone, and what the two do   *)
(* together is, as far as the listing sees it, a step of its own.            *)

LEMMA ServiceInitKeeps == ServiceInit => LInv
<1> SUFFICES ASSUME ServiceInit PROVE LInv
  OBVIOUS
<1>1. CASE ListingInit BY <1>1, InitKeeps
<1>2. CASE ~ListingInit
  <2>1. left \in Budgets /\ left.revisions # Fresh /\ Settled(left.revisions)
    BY <1>2 DEF ServiceInit, PairingInit
  <2>2. left.revisions \in 0 .. MaxRevision - 1 BY <2>1, ServiceAssumption
  <2> DEFINE n == left.revisions
  <2>3. n \in 0 .. MaxRevision - 1 /\ Settled(n) BY <2>1, <2>2
  <2> HIDE DEF n
  <2>4. revision \in 1 .. MaxRevision /\ revision \in Revisions
    <3>1. revision = MaxRevision - n BY <2>3 DEF Settled
    <3> QED BY <2>3, <3>1, ConstantsAssumption DEF Revisions
  <2>5. Record("remove", 0, "client") \in Directory
    BY Records, ConstantsAssumption DEF Revisions
  <2>6. Closed(revision) \in Withdrawals BY <2>4, Payloads
  <2>7. Typed BY <2>3, <2>4, <2>5, <2>6, ConstantsAssumption DEF Settled, Typed
  <2>8. Flags BY <2>3 DEF Settled, Flags
  <2>9. Reserve /\ Order BY <2>3 DEF Settled, Reserve, Order
  <2>10. Alone /\ Ready BY <2>3 DEF Settled, Alone, Ready, Listed, Fit
  <2> QED BY <2>7, <2>8, <2>9, <2>10 DEF LInv
<1> QED BY <1>1, <1>2

\* Every step of the client is one of the listing or leaves it alone.
LEMMA ServiceStepLists == [ServiceNext]_serviceVars => [ListingNext]_listingVars
<1> SUFFICES ASSUME [ServiceNext]_serviceVars PROVE [ListingNext]_listingVars
  OBVIOUS
<1>1. CASE UNCHANGED serviceVars BY <1>1 DEF serviceVars
<1>2. ASSUME NEW p \in Players, Pairs(p) PROVE UNCHANGED listingVars BY <1>2 DEF Pairs
<1>3. CASE Lists
  BY <1>3 DEF Lists, Pauses, Ends, GoesOn, ListingNext, Client
<1> QED BY <1>1, <1>2, <1>3 DEF ServiceNext

LEMMA ServiceInvariant == ServiceSpec => []LInv
<1>1. LInv /\ [ServiceNext]_serviceVars => LInv' BY ServiceStepLists, LInvStep
<1> QED BY ServiceInitKeeps, <1>1, PTL DEF ServiceSpec

\* In the whole client, whatever is listed can be withdrawn at any moment from
\* the journal, also while players pair and play.
THEOREM ServiceWithdrawalReady == ServiceSpec => []WithdrawalReady
<1>1. LInv => WithdrawalReady
  BY DEF LInv, Ready, Fit, Listed, Withdrawn, Answered, WithdrawalReady
<1> QED BY <1>1, ServiceInvariant, PTL

\* In the whole client, nobody else withdraws the listing of a program that runs.
THEOREM ServiceOwnListingStays == ServiceSpec => []OwnListingStays
<1>1. LInv => OwnListingStays BY DEF LInv, Alone, Over, Up, OwnListingStays
<1> QED BY <1>1, ServiceInvariant, PTL

-----------------------------------------------------------------------------
(* Pairing: whoever is in one match is in it together.  The numbers of the    *)
(* matches are given out once, a match is offered once, and no game or launch *)
(* outlives the client's match.                                               *)

Requests == [id : Nat, peer : Players]
Clients ==
    [life : {"registered", "closed", "crashed"}, open : BOOLEAN,
     state : {"waiting", "idle", "confirming", "connecting", "playing", "ending"},
     selected : Requests \cup {NoRequest}, match : Nat, host : BOOLEAN, launched : BOOLEAN,
     code : BOOLEAN, deadline : BOOLEAN, outgoing : Requests \cup {NoRequest},
     incoming : SUBSET Requests]
Mail ==
    [type : {"invite", "reply", "cancel", "offer", "confirm", "connect", "end"},
     from : Players, to : Players, request : Nat, match : Nat]
Games == [phase : {"none", "pending", "dropped", "running", "ready", "playing", "cancelled", "over"},
          match : Nat]
Events == [type : {"launch", "abort"}, match : Nat, host : BOOLEAN]
Commands == [type : {"host_ready", "playing", "finished"}, match : Nat]

PairTypes ==
    /\ tokens \in Nat
    /\ client \in [Players -> Clients]
    /\ game \in [Players -> Games]
    /\ events \in [Players -> Seq(Events)]
    /\ commands \in [Players -> Seq(Commands)]

\* Nobody is asked, or asks, by himself; and only so many ask.
Strangers(p, x) ==
    /\ x.selected.peer # p /\ x.outgoing.peer # p /\ \A r \in x.incoming : r.peer # p
    /\ IsFiniteSet(x.incoming)

\* One request for each other player, none of one who is in a match, and a match
\* over one of them.
OneEach(x) ==
    /\ \A r, q \in x.incoming : r.peer = q.peer => r = q
    /\ \A r \in x.incoming : r.peer # x.outgoing.peer
    /\ x.match # 0 => x.incoming = {} /\ x.outgoing = NoRequest
    /\ x.match # 0 <=> x.selected # NoRequest

\* A game runs or waits for training to be closed.
Runs(g) == g.phase \notin {"none", "dropped"}
NoLaunch(ev) == \A i \in DOMAIN ev : ev[i].type # "launch"
OneLaunch(ev, m) ==
    \A i, j \in DOMAIN ev : ev[i].type = "launch" /\ ev[j].type = "launch" => i = j /\ ev[i].match = m
NoFinish(cm, m) == \A i \in DOMAIN cm : cm[i].type = "finished" => cm[i].match # m

\* A match has one launch: it is still to be taken, or a game runs, or its end has
\* been reported; and it is reported no sooner.  Here x, g, ev and cm are the
\* client, the game and the queues of one player.
Play(x, g, ev, cm) ==
    /\ x.launched => x.match # 0 /\ OneLaunch(ev, x.match)
    /\ x.state = "confirming" => ~x.launched
    /\ Runs(g) => x.launched /\ g.match = x.match /\ NoLaunch(ev)
    /\ ~x.launched => NoLaunch(ev)
    /\ x.match # 0 => NoFinish(cm, x.match) \/ (x.launched /\ ~Runs(g) /\ NoLaunch(ev))

\* No number is used that has not been given out.
Below(n, x, cm) == x.match <= n /\ \A i \in DOMAIN cm : cm[i].match <= n

IsOffer(m) == m.type = "offer"

\* There is one offer of a match, if any.
BoxInv(box, n) ==
    /\ box \in [Players -> Seq(Mail)]
    /\ \A p \in Players : \A i \in DOMAIN box[p] : box[p][i].to = p /\ box[p][i].from # p
    /\ \A p, q \in Players : \A i \in DOMAIN box[p], j \in DOMAIN box[q] :
          IsOffer(box[p][i]) /\ IsOffer(box[q][j]) /\ box[p][i].match = box[q][j].match => p = q /\ i = j
    /\ \A p \in Players : \A i \in DOMAIN box[p] : IsOffer(box[p][i]) => box[p][i].match \in 1 .. n

Offers(box) == UNION {{m \in {box[p][i] : i \in DOMAIN box[p]} : IsOffer(m)} : p \in Players}

\* As long as a match is offered its host alone may be in it, with who is asked.
OfferTrue(m) ==
    /\ \A p \in Players : client[p].match = m.match =>
          p = m.from /\ client[p].host /\ client[p].selected = [id |-> m.request, peer |-> m.to]
    /\ \A i \in DOMAIN commands[m.to] : commands[m.to][i].match # m.match

\* Two players come into one match by its offer alone, which only one can take.
PairInv ==
    /\ PairTypes
    /\ \A p \in Players : /\ Strangers(p, client[p]) /\ OneEach(client[p])
                          /\ Play(client[p], game[p], events[p], commands[p])
                          /\ Below(tokens, client[p], commands[p])
    /\ BoxInv(inbox, tokens)
    /\ \A m \in Offers(inbox) : OfferTrue(m)
    /\ PairedRoles

-----------------------------------------------------------------------------
(* Sequences and boxes. *)

LEMMA TailFacts ==
    ASSUME NEW S, NEW s \in Seq(S), s # <<>>
    PROVE  /\ Tail(s) \in Seq(S) /\ Head(s) \in S /\ Head(s) = s[1] /\ 1 \in DOMAIN s
           /\ \A i \in DOMAIN Tail(s) : i + 1 \in DOMAIN s /\ Tail(s)[i] = s[i + 1] /\ i \in Nat \ {0}
OBVIOUS

LEMMA ConcatFacts ==
    ASSUME NEW S, NEW s \in Seq(S), NEW t \in Seq(S)
    PROVE  /\ s \o t \in Seq(S)
           /\ \A i \in DOMAIN s : i \in DOMAIN (s \o t) /\ (s \o t)[i] = s[i]
           /\ \A i \in DOMAIN (s \o t) \ DOMAIN s :
                 i - Len(s) \in DOMAIN t /\ (s \o t)[i] = t[i - Len(s)] /\ i \in Int /\ Len(s) \in Int
OBVIOUS

LEMMA AppendFacts ==
    ASSUME NEW S, NEW s \in Seq(S), NEW e \in S
    PROVE  /\ Append(s, e) \in Seq(S)
           /\ \A i \in DOMAIN Append(s, e) :
                 (i \in DOMAIN s /\ Append(s, e)[i] = s[i]) \/ (i = Len(s) + 1 /\ Append(s, e)[i] = e)
OBVIOUS

LEMMA ListedFacts ==
    ASSUME NEW S, NEW T \in SUBSET S, IsFiniteSet(T)
    PROVE  /\ SetToSeq(T) \in Seq(S)
           /\ \A i \in DOMAIN SetToSeq(T) : SetToSeq(T)[i] \in T
           /\ \A i, j \in DOMAIN SetToSeq(T) : SetToSeq(T)[i] = SetToSeq(T)[j] => i = j
<1> DEFINE n == Cardinality(T)
<1>1. n \in Nat /\ ExistsBijection(1 .. n, T) BY FS_CardinalityType
<1>2. PICK f : f \in Bijection(1 .. n, T) BY <1>1 DEF ExistsBijection
<1>3. f \in [1 .. n -> T] /\ IsInjective(f)
  BY <1>2 DEF Bijection, Injection, IsInjective
<1>4. SetToSeq(T) \in [1 .. n -> T] /\ IsInjective(SetToSeq(T))
  BY <1>3 DEF SetToSeq
<1> HIDE DEF n
<1>5. DOMAIN SetToSeq(T) = 1 .. n BY <1>4
<1>6. SetToSeq(T) \in Seq(S)
  BY <1>1, <1>4
<1> QED BY <1>4, <1>5, <1>6 DEF IsInjective

LEMMA OfferIs ==
    ASSUME NEW box, NEW m
    PROVE  m \in Offers(box) <=>
               \E p \in Players : \E i \in DOMAIN box[p] : m = box[p][i] /\ IsOffer(m)
BY DEF Offers

LEMMA SentFacts ==
    ASSUME NEW box \in [Players -> Seq(Mail)], NEW ms \in SUBSET Mail, IsFiniteSet(ms)
    PROVE  /\ Sent(box, ms) \in [Players -> Seq(Mail)]
           /\ \A q \in Players : \A i \in DOMAIN Sent(box, ms)[q] :
                 \/ i \in DOMAIN box[q] /\ Sent(box, ms)[q][i] = box[q][i]
                 \/ i \notin DOMAIN box[q] /\ Sent(box, ms)[q][i] \in ms /\ Sent(box, ms)[q][i].to = q
           /\ \A q \in Players : \A i, j \in DOMAIN Sent(box, ms)[q] \ DOMAIN box[q] :
                 Sent(box, ms)[q][i] = Sent(box, ms)[q][j] => i = j
<1> SUFFICES ASSUME NEW q \in Players
             PROVE  /\ Sent(box, ms)[q] \in Seq(Mail)
                    /\ \A i \in DOMAIN Sent(box, ms)[q] :
                          \/ i \in DOMAIN box[q] /\ Sent(box, ms)[q][i] = box[q][i]
                          \/ /\ i \notin DOMAIN box[q]
                             /\ Sent(box, ms)[q][i] \in ms /\ Sent(box, ms)[q][i].to = q
                    /\ \A i, j \in DOMAIN Sent(box, ms)[q] \ DOMAIN box[q] :
                          Sent(box, ms)[q][i] = Sent(box, ms)[q][j] => i = j
  BY DEF Sent
<1> DEFINE own == {m \in ms : m.to = q}
           t == SetToSeq(own)
           s == box[q]
<1>1. IsFiniteSet(own) BY FS_Subset
<1>2. /\ t \in Seq(Mail) /\ \A i \in DOMAIN t : t[i] \in own
      /\ \A i, j \in DOMAIN t : t[i] = t[j] => i = j
  BY <1>1, ListedFacts
<1>3. s \in Seq(Mail) OBVIOUS
<1>4. Sent(box, ms)[q] = IF Lives(q) THEN s \o t ELSE <<>> BY DEF Sent
<1>5. \A m \in own : m \in ms /\ m.to = q OBVIOUS
<1> HIDE DEF own, t, s
<1>6. CASE Lives(q)
  <2>1. Sent(box, ms)[q] = s \o t BY <1>4, <1>6
  <2>2. /\ s \o t \in Seq(Mail)
        /\ \A i \in DOMAIN s : i \in DOMAIN (s \o t) /\ (s \o t)[i] = s[i]
        /\ \A i \in DOMAIN (s \o t) \ DOMAIN s :
              i - Len(s) \in DOMAIN t /\ (s \o t)[i] = t[i - Len(s)] /\ i \in Int /\ Len(s) \in Int
    BY <1>2, <1>3, ConcatFacts
  <2>3. ASSUME NEW i \in DOMAIN (s \o t)
        PROVE  \/ i \in DOMAIN s /\ (s \o t)[i] = s[i]
               \/ i \notin DOMAIN s /\ (s \o t)[i] \in ms /\ (s \o t)[i].to = q
    BY ONLY <2>2, <2>3, <1>2, <1>5
  <2>4. ASSUME NEW i \in DOMAIN (s \o t) \ DOMAIN s, NEW j \in DOMAIN (s \o t) \ DOMAIN s,
               (s \o t)[i] = (s \o t)[j]
        PROVE  i = j
    <3>1. i - Len(s) = j - Len(s) BY ONLY <2>2, <2>4, <1>2
    <3>2. i \in Int /\ j \in Int /\ Len(s) \in Int BY ONLY <2>2, <2>4
    <3> QED BY <3>1, <3>2
  <2> QED BY <2>1, <2>2, <2>3, <2>4 DEF s
<1>7. CASE ~Lives(q)
  BY <1>4, <1>7
<1> QED BY <1>6, <1>7

LEMMA BoxParts ==
    ASSUME NEW box, NEW n, BoxInv(box, n)
    PROVE  /\ box \in [Players -> Seq(Mail)]
           /\ \A p \in Players : \A i \in DOMAIN box[p] : box[p][i] \in Mail
BY DEF BoxInv

\* What is sent and is no offer leaves the offers as they are.
LEMMA SendKeeps ==
    ASSUME NEW n \in Nat, NEW box, BoxInv(box, n), NEW ms \in SUBSET Mail, IsFiniteSet(ms),
           \A m \in ms : ~IsOffer(m) /\ m.from # m.to
    PROVE  BoxInv(Sent(box, ms), n) /\ Offers(Sent(box, ms)) \subseteq Offers(box)
<1> SUFFICES ASSUME NEW new, new = Sent(box, ms)
             PROVE  BoxInv(new, n) /\ Offers(new) \subseteq Offers(box)
  OBVIOUS
<1>1. /\ new \in [Players -> Seq(Mail)]
      /\ \A q \in Players : \A i \in DOMAIN new[q] :
            \/ i \in DOMAIN box[q] /\ new[q][i] = box[q][i]
            \/ i \notin DOMAIN box[q] /\ new[q][i] \in ms /\ new[q][i].to = q
  BY BoxParts, SentFacts
<1>2. \A q \in Players : \A i \in DOMAIN new[q] :
         IsOffer(new[q][i]) => i \in DOMAIN box[q] /\ new[q][i] = box[q][i]
  BY <1>1
<1>3. BoxInv(new, n)
  <2>1. \A p \in Players : \A i \in DOMAIN new[p] : new[p][i].to = p /\ new[p][i].from # p
    BY <1>1 DEF BoxInv
  <2>2. \A p, q \in Players : \A i \in DOMAIN new[p], j \in DOMAIN new[q] :
          IsOffer(new[p][i]) /\ IsOffer(new[q][j]) /\ new[p][i].match = new[q][j].match => p = q /\ i = j
    BY <1>2 DEF BoxInv
  <2>3. \A p \in Players : \A i \in DOMAIN new[p] : IsOffer(new[p][i]) => new[p][i].match \in 1 .. n
    BY <1>2 DEF BoxInv
  <2> QED BY <1>1, <2>1, <2>2, <2>3 DEF BoxInv
<1>4. ASSUME NEW m \in Offers(new) PROVE m \in Offers(box)
  BY <1>2, <1>4, OfferIs
<1> QED BY <1>3, <1>4

LEMMA NumbersGrow ==
    ASSUME NEW n \in Nat, NEW box, BoxInv(box, n)
    PROVE  BoxInv(box, n + 1)
BY DEF BoxInv

\* An offer of a new match is the only one of that match.
LEMMA OfferAdds ==
    ASSUME NEW n \in Nat, NEW box, BoxInv(box, n), NEW o \in Mail, IsOffer(o),
           o.match = n + 1, o.from # o.to,
           NEW ms \in SUBSET Mail, IsFiniteSet(ms), \A m \in ms : m = o
    PROVE  /\ BoxInv(Sent(box, ms), n + 1)
           /\ \A m \in Offers(Sent(box, ms)) : m \in Offers(box) \/ m = o
<1> SUFFICES ASSUME NEW new, new = Sent(box, ms)
             PROVE  BoxInv(new, n + 1) /\ \A m \in Offers(new) : m \in Offers(box) \/ m = o
  OBVIOUS
<1>0. IsFiniteSet(ms) /\ ms \in SUBSET Mail OBVIOUS
<1>01. box \in [Players -> Seq(Mail)] BY BoxParts
<1>02. /\ new \in [Players -> Seq(Mail)]
       /\ \A q \in Players : \A i \in DOMAIN new[q] :
             \/ i \in DOMAIN box[q] /\ new[q][i] = box[q][i]
             \/ i \notin DOMAIN box[q] /\ new[q][i] \in ms /\ new[q][i].to = q
       /\ \A q \in Players : \A i, j \in DOMAIN new[q] \ DOMAIN box[q] :
             new[q][i] = new[q][j] => i = j
  <2>1. new = Sent(box, ms) OBVIOUS
  <2>2. /\ new \in [Players -> Seq(Mail)]
        /\ \A q \in Players : \A i \in DOMAIN new[q] :
              \/ i \in DOMAIN box[q] /\ new[q][i] = box[q][i]
              \/ i \notin DOMAIN box[q] /\ new[q][i] \in ms /\ new[q][i].to = q
    BY ONLY <1>0, <1>01, <2>1, SentFacts
  <2>3. ASSUME NEW q \in Players, NEW i \in DOMAIN new[q] \ DOMAIN box[q],
               NEW j \in DOMAIN new[q] \ DOMAIN box[q], new[q][i] = new[q][j]
        PROVE  i = j
    BY ONLY <1>0, <1>01, <2>1, <2>3, SentFacts
  <2> QED BY <2>2, <2>3
<1>1. /\ new \in [Players -> Seq(Mail)]
      /\ \A q \in Players : \A i \in DOMAIN new[q] :
            \/ i \in DOMAIN box[q] /\ new[q][i] = box[q][i]
            \/ i \notin DOMAIN box[q] /\ new[q][i] = o /\ q = o.to
      /\ \A q \in Players : \A i, j \in DOMAIN new[q] \ DOMAIN box[q] : new[q][i] = new[q][j] => i = j
  <2>1. \A m \in ms : m = o OBVIOUS
  <2>2. ASSUME NEW q \in Players, NEW i \in DOMAIN new[q], i \notin DOMAIN box[q]
        PROVE  new[q][i] = o /\ q = o.to
    BY ONLY <1>02, <2>1, <2>2
  <2> QED BY ONLY <1>02, <2>2
<1>2. \A q \in Players : \A i \in DOMAIN box[q] :
         IsOffer(box[q][i]) => box[q][i].match \in 1 .. n /\ box[q][i].match # n + 1
  BY DEF BoxInv
<1>3. BoxInv(new, n + 1)
  <2>1. \A p \in Players : \A i \in DOMAIN new[p] : new[p][i].to = p /\ new[p][i].from # p
    BY <1>1 DEF BoxInv
  <2>2. ASSUME NEW p \in Players, NEW q \in Players, NEW i \in DOMAIN new[p], NEW j \in DOMAIN new[q],
               IsOffer(new[p][i]), IsOffer(new[q][j]), new[p][i].match = new[q][j].match
        PROVE  p = q /\ i = j
    <3>1. CASE i \in DOMAIN box[p] /\ j \in DOMAIN box[q]
      <4>1. new[p][i] = box[p][i] /\ new[q][j] = box[q][j] BY <1>1, <3>1
      <4> QED BY <2>2, <3>1, <4>1 DEF BoxInv
    <3>2. CASE i \notin DOMAIN box[p] /\ j \notin DOMAIN box[q]
      <4>1. new[p][i] = o /\ new[q][j] = o /\ p = o.to /\ q = o.to BY <1>1, <3>2
      <4> QED BY <1>1, <3>2, <4>1
    <3>3. CASE i \in DOMAIN box[p] /\ j \notin DOMAIN box[q]
      <4>1. new[p][i] = box[p][i] /\ new[q][j] = o BY <1>1, <3>3
      <4> QED BY <1>2, <2>2, <3>3, <4>1
    <3>4. CASE i \notin DOMAIN box[p] /\ j \in DOMAIN box[q]
      <4>1. new[p][i] = o /\ new[q][j] = box[q][j] BY <1>1, <3>4
      <4> QED BY <1>2, <2>2, <3>4, <4>1
    <3> QED BY <3>1, <3>2, <3>3, <3>4
  <2>3. \A p \in Players : \A i \in DOMAIN new[p] : IsOffer(new[p][i]) => new[p][i].match \in 1 .. n + 1
    BY <1>1, <1>2
  <2> QED BY <1>1, <2>1, <2>2, <2>3 DEF BoxInv
<1>4. ASSUME NEW m \in Offers(new) PROVE m \in Offers(box) \/ m = o
  BY <1>1, <1>4, OfferIs
<1> QED BY <1>3, <1>4

\* What is read or lost is gone; of an offer there is no second.
LEMMA TakenFacts ==
    ASSUME NEW n \in Nat, BoxInv(inbox, n), NEW p \in Players, inbox[p] # <<>>
    PROVE  /\ BoxInv(Taken(p), n) /\ Offers(Taken(p)) \subseteq Offers(inbox)
           /\ Incoming(p) \in Mail /\ Incoming(p).to = p /\ Incoming(p).from # p
           /\ IsOffer(Incoming(p)) =>
                 /\ Incoming(p) \in Offers(inbox) /\ Incoming(p).match \in 1 .. n
                 /\ \A m \in Offers(Taken(p)) : m.match # Incoming(p).match
<1> SUFFICES ASSUME NEW new, new = Taken(p), NEW h, h = Incoming(p)
             PROVE  /\ BoxInv(new, n) /\ Offers(new) \subseteq Offers(inbox)
                    /\ h \in Mail /\ h.to = p /\ h.from # p
                    /\ IsOffer(h) =>
                          /\ h \in Offers(inbox) /\ h.match \in 1 .. n
                          /\ \A m \in Offers(new) : m.match # h.match
  OBVIOUS
<1>1. inbox \in [Players -> Seq(Mail)] BY BoxParts
<1>2. /\ Tail(inbox[p]) \in Seq(Mail) /\ h \in Mail /\ h = inbox[p][1] /\ 1 \in DOMAIN inbox[p]
      /\ \A i \in DOMAIN Tail(inbox[p]) :
            /\ i + 1 \in DOMAIN inbox[p] /\ Tail(inbox[p])[i] = inbox[p][i + 1]
            /\ i \in Nat \ {0}
  BY <1>1, TailFacts DEF Incoming
<1>3. new \in [Players -> Seq(Mail)] /\ new[p] = Tail(inbox[p])
      /\ \A q \in Players \ {p} : new[q] = inbox[q]
  BY <1>1, <1>2 DEF Taken
<1> DEFINE At(q, i) == IF q = p THEN i + 1 ELSE i
<1>4. ASSUME NEW q \in Players, NEW i \in DOMAIN new[q]
      PROVE  /\ At(q, i) \in DOMAIN inbox[q] /\ new[q][i] = inbox[q][At(q, i)]
             /\ q = p => At(q, i) # 1
             /\ \A j \in DOMAIN new[q] : At(q, i) = At(q, j) => i = j
  <2>1. CASE q = p BY <1>2, <1>3, <1>4, <2>1
  <2>2. CASE q # p BY <1>2, <1>3, <1>4, <2>2
  <2> QED BY <2>1, <2>2
<1> HIDE DEF At
<1>5. BoxInv(new, n)
  <2>1. \A q \in Players : \A i \in DOMAIN new[q] : new[q][i].to = q /\ new[q][i].from # q
    BY <1>4 DEF BoxInv
  <2>2. ASSUME NEW q \in Players, NEW r \in Players, NEW i \in DOMAIN new[q], NEW j \in DOMAIN new[r],
               IsOffer(new[q][i]), IsOffer(new[r][j]), new[q][i].match = new[r][j].match
        PROVE  q = r /\ i = j
    <3>1. q = r /\ At(q, i) = At(r, j) BY <1>4, <2>2 DEF BoxInv
    <3> QED BY <1>4, <3>1
  <2>3. \A q \in Players : \A i \in DOMAIN new[q] : IsOffer(new[q][i]) => new[q][i].match \in 1 .. n
    BY <1>4 DEF BoxInv
  <2> QED BY <1>3, <2>1, <2>2, <2>3 DEF BoxInv
<1>6. \A m \in Offers(new) : m \in Offers(inbox)
  BY <1>4, OfferIs
<1>7. h \in Mail /\ h.to = p /\ h.from # p BY <1>2 DEF BoxInv
<1>8. ASSUME IsOffer(h)
      PROVE  h \in Offers(inbox) /\ h.match \in 1 .. n /\ \A m \in Offers(new) : m.match # h.match
  <2>1. h \in Offers(inbox) BY <1>2, <1>8, OfferIs
  <2>2. h.match \in 1 .. n BY <1>2, <1>8 DEF BoxInv
  <2>3. ASSUME NEW m \in Offers(new) PROVE m.match # h.match
    <3>1. PICK q \in Players : \E i \in DOMAIN new[q] : m = new[q][i] /\ IsOffer(m)
      BY <2>3, OfferIs
    <3>2. PICK i \in DOMAIN new[q] : m = new[q][i] /\ IsOffer(m) BY <3>1
    <3>3. At(q, i) \in DOMAIN inbox[q] /\ m = inbox[q][At(q, i)] /\ (q = p => At(q, i) # 1)
      BY <1>4, <3>2
    <3> QED BY <1>2, <1>8, <3>2, <3>3 DEF BoxInv
  <2> QED BY <2>1, <2>2, <2>3
<1> QED BY <1>5, <1>6, <1>7, <1>8

-----------------------------------------------------------------------------
(* A step changes one player. *)

\* What is left of the invariant when the rest of the system has not changed.
Rest(p) ==
    /\ \A q \in Players \ {p} : client'[q] = client[q]
    /\ \A q \in Players \ {p} : game'[q] = game[q]
    /\ \A q \in Players \ {p} : events'[q] = events[q]
    /\ \A q \in Players \ {p} : commands'[q] = commands[q]

\* The player p, after the step.
Own(p, y) ==
    /\ y = client'[p] /\ y \in Clients
    /\ Strangers(p, y) /\ OneEach(y)
    /\ Play(y, game'[p], events'[p], commands'[p])
    /\ Below(tokens', y, commands'[p])

LEMMA ElementFacts ==
    ASSUME NEW S, NEW s \in Seq(S), NEW i \in DOMAIN s
    PROVE  s[i] \in S
OBVIOUS

LEMMA CommandNumbers ==
    ASSUME PairTypes, NEW q \in Players, NEW i \in DOMAIN commands[q]
    PROVE  commands[q][i] \in Commands /\ commands[q][i].match \in Nat
<1>1. commands[q] \in Seq(Commands) BY DEF PairTypes
<1>2. commands[q][i] \in Commands BY <1>1, ElementFacts
<1> QED BY <1>2 DEF Commands

LEMMA Assemble ==
    ASSUME PairInv, NEW p \in Players, NEW y, Rest(p), Own(p, y), PairTypes',
           tokens <= tokens', BoxInv(inbox', tokens'),
           \A m \in Offers(inbox') : OfferTrue(m)', PairedRoles'
    PROVE  PairInv'
<1>1. ASSUME NEW q \in Players
      PROVE  /\ Strangers(q, client'[q]) /\ OneEach(client'[q])
             /\ Play(client'[q], game'[q], events'[q], commands'[q])
             /\ Below(tokens', client'[q], commands'[q])
  <2>1. CASE q = p BY <2>1 DEF Own
  <2>2. CASE q # p
    <3>1. client'[q] = client[q] /\ game'[q] = game[q] /\ events'[q] = events[q]
          /\ commands'[q] = commands[q]
      BY <2>2 DEF Rest
    <3>2. /\ Strangers(q, client[q]) /\ OneEach(client[q])
          /\ Play(client[q], game[q], events[q], commands[q])
          /\ Below(tokens, client[q], commands[q])
      BY DEF PairInv
    <3>3. Below(tokens', client[q], commands[q])
      <4>1. client[q].match \in Nat /\ tokens \in Nat /\ tokens' \in Nat
        BY DEF PairInv, PairTypes, Clients
      <4>2. \A i \in DOMAIN commands[q] : commands[q][i].match \in Nat
        BY CommandNumbers DEF PairInv
      <4> QED BY <3>2, <4>1, <4>2 DEF Below
    <3> QED BY <3>1, <3>2, <3>3
  <2> QED BY <2>1, <2>2
<1> QED BY <1>1 DEF PairInv

\* Nobody enters a match.
LEMMA OldMatch ==
    ASSUME PairInv, NEW p \in Players, NEW y, Rest(p), Own(p, y), PairTypes',
           tokens <= tokens', BoxInv(inbox', tokens'), Offers(inbox') \subseteq Offers(inbox),
           y.match # 0 => /\ y.match = client[p].match /\ y.selected = client[p].selected
                          /\ y.host = client[p].host,
           \A i \in DOMAIN commands'[p] :
              \/ \E j \in DOMAIN commands[p] : commands'[p][i].match = commands[p][j].match
              \/ commands'[p][i].match = client[p].match
    PROVE  PairInv'
<1>1. client'[p] = y BY DEF Own
<1>2. ASSUME NEW m \in Offers(inbox') PROVE OfferTrue(m)'
  <2>1. OfferTrue(m) BY DEF PairInv
  <2>2. m.match # 0 /\ m.from # m.to /\ m.to \in Players
    <3>1. PICK q \in Players : \E i \in DOMAIN inbox'[q] : m = inbox'[q][i] /\ IsOffer(m)
      BY OfferIs
    <3>2. PICK i \in DOMAIN inbox'[q] : m = inbox'[q][i] /\ IsOffer(m) BY <3>1
    <3>3. m.match \in 1 .. tokens' /\ m.to = q /\ m.from # q BY <3>2 DEF BoxInv
    <3> QED BY <3>3
  <2>3. ASSUME NEW q \in Players, client'[q].match = m.match
        PROVE  /\ q = m.from /\ client'[q].host
               /\ client'[q].selected = [id |-> m.request, peer |-> m.to]
    <3>1. client[q].match = m.match /\ client'[q].host = client[q].host
          /\ client'[q].selected = client[q].selected
      <4>1. CASE q = p BY <1>1, <2>2, <2>3, <4>1
      <4>2. CASE q # p BY <2>3, <4>2 DEF Rest
      <4> QED BY <4>1, <4>2
    <3> QED BY <2>1, <3>1 DEF OfferTrue
  <2>4. ASSUME NEW i \in DOMAIN commands'[m.to] PROVE commands'[m.to][i].match # m.match
    <3>1. CASE m.to = p
      <4>1. CASE \E j \in DOMAIN commands[p] : commands'[p][i].match = commands[p][j].match
        BY <2>1, <3>1, <4>1 DEF OfferTrue
      <4>2. CASE commands'[p][i].match = client[p].match
        BY <2>1, <2>2, <3>1, <4>2 DEF OfferTrue
      <4> QED BY <2>4, <3>1, <4>1, <4>2
    <3>2. CASE m.to # p
      <4>1. commands'[m.to] = commands[m.to] BY <2>2, <3>2 DEF Rest
      <4> QED BY <2>1, <2>4, <4>1 DEF OfferTrue
    <3> QED BY <3>1, <3>2
  <2> QED BY <2>3, <2>4 DEF OfferTrue
<1>3. PairedRoles'
  <2> SUFFICES ASSUME NEW q \in Players, NEW r \in Players, q # r, client'[q].match # 0,
                      client'[q].match = client'[r].match
               PROVE  /\ client'[q].selected = [id |-> client'[r].selected.id, peer |-> r]
                      /\ client'[r].selected = [id |-> client'[q].selected.id, peer |-> q]
                      /\ client'[q].host # client'[r].host
    BY DEF PairedRoles
  <2>1. ASSUME NEW t \in {q, r}
        PROVE  client'[t].match = client[t].match /\ client'[t].selected = client[t].selected
               /\ client'[t].host = client[t].host
    <3>1. CASE t = p BY <1>1, <3>1
    <3>2. CASE t # p BY <3>2 DEF Rest
    <3> QED BY <3>1, <3>2
  <2>2. PairedRoles BY DEF PairInv
  <2> QED BY <2>1, <2>2 DEF PairedRoles
<1> QED BY <1>2, <1>3, Assemble

\* A match begins, or an attempt at one fails: it has a number of its own, and
\* there is one offer of it.
LEMMA NewMatch ==
    ASSUME PairInv, NEW p \in Players, NEW y, Rest(p), Own(p, y), PairTypes',
           tokens' = tokens + 1, BoxInv(inbox', tokens'),
           NEW o, o.from = p, o.match = tokens + 1, o.to \in Players,
           \A m \in Offers(inbox') : m \in Offers(inbox) \/ m = o,
           commands' = commands,
           \/ y.match = 0
           \/ y.match = tokens + 1 /\ y.host /\ y.selected = [id |-> o.request, peer |-> o.to]
    PROVE  PairInv'
<1>1. client'[p] = y BY DEF Own
<1>2. tokens \in Nat /\ \A q \in Players : client[q].match \in Nat /\ client[q].match <= tokens
  BY DEF PairInv, PairTypes, Clients, Below
<1>3. \A q \in Players : \A i \in DOMAIN commands[q] :
         commands[q][i].match \in Nat /\ commands[q][i].match <= tokens
  BY CommandNumbers DEF PairInv, Below
<1>4. ASSUME NEW m \in Offers(inbox') PROVE OfferTrue(m)'
  <2>1. CASE m = o
    <3>1. ASSUME NEW q \in Players, client'[q].match = m.match
          PROVE  /\ q = m.from /\ client'[q].host
                 /\ client'[q].selected = [id |-> m.request, peer |-> m.to]
      <4>1. CASE q = p BY <1>1, <1>2, <2>1, <3>1, <4>1
      <4>2. CASE q # p
        <5>1. client'[q] = client[q] BY <4>2 DEF Rest
        <5> QED BY <1>2, <2>1, <3>1, <5>1
      <4> QED BY <4>1, <4>2
    <3>2. ASSUME NEW i \in DOMAIN commands'[m.to] PROVE commands'[m.to][i].match # m.match
      BY <1>2, <1>3, <2>1, <3>2
    <3> QED BY <3>1, <3>2 DEF OfferTrue
  <2>2. CASE m \in Offers(inbox)
    <3>1. OfferTrue(m) BY <2>2 DEF PairInv
    <3>2. m.match \in 1 .. tokens
      <4>1. PICK q \in Players : \E i \in DOMAIN inbox[q] : m = inbox[q][i] /\ IsOffer(m)
        BY <2>2, OfferIs
      <4> QED BY <4>1 DEF PairInv, BoxInv
    <3>3. ASSUME NEW q \in Players, client'[q].match = m.match
          PROVE  /\ q = m.from /\ client'[q].host
                 /\ client'[q].selected = [id |-> m.request, peer |-> m.to]
      <4>1. q # p BY <1>1, <1>2, <3>2, <3>3
      <4>2. client'[q] = client[q] BY <4>1 DEF Rest
      <4> QED BY <3>1, <3>3, <4>2 DEF OfferTrue
    <3> QED BY <3>1, <3>3 DEF OfferTrue
  <2> QED BY <1>4, <2>1, <2>2
<1>5. PairedRoles'
  <2> SUFFICES ASSUME NEW q \in Players, NEW r \in Players, q # r, client'[q].match # 0,
                      client'[q].match = client'[r].match
               PROVE  /\ client'[q].selected = [id |-> client'[r].selected.id, peer |-> r]
                      /\ client'[r].selected = [id |-> client'[q].selected.id, peer |-> q]
                      /\ client'[q].host # client'[r].host
    BY DEF PairedRoles
  <2>1. \A t \in Players : t # p => client'[t] = client[t] BY DEF Rest
  <2>2. q # p /\ r # p BY <1>1, <1>2, <2>1
  <2>3. PairedRoles BY DEF PairInv
  <2> QED BY <2>1, <2>2, <2>3 DEF PairedRoles
<1> QED BY <1>2, <1>4, <1>5, Assemble

\* A guest follows the offer of a match, which is gone then.
LEMMA JoinsMatch ==
    ASSUME PairInv, NEW p \in Players, NEW y, Rest(p), Own(p, y), PairTypes',
           tokens' = tokens, BoxInv(inbox', tokens'), commands' = commands,
           NEW o \in Offers(inbox), o.to = p,
           \A m \in Offers(inbox') : m \in Offers(inbox) /\ m.match # o.match,
           y.match = o.match, ~y.host, y.selected = [id |-> o.request, peer |-> o.from]
    PROVE  PairInv'
<1>1. client'[p] = y BY DEF Own
<1>2. tokens \in Nat BY DEF PairInv, PairTypes
<1>3. ASSUME NEW m \in Offers(inbox') PROVE OfferTrue(m)'
  <2>1. OfferTrue(m) BY DEF PairInv
  <2>2. ASSUME NEW q \in Players, client'[q].match = m.match
        PROVE  /\ q = m.from /\ client'[q].host
               /\ client'[q].selected = [id |-> m.request, peer |-> m.to]
    <3>1. q # p BY <1>1, <2>2
    <3>2. client'[q] = client[q] BY <3>1 DEF Rest
    <3> QED BY <2>1, <2>2, <3>2 DEF OfferTrue
  <2> QED BY <2>1, <2>2 DEF OfferTrue
<1>4. OfferTrue(o) BY DEF PairInv
<1>5. PairedRoles'
  <2> SUFFICES ASSUME NEW q \in Players, NEW r \in Players, q # r, client'[q].match # 0,
                      client'[q].match = client'[r].match
               PROVE  /\ client'[q].selected = [id |-> client'[r].selected.id, peer |-> r]
                      /\ client'[r].selected = [id |-> client'[q].selected.id, peer |-> q]
                      /\ client'[q].host # client'[r].host
    BY DEF PairedRoles
  <2>1. \A t \in Players : t # p => client'[t] = client[t] BY DEF Rest
  <2>2. PairedRoles BY DEF PairInv
  <2>3. CASE q # p /\ r # p BY <2>1, <2>2, <2>3 DEF PairedRoles
  <2>4. ASSUME NEW t \in Players, t # p, client'[t].match = o.match
        PROVE  /\ client'[t].host /\ client'[t].selected = [id |-> o.request, peer |-> p]
               /\ t = o.from
    BY <1>4, <2>1, <2>4 DEF OfferTrue
  <2>5. CASE q = p BY <1>1, <2>4, <2>5
  <2>6. CASE r = p BY <1>1, <2>4, <2>6
  <2> QED BY <2>3, <2>5, <2>6
<1> QED BY <1>2, <1>3, <1>5, Assemble

-----------------------------------------------------------------------------
(* Queues of events and commands. *)

LEMMA TailLaunches ==
    ASSUME NEW ev \in Seq(Events), ev # <<>>, NEW m
    PROVE  /\ NoLaunch(ev) => NoLaunch(Tail(ev))
           /\ OneLaunch(ev, m) => OneLaunch(Tail(ev), m)
           /\ OneLaunch(ev, m) /\ Head(ev).type = "launch" => Head(ev).match = m /\ NoLaunch(Tail(ev))
<1>1. /\ Head(ev) = ev[1] /\ 1 \in DOMAIN ev
      /\ \A i \in DOMAIN Tail(ev) : i + 1 \in DOMAIN ev /\ Tail(ev)[i] = ev[i + 1] /\ i \in Nat \ {0}
  BY TailFacts
<1>2. NoLaunch(ev) => NoLaunch(Tail(ev)) BY <1>1 DEF NoLaunch
<1>3. OneLaunch(ev, m) => OneLaunch(Tail(ev), m)
  <2> SUFFICES ASSUME OneLaunch(ev, m), NEW i \in DOMAIN Tail(ev), NEW j \in DOMAIN Tail(ev),
                      Tail(ev)[i].type = "launch", Tail(ev)[j].type = "launch"
               PROVE  i = j /\ Tail(ev)[i].match = m
    BY DEF OneLaunch
  <2>1. i + 1 = j + 1 /\ ev[i + 1].match = m BY <1>1 DEF OneLaunch
  <2> QED BY <1>1, <2>1
<1>4. ASSUME OneLaunch(ev, m), Head(ev).type = "launch"
      PROVE  Head(ev).match = m /\ NoLaunch(Tail(ev))
  <2>1. ASSUME NEW i \in DOMAIN Tail(ev), Tail(ev)[i].type = "launch" PROVE FALSE
    <3>1. i + 1 = 1 BY <1>1, <1>4, <2>1 DEF OneLaunch
    <3> QED BY <1>1, <3>1
  <2> QED BY <1>1, <1>4, <2>1 DEF OneLaunch, NoLaunch
<1> QED BY <1>2, <1>3, <1>4

LEMMA MoreEvents ==
    ASSUME NEW ev \in Seq(Events), NEW t \in Seq(Events), NoLaunch(t), NEW m
    PROVE  /\ ev \o t \in Seq(Events)
           /\ NoLaunch(ev) => NoLaunch(ev \o t)
           /\ OneLaunch(ev, m) => OneLaunch(ev \o t, m)
<1>1. /\ ev \o t \in Seq(Events)
      /\ \A i \in DOMAIN (ev \o t) \ DOMAIN ev :
            i - Len(ev) \in DOMAIN t /\ (ev \o t)[i] = t[i - Len(ev)]
      /\ \A i \in DOMAIN ev : (ev \o t)[i] = ev[i]
  BY ConcatFacts
<1>2. \A i \in DOMAIN (ev \o t) :
         (ev \o t)[i].type = "launch" => i \in DOMAIN ev /\ (ev \o t)[i] = ev[i]
  BY <1>1 DEF NoLaunch
<1> QED BY <1>1, <1>2 DEF NoLaunch, OneLaunch

LEMMA LaunchAdded ==
    ASSUME NEW ev \in Seq(Events), NEW e \in Events, NoLaunch(ev)
    PROVE  Append(ev, e) \in Seq(Events) /\ OneLaunch(Append(ev, e), e.match)
BY AppendFacts DEF NoLaunch, OneLaunch

LEMMA TailCommands ==
    ASSUME NEW cm \in Seq(Commands), cm # <<>>, NEW m
    PROVE  /\ Tail(cm) \in Seq(Commands)
           /\ NoFinish(cm, m) => NoFinish(Tail(cm), m)
           /\ \A i \in DOMAIN Tail(cm) : \E j \in DOMAIN cm : Tail(cm)[i] = cm[j]
<1>1. /\ Tail(cm) \in Seq(Commands)
      /\ \A i \in DOMAIN Tail(cm) : i + 1 \in DOMAIN cm /\ Tail(cm)[i] = cm[i + 1]
  BY TailFacts
<1> QED BY <1>1 DEF NoFinish

LEMMA CommandAdded ==
    ASSUME NEW cm \in Seq(Commands), NEW c \in Commands, NEW m
    PROVE  /\ Append(cm, c) \in Seq(Commands)
           /\ NoFinish(cm, m) /\ (c.type = "finished" => c.match # m) => NoFinish(Append(cm, c), m)
           /\ \A i \in DOMAIN Append(cm, c) :
                 (\E j \in DOMAIN cm : Append(cm, c)[i] = cm[j]) \/ Append(cm, c)[i] = c
<1>1. Append(cm, c) \in Seq(Commands) BY AppendFacts
<1>2. \A i \in DOMAIN Append(cm, c) :
         (i \in DOMAIN cm /\ Append(cm, c)[i] = cm[i]) \/ Append(cm, c)[i] = c
  BY AppendFacts
<1>3. NoFinish(cm, m) /\ (c.type = "finished" => c.match # m) => NoFinish(Append(cm, c), m)
  BY <1>2 DEF NoFinish
<1> QED BY <1>1, <1>2, <1>3

-----------------------------------------------------------------------------
(* Messages that are no offers. *)

Polite(ms) ==
    /\ ms \in SUBSET Mail /\ IsFiniteSet(ms)
    /\ \A m \in ms : ~IsOffer(m) /\ m.from # m.to

LEMMA PoliteSets ==
    /\ Polite({})
    /\ \A m \in Mail : ~IsOffer(m) /\ m.from # m.to => Polite({m})
    /\ \A a, b : Polite(a) /\ Polite(b) => Polite(a \cup b)
<1>1. Polite({}) BY FS_EmptySet DEF Polite
<1>2. \A m \in Mail : ~IsOffer(m) /\ m.from # m.to => Polite({m}) BY FS_Singleton DEF Polite
<1>3. ASSUME NEW a, NEW b, Polite(a), Polite(b) PROVE Polite(a \cup b)
  <2>1. IsFiniteSet(a \cup b) BY <1>3, FS_Union DEF Polite
  <2> QED BY <1>3, <2>1 DEF Polite
<1> QED BY <1>1, <1>2, <1>3

LEMMA PoliteRefusals ==
    ASSUME NEW p \in Players, NEW R \in SUBSET Requests, IsFiniteSet(R), \A r \in R : r.peer # p
    PROVE  Polite(Refusals(p, R))
<1> DEFINE f == [r \in R |-> Message("reply", p, r.peer, r.id, 0)]
<1>1. f \in Surjection(R, Refusals(p, R)) BY DEF Surjection, Refusals
<1>2. IsFiniteSet(Refusals(p, R)) BY <1>1, FS_Surjection
<1>3. ASSUME NEW r \in R
      PROVE  /\ Message("reply", p, r.peer, r.id, 0) \in Mail
             /\ ~IsOffer(Message("reply", p, r.peer, r.id, 0))
             /\ Message("reply", p, r.peer, r.id, 0).from # Message("reply", p, r.peer, r.id, 0).to
  BY DEF Requests, Mail, Message, IsOffer
<1> QED BY <1>2, <1>3 DEF Polite, Refusals

LEMMA PoliteOne ==
    ASSUME NEW p \in Players, NEW q \in Players, p # q, NEW i \in Nat, NEW m \in Nat,
           NEW type \in {"invite", "reply", "cancel", "confirm", "connect", "end"}
    PROVE  Polite({Message(type, p, q, i, m)})
<1>1. Message(type, p, q, i, m) \in Mail BY DEF Mail, Message
<1>2. ~IsOffer(Message(type, p, q, i, m)) BY DEF Message, IsOffer
<1>3. Message(type, p, q, i, m).from # Message(type, p, q, i, m).to BY DEF Message
<1> QED BY <1>1, <1>2, <1>3, PoliteSets

LEMMA PoliteRecall ==
    ASSUME NEW p \in Players, NEW x \in Clients, x.outgoing.peer # p
    PROVE  Polite(Recall(p, x))
<1>1. CASE x.outgoing = NoRequest BY <1>1, PoliteSets DEF Recall
<1>2. CASE x.outgoing # NoRequest
  <2>1. x.outgoing.peer \in Players /\ x.outgoing.id \in Nat BY <1>2 DEF Clients, Requests
  <2> QED BY <1>2, <2>1, PoliteOne DEF Recall
<1> QED BY <1>1, <1>2

LEMMA PoliteFarewell ==
    ASSUME NEW p \in Players, NEW x \in Clients, x.selected.peer # p
    PROVE  Polite(Farewell(p, x))
<1>1. CASE x.selected = NoRequest BY <1>1, PoliteSets DEF Farewell
<1>2. CASE x.selected # NoRequest
  <2>1. x.selected.peer \in Players /\ x.selected.id \in Nat /\ x.match \in Nat
    BY <1>2 DEF Clients, Requests
  <2> QED BY <1>2, <2>1, PoliteOne DEF Farewell
<1> QED BY <1>1, <1>2

LEMMA PoliteRejects ==
    ASSUME NEW p \in Players, NEW x \in Clients, Strangers(p, x), NEW r
    PROVE  Polite(RejectOthers(p, x, r))
<1>1. {q \in x.incoming : q.id # r.id} \in SUBSET Requests
      /\ IsFiniteSet({q \in x.incoming : q.id # r.id})
  BY FS_Subset DEF Clients, Strangers
<1>2. Polite(Refusals(p, {q \in x.incoming : q.id # r.id}))
  BY <1>1, PoliteRefusals DEF Strangers
<1>3. Polite(IF x.outgoing.id = r.id THEN {} ELSE Recall(p, x))
  BY PoliteSets, PoliteRecall DEF Strangers
<1> QED BY <1>2, <1>3, PoliteSets DEF RejectOthers

LEMMA PoliteKeeps ==
    ASSUME NEW n \in Nat, NEW box, BoxInv(box, n), NEW ms, Polite(ms)
    PROVE  BoxInv(Sent(box, ms), n) /\ Offers(Sent(box, ms)) \subseteq Offers(box)
BY SendKeeps DEF Polite

-----------------------------------------------------------------------------
(* What becomes of one client. *)

Fine(p, x) == x \in Clients /\ Strangers(p, x) /\ OneEach(x)

\* As far as matches go, nothing has happened.
Alike(x, y) ==
    /\ y.match = x.match /\ y.selected = x.selected /\ y.host = x.host /\ y.launched = x.launched
    /\ y.state = "confirming" => x.state = "confirming"

LEMMA Nowhere == NoRequest.peer \notin Players /\ NoRequest.id = 0 /\ \A r \in Requests : r.peer \in Players
BY PlayersAssumption DEF NoRequest, Nobody, Requests

LEMMA FineNow == ASSUME PairInv, NEW p \in Players PROVE Fine(p, client[p])
BY DEF PairInv, PairTypes, Fine

LEMMA Dismissed ==
    ASSUME NEW p \in Players, NEW x, Fine(p, x), NEW r
    PROVE  Fine(p, [x EXCEPT !.incoming = @ \ {r}]) /\ Alike(x, [x EXCEPT !.incoming = @ \ {r}])
<1> SUFFICES ASSUME NEW y, y = [x EXCEPT !.incoming = @ \ {r}] PROVE Fine(p, y) /\ Alike(x, y)
  OBVIOUS
<1>1. y \in Clients /\ y.incoming = x.incoming \ {r} BY DEF Fine, Clients
<1>2. IsFiniteSet(y.incoming) BY <1>1, FS_Subset DEF Fine, Strangers
<1>3. y.selected = x.selected /\ y.outgoing = x.outgoing /\ Alike(x, y) BY DEF Fine, Clients, Alike
<1> QED BY <1>1, <1>2, <1>3 DEF Fine, Strangers, OneEach, Alike

LEMMA Recalled ==
    ASSUME NEW p \in Players, NEW x, Fine(p, x)
    PROVE  Fine(p, [x EXCEPT !.outgoing = NoRequest]) /\ Alike(x, [x EXCEPT !.outgoing = NoRequest])
<1> SUFFICES ASSUME NEW y, y = [x EXCEPT !.outgoing = NoRequest] PROVE Fine(p, y) /\ Alike(x, y)
  OBVIOUS
<1>1. y \in Clients /\ y.outgoing = NoRequest BY DEF Fine, Clients
<1>2. y.selected = x.selected /\ y.incoming = x.incoming /\ Alike(x, y) BY DEF Fine, Clients, Alike
<1>3. \A r \in y.incoming : r \in Requests BY <1>1 DEF Clients
<1> QED BY <1>1, <1>2, <1>3, Nowhere DEF Fine, Strangers, OneEach, Alike

\* Nothing is asked for any more.
LEMMA Cleared ==
    ASSUME NEW p \in Players, NEW x, Fine(p, x), NEW y \in Clients, y.incoming = {},
           y.outgoing = NoRequest, y.match = x.match, y.selected = x.selected
    PROVE  Fine(p, y)
BY FS_EmptySet, Nowhere DEF Fine, Strangers, OneEach

\* The requests are as before.
LEMMA Untouched ==
    ASSUME NEW p \in Players, NEW x, Fine(p, x), NEW y \in Clients, y.incoming = x.incoming,
           y.outgoing = x.outgoing, y.match = x.match, y.selected = x.selected
    PROVE  Fine(p, y)
BY DEF Fine, Strangers, OneEach

LEMMA Asks ==
    ASSUME NEW p \in Players, NEW x, Fine(p, x), x.match = 0, NEW r \in Requests, r.peer # p,
           \A q \in x.incoming : q.peer # r.peer
    PROVE  /\ x.outgoing.peer # r.peer =>
                 /\ Fine(p, [x EXCEPT !.incoming = @ \cup {r}])
                 /\ Alike(x, [x EXCEPT !.incoming = @ \cup {r}])
           /\ Fine(p, [x EXCEPT !.outgoing = NoRequest, !.incoming = @ \cup {r}])
           /\ Alike(x, [x EXCEPT !.outgoing = NoRequest, !.incoming = @ \cup {r}])
<1>1. ASSUME NEW y \in Clients, y.incoming = x.incoming \cup {r}, Alike(x, y),
             y.outgoing \in {x.outgoing, NoRequest}, y.outgoing.peer # r.peer
      PROVE  Fine(p, y)
  <2>1. IsFiniteSet(y.incoming) BY <1>1, FS_AddElement DEF Fine, Strangers
  <2>2. y.match = 0 /\ y.selected = x.selected BY <1>1 DEF Alike
  <2>3. \A q \in y.incoming : q.peer # y.outgoing.peer
    <3>1. \A q \in x.incoming : q \in Requests BY DEF Fine, Clients
    <3> QED BY <1>1, <3>1, Nowhere DEF Fine, OneEach
  <2>4. Strangers(p, y) BY <1>1, <2>1, <2>2, Nowhere DEF Fine, Strangers
  <2>5. OneEach(y) BY <1>1, <2>2, <2>3 DEF Fine, OneEach
  <2> QED BY <1>1, <2>4, <2>5 DEF Fine
<1>2. ASSUME NEW y, y = [x EXCEPT !.incoming = @ \cup {r}], x.outgoing.peer # r.peer
      PROVE  Fine(p, y) /\ Alike(x, y)
  <2>1. y \in Clients /\ y.incoming = x.incoming \cup {r} /\ Alike(x, y) /\ y.outgoing = x.outgoing
    BY <1>2 DEF Fine, Clients, Alike
  <2> QED BY <1>1, <1>2, <2>1
<1>3. ASSUME NEW y, y = [x EXCEPT !.outgoing = NoRequest, !.incoming = @ \cup {r}]
      PROVE  Fine(p, y) /\ Alike(x, y)
  <2>1. y \in Clients /\ y.incoming = x.incoming \cup {r} /\ Alike(x, y) /\ y.outgoing = NoRequest
    BY <1>3 DEF Fine, Clients, Alike
  <2>2. y.outgoing.peer # r.peer BY <2>1, Nowhere
  <2> QED BY <1>1, <2>1, <2>2
<1> QED BY <1>2, <1>3

LEMMA Invites ==
    ASSUME NEW p \in Players, NEW x, Fine(p, x), x.match = 0, NEW q \in Players, q # p,
           NEW i \in Nat, \A r \in x.incoming : r.peer # q
    PROVE  /\ Fine(p, [x EXCEPT !.outgoing = [id |-> i, peer |-> q]])
           /\ Alike(x, [x EXCEPT !.outgoing = [id |-> i, peer |-> q]])
<1> SUFFICES ASSUME NEW y, y = [x EXCEPT !.outgoing = [id |-> i, peer |-> q]]
             PROVE  Fine(p, y) /\ Alike(x, y)
  OBVIOUS
<1>1. [id |-> i, peer |-> q] \in Requests BY DEF Requests
<1>2. y \in Clients /\ y.outgoing = [id |-> i, peer |-> q] BY <1>1 DEF Fine, Clients
<1>3. y.selected = x.selected /\ y.incoming = x.incoming /\ Alike(x, y) BY DEF Fine, Clients, Alike
<1> QED BY <1>2, <1>3 DEF Fine, Strangers, OneEach, Alike

LEMMA Confirms ==
    ASSUME NEW p \in Players, NEW x, Fine(p, x), NEW r \in Requests, r.peer # p, NEW m \in Nat, m # 0,
           NEW y \in Clients, y.selected = r, y.match = m, y.incoming = {}, y.outgoing = NoRequest
    PROVE  Fine(p, y)
<1>1. r # NoRequest BY Nowhere
<1> QED BY <1>1, FS_EmptySet, Nowhere DEF Fine, Strangers, OneEach

LEMMA Resets ==
    ASSUME NEW p \in Players, NEW x, Fine(p, x), NEW finished \in BOOLEAN,
           NEW y, y = Reset(x, finished)
    PROVE  /\ Fine(p, y) /\ y.state # "confirming"
           /\ y.match # 0 =>
                 y.match = x.match /\ y.selected = x.selected /\ y.host = x.host
           /\ ~MatchOver(x, finished) => y.match = x.match /\ y.launched = x.launched
           /\ MatchOver(x, finished) => y.match = 0 /\ ~y.launched
<1>1. CASE MatchOver(x, finished)
  <2>1. /\ y \in Clients /\ y.selected = NoRequest /\ y.match = 0 /\ y.launched = FALSE
        /\ y.incoming = x.incoming /\ y.outgoing = x.outgoing /\ y.state # "confirming"
    BY <1>1 DEF Fine, Clients, Reset
  <2> QED BY <1>1, <2>1, Nowhere DEF Fine, Strangers, OneEach
<1>2. CASE ~MatchOver(x, finished)
  <2>1. /\ y \in Clients /\ y.selected = x.selected /\ y.match = x.match /\ y.launched = x.launched
        /\ y.host = x.host
        /\ y.incoming = x.incoming /\ y.outgoing = x.outgoing /\ y.state # "confirming"
    BY <1>2 DEF Fine, Clients, Reset
  <2> QED BY <1>2, <2>1 DEF Fine, Strangers, OneEach
<1> QED BY <1>1, <1>2

LEMMA PlayAlike ==
    ASSUME NEW x, NEW y, Alike(x, y), NEW g, NEW ev, NEW cm, Play(x, g, ev, cm)
    PROVE  Play(y, g, ev, cm)
BY DEF Alike, Play

LEMMA QuietStep ==
    ASSUME PairInv, NEW p \in Players, NEW y, client' = [client EXCEPT ![p] = y],
           Fine(p, y), Alike(client[p], y), UNCHANGED <<events, commands, game>>,
           tokens' \in {tokens, tokens + 1},
           BoxInv(inbox', tokens'), Offers(inbox') \subseteq Offers(inbox)
    PROVE  PairInv'
<1>1. PairTypes BY DEF PairInv
<1>2. tokens \in Nat /\ tokens' \in Nat /\ tokens <= tokens' BY <1>1 DEF PairTypes
<1>3. client'[p] = y /\ \A q \in Players \ {p} : client'[q] = client[q]
  BY <1>1 DEF PairTypes
<1>4. PairTypes' BY <1>1, <1>2, <1>3 DEF PairTypes, Fine
<1>5. Rest(p) BY <1>3 DEF Rest
<1>6. Play(y, game'[p], events'[p], commands'[p])
  <2>1. Play(client[p], game[p], events[p], commands[p]) BY DEF PairInv
  <2>2. Play(y, game[p], events[p], commands[p]) BY <2>1, PlayAlike
  <2> QED BY <2>2
<1>7. Below(tokens', y, commands'[p])
  <2>1. Below(tokens, client[p], commands[p]) BY DEF PairInv
  <2>2. client[p].match \in Nat /\ y.match = client[p].match BY <1>1 DEF PairTypes, Clients, Alike
  <2>3. \A i \in DOMAIN commands[p] : commands[p][i].match \in Nat BY <1>1, CommandNumbers
  <2> QED BY <1>2, <2>1, <2>2, <2>3 DEF Below
<1>8. Own(p, y) BY <1>3, <1>6, <1>7 DEF Own, Fine
<1> QED BY <1>2, <1>4, <1>5, <1>8, OldMatch DEF Alike

\* Somebody has only read, or only lost, or only said something.
LEMMA MailStep ==
    ASSUME PairInv, NEW p \in Players, UNCHANGED <<client, events, commands, game, tokens>>,
           BoxInv(inbox', tokens), Offers(inbox') \subseteq Offers(inbox)
    PROVE  PairInv'
<1>1. client' = [client EXCEPT ![p] = client[p]] BY DEF PairInv, PairTypes
<1>2. Alike(client[p], client[p]) BY DEF Alike
<1> QED BY <1>1, <1>2, FineNow, QuietStep

LEMMA Now ==
    ASSUME PairInv
    PROVE  /\ tokens \in Nat /\ BoxInv(inbox, tokens)
           /\ client = [p \in Players |-> client[p]]
           /\ \A p \in Players :
                 /\ Play(client[p], game[p], events[p], commands[p])
                 /\ Below(tokens, client[p], commands[p])
                 /\ game[p] \in Games /\ events[p] \in Seq(Events) /\ commands[p] \in Seq(Commands)
BY DEF PairInv, PairTypes

\* A match is confirmed by a player who has been in none.
LEMMA PlayConfirms ==
    ASSUME NEW x, NEW y, NEW g, NEW ev, NEW cm, Play(x, g, ev, cm), x.match = 0, y.match # 0,
           y.launched = x.launched, NoFinish(cm, y.match)
    PROVE  Play(y, g, ev, cm)
BY DEF Play

LEMMA AcceptStep ==
    ASSUME PairInv, NEW p \in Players, NEW x, Fine(p, x), Alike(client[p], x), x.match = 0,
           NEW r \in x.incoming, NEW box, BoxInv(box, tokens), Offers(box) \subseteq Offers(inbox),
           Accepting(p, x, r, box), UNCHANGED <<events, commands, game>>
    PROVE  PairInv'
<1>1. /\ tokens \in Nat /\ PairTypes /\ Play(client[p], game[p], events[p], commands[p])
      /\ Below(tokens, client[p], commands[p])
  BY DEF PairInv, PairTypes
<1>2. r \in Requests /\ r.peer # p /\ r.peer \in Players /\ r.id \in Nat
  <2>1. r \in Requests BY DEF Fine, Clients
  <2> QED BY <2>1 DEF Fine, Strangers, Requests
<1>3. tokens' = tokens + 1 BY DEF Accepting
<1>4. PICK ok \in BOOLEAN, arrived \in BOOLEAN :
         /\ inbox' = Sent(Sent(box, IF arrived THEN {Message("offer", p, r.peer, r.id, tokens + 1)}
                                    ELSE {}),
                          IF ok THEN RejectOthers(p, x, r) ELSE {})
         /\ client' = [client EXCEPT ![p] = IF ok THEN Confirming(x, r, tokens + 1, TRUE) ELSE x]
  BY DEF Accepting
<1>5. PICK y : y = IF ok THEN Confirming(x, r, tokens + 1, TRUE) ELSE x OBVIOUS
<1>6. PICK o : o = Message("offer", p, r.peer, r.id, tokens + 1) OBVIOUS
<1>7. /\ o \in Mail /\ IsOffer(o) /\ o.match = tokens + 1 /\ o.from = p /\ o.to = r.peer
      /\ o.request = r.id /\ o.from # o.to
  BY <1>1, <1>2, <1>6 DEF Message, Mail, IsOffer
<1>8. PICK ms : ms = IF arrived THEN {o} ELSE {} OBVIOUS
<1>9. ms \in SUBSET Mail /\ IsFiniteSet(ms) /\ \A m \in ms : m = o
  BY <1>7, <1>8, FS_EmptySet, FS_Singleton
<1>10. PICK first : first = Sent(box, ms) OBVIOUS
<1>11. BoxInv(first, tokens + 1) /\ \A m \in Offers(first) : m \in Offers(box) \/ m = o
  BY <1>1, <1>7, <1>9, <1>10, OfferAdds
<1>12. PICK rest : rest = IF ok THEN RejectOthers(p, x, r) ELSE {} OBVIOUS
<1>13. Polite(rest) BY <1>12, PoliteRejects, PoliteSets DEF Fine
<1>14. inbox' = Sent(first, rest) BY <1>4, <1>6, <1>8, <1>10, <1>12
<1>15. BoxInv(inbox', tokens') /\ Offers(inbox') \subseteq Offers(first)
  <2>1. tokens + 1 \in Nat BY <1>1
  <2> QED BY <1>3, <1>11, <1>13, <1>14, <2>1, PoliteKeeps
<1>16. /\ Fine(p, y) /\ Play(y, game[p], events[p], commands[p])
       /\ y.match = 0 \/ (y.match = tokens + 1 /\ y.host /\ y.selected = r)
  <2>1. CASE ok
    <3>1. y = Confirming(x, r, tokens + 1, TRUE) BY <1>5, <2>1
    <3>2. /\ Fine(p, y) /\ y.selected = r /\ y.match = tokens + 1 /\ y.host = TRUE
          /\ y.launched = x.launched
      <4>1. PICK n : n = tokens + 1 OBVIOUS
      <4>2. n \in Nat /\ n # 0 /\ x \in Clients BY <1>1, <4>1 DEF Fine
      <4>3. /\ y \in Clients /\ y.selected = r /\ y.match = n /\ y.incoming = {}
            /\ y.outgoing = NoRequest /\ y.launched = x.launched /\ y.host = TRUE
        BY <1>2, <3>1, <4>1, <4>2 DEF Clients, Confirming
      <4>4. Fine(p, y) BY <1>2, <4>2, <4>3, Confirms
      <4> QED BY <4>1, <4>3, <4>4
    <3>3. NoFinish(commands[p], tokens + 1)
      <4>1. \A i \in DOMAIN commands[p] : commands[p][i].match \in Nat BY <1>1, CommandNumbers
      <4> QED BY <1>1, <4>1 DEF Below, NoFinish
    <3>4. client[p].match = 0 /\ y.launched = client[p].launched /\ y.match # 0
      BY <1>1, <3>2 DEF Alike
    <3> QED BY <1>1, <3>2, <3>3, <3>4, PlayConfirms
  <2>2. CASE ~ok
    <3>1. y = x BY <1>5, <2>2
    <3> QED BY <1>1, <3>1, PlayAlike
  <2> QED BY <2>1, <2>2
<1>17. client' = [client EXCEPT ![p] = y] BY <1>4, <1>5
<1>18. client'[p] = y /\ \A q \in Players \ {p} : client'[q] = client[q]
  BY <1>1, <1>17 DEF PairTypes
<1>19. PairTypes' BY <1>1, <1>3, <1>16, <1>17 DEF PairTypes, Fine
<1>20. Rest(p) BY <1>18 DEF Rest
<1>21. Own(p, y)
  <2>1. Below(tokens', y, commands[p])
    <3>1. \A i \in DOMAIN commands[p] : commands[p][i].match \in Nat BY <1>1, CommandNumbers
    <3> QED BY <1>1, <1>3, <1>16, <3>1 DEF Below
  <2> QED BY <1>16, <1>18, <2>1 DEF Own, Fine
<1>22. \/ y.match = 0
       \/ y.match = tokens + 1 /\ y.host /\ y.selected = [id |-> o.request, peer |-> o.to]
  <2>1. r = [id |-> r.id, peer |-> r.peer] BY <1>2 DEF Requests
  <2> QED BY <1>7, <1>16, <2>1
<1>23. o.to \in Players BY <1>2, <1>7
<1>24. \A m \in Offers(inbox') : m \in Offers(inbox) \/ m = o BY <1>11, <1>15
<1> QED BY <1>3, <1>7, <1>15, <1>19, <1>20, <1>21, <1>22, <1>23, <1>24, NewMatch

LEMMA ResetStep ==
    ASSUME PairInv, NEW p \in Players, NEW x, Fine(p, x), Alike(client[p], x),
           NEW box, BoxInv(box, tokens), Offers(box) \subseteq Offers(inbox),
           NEW notify \in BOOLEAN, NEW finished \in BOOLEAN, ResetMatch(p, x, box, notify, finished),
           tokens' = tokens,
           game' \in [Players -> Games], \A q \in Players \ {p} : game'[q] = game[q],
           game'[p].match = game[p].match, Runs(game'[p]) => Runs(game[p]),
           commands' \in [Players -> Seq(Commands)],
           \A q \in Players \ {p} : commands'[q] = commands[q],
           \/ commands'[p] = commands[p]
           \/ commands[p] # <<>> /\ commands'[p] = Tail(commands[p]),
           finished => ~NoFinish(commands[p], x.match)
    PROVE  PairInv'
<1>1. /\ tokens \in Nat /\ PairTypes /\ Play(client[p], game[p], events[p], commands[p])
      /\ Below(tokens, client[p], commands[p])
      /\ events[p] \in Seq(Events) /\ commands[p] \in Seq(Commands)
  BY DEF PairInv, PairTypes
<1>2. PICK y : y = Reset(x, finished) OBVIOUS
<1>3. /\ Fine(p, y) /\ y.state # "confirming"
      /\ y.match # 0 => y.match = x.match /\ y.selected = x.selected /\ y.host = x.host
      /\ ~MatchOver(x, finished) => y.match = x.match /\ y.launched = x.launched
      /\ MatchOver(x, finished) => y.match = 0 /\ ~y.launched
  BY <1>2, Resets
<1>4. /\ client' = [client EXCEPT ![p] = y]
      /\ inbox' = IF notify THEN Sent(box, Farewell(p, x)) ELSE box
      /\ events' = [events EXCEPT ![p] = @ \o Aborting(x, finished)]
  BY <1>2 DEF ResetMatch
<1>5. client'[p] = y /\ \A q \in Players \ {p} : client'[q] = client[q] BY <1>1, <1>4 DEF PairTypes
<1>6. BoxInv(inbox', tokens') /\ Offers(inbox') \subseteq Offers(inbox)
  <2>1. Polite(Farewell(p, x)) BY PoliteFarewell DEF Fine, Strangers
  <2>2. CASE notify BY <1>1, <1>4, <2>1, <2>2, PoliteKeeps
  <2>3. CASE ~notify BY <1>1, <1>4, <2>3
  <2> QED BY <2>2, <2>3
<1>7. Aborting(x, finished) \in Seq(Events) /\ NoLaunch(Aborting(x, finished))
  <2>1. [type |-> "abort", match |-> x.match, host |-> x.host] \in Events
    BY DEF Fine, Clients, Events
  <2>2. CASE ~MatchOver(x, finished) /\ x.state # "playing"
    <3>1. Aborting(x, finished) = <<[type |-> "abort", match |-> x.match, host |-> x.host]>>
      BY <2>2 DEF Aborting
    <3> QED BY <2>1, <3>1 DEF NoLaunch
  <2>3. CASE MatchOver(x, finished) \/ x.state = "playing"
    <3>1. Aborting(x, finished) = <<>> BY <2>3 DEF Aborting
    <3> QED BY <3>1 DEF NoLaunch
  <2> QED BY <2>2, <2>3
<1>8. PICK ev : ev = events[p] \o Aborting(x, finished) OBVIOUS
<1>9. /\ ev \in Seq(Events)
      /\ NoLaunch(events[p]) => NoLaunch(ev)
      /\ OneLaunch(events[p], x.match) => OneLaunch(ev, x.match)
  BY <1>1, <1>7, <1>8, MoreEvents
<1>10. events'[p] = ev /\ events' \in [Players -> Seq(Events)]
       /\ \A q \in Players \ {p} : events'[q] = events[q]
  <2>1. events' = [events EXCEPT ![p] = ev] BY <1>4, <1>8
  <2>2. events \in [Players -> Seq(Events)] BY <1>1 DEF PairTypes
  <2> QED BY ONLY <1>9, <2>1, <2>2, p \in Players
<1>11. /\ NoFinish(commands[p], x.match) => NoFinish(commands'[p], x.match)
       /\ \A i \in DOMAIN commands'[p] : \E j \in DOMAIN commands[p] : commands'[p][i] = commands[p][j]
  <2>1. CASE commands'[p] = commands[p] BY <2>1
  <2>2. CASE commands[p] # <<>> /\ commands'[p] = Tail(commands[p])
    BY ONLY <1>1, <2>2, TailCommands
  <2> QED BY <2>1, <2>2
<1>12. x.match = client[p].match /\ x.launched = client[p].launched /\ x.selected = client[p].selected
       /\ x.host = client[p].host
  BY DEF Alike
<1>13. Play(y, game'[p], ev, commands'[p])
  <2>1. CASE MatchOver(x, finished)
    <3>1. ~Runs(game[p]) /\ NoLaunch(events[p])
      <4>1. CASE ~x.launched BY <1>1, <1>12, <4>1 DEF Play
      <4>2. CASE x.launched
        <5>1. finished BY <2>1, <4>2 DEF MatchOver
        <5> QED BY <1>1, <1>12, <4>2, <5>1 DEF Play
      <4> QED BY <4>1, <4>2
    <3>2. y.match = 0 /\ ~y.launched /\ y.state # "confirming" BY <1>3, <2>1
    <3>3. ~Runs(game'[p]) /\ NoLaunch(ev)
      <4>1. Runs(game'[p]) => Runs(game[p]) OBVIOUS
      <4> QED BY ONLY <1>9, <3>1, <4>1
    <3> QED BY ONLY <3>2, <3>3 DEF Play
  <2>2. CASE ~MatchOver(x, finished)
    <3>1. x.launched /\ y.match = x.match /\ y.launched = x.launched BY <1>3, <2>2 DEF MatchOver
    <3>2. client[p].match = x.match /\ client[p].launched BY <1>12, <3>1
    <3>3. /\ x.match # 0 /\ OneLaunch(events[p], x.match)
          /\ Runs(game[p]) => game[p].match = x.match /\ NoLaunch(events[p])
          /\ NoFinish(commands[p], x.match) \/ (~Runs(game[p]) /\ NoLaunch(events[p]))
      BY ONLY <1>1, <3>2 DEF Play
    <3>4. /\ OneLaunch(ev, x.match)
          /\ Runs(game'[p]) => game'[p].match = x.match /\ NoLaunch(ev)
          /\ NoFinish(commands'[p], x.match) \/ (~Runs(game'[p]) /\ NoLaunch(ev))
      <4>1. (Runs(game'[p]) => Runs(game[p])) /\ game'[p].match = game[p].match OBVIOUS
      <4> QED BY ONLY <1>9, <1>11, <3>3, <4>1
    <3>5. y.match = x.match /\ y.launched /\ y.state # "confirming" BY <1>3, <3>1
    <3> QED BY ONLY <3>3, <3>4, <3>5 DEF Play
  <2> QED BY <2>1, <2>2
<1>14. Below(tokens', y, commands'[p])
  <2>1. y.match <= tokens BY <1>1, <1>3, <1>12 DEF Below
  <2> QED BY <1>1, <1>11, <2>1 DEF Below
<1>15. PairTypes' BY <1>1, <1>3, <1>4, <1>10 DEF PairTypes, Fine
<1>16. Rest(p) BY <1>5, <1>10 DEF Rest
<1>17. Own(p, y) BY <1>3, <1>5, <1>10, <1>13, <1>14 DEF Own, Fine
<1>18. tokens <= tokens' BY <1>1
<1> QED BY <1>3, <1>6, <1>11, <1>12, <1>15, <1>16, <1>17, <1>18, OldMatch

-----------------------------------------------------------------------------
(* The actions, one by one. *)

LEMMA PoliteReply ==
    ASSUME NEW p \in Players, NEW r \in Requests, r.peer # p
    PROVE  Polite(Refusals(p, {r}))
<1>1. {r} \in SUBSET Requests /\ IsFiniteSet({r}) /\ \A q \in {r} : q.peer # p BY FS_Singleton
<1> QED BY <1>1, PoliteRefusals

\* All that is asked for is refused and taken back.
LEMMA PoliteGoodbye ==
    ASSUME NEW p \in Players, NEW x, Fine(p, x)
    PROVE  Polite(Refusals(p, x.incoming) \cup Recall(p, x))
<1>1. Polite(Refusals(p, x.incoming)) BY PoliteRefusals DEF Fine, Clients, Strangers
<1>2. Polite(Recall(p, x)) BY PoliteRecall DEF Fine, Strangers
<1> QED BY <1>1, <1>2, PoliteSets

LEMMA Reads ==
    ASSUME PairInv, NEW p \in Players, inbox[p] # <<>>, NEW m, m = Incoming(p)
    PROVE  /\ BoxInv(Taken(p), tokens) /\ Offers(Taken(p)) \subseteq Offers(inbox)
           /\ m \in Mail /\ m.from \in Players /\ m.to = p /\ m.from # p
           /\ Asked(m) \in Requests /\ Asked(m).peer # p /\ Asked(m).peer = m.from
<1>1. tokens \in Nat /\ BoxInv(inbox, tokens) BY Now
<1>2. /\ BoxInv(Taken(p), tokens) /\ Offers(Taken(p)) \subseteq Offers(inbox)
      /\ m \in Mail /\ m.to = p /\ m.from # p
  BY <1>1, TakenFacts
<1>3. m.from \in Players /\ m.request \in Nat BY <1>2 DEF Mail
<1> QED BY <1>2, <1>3 DEF Asked, Requests

LEMMA RejectKeeps ==
    ASSUME PairInv, NEW p \in Players, Reject(p)
    PROVE  PairInv'
<1>1. PICK r \in client[p].incoming :
         /\ client' = [client EXCEPT ![p].incoming = @ \ {r}]
         /\ inbox' = Sent(inbox, Refusals(p, {r}))
  BY DEF Reject
<1>2. Fine(p, client[p]) BY FineNow
<1>3. r \in Requests /\ r.peer # p BY <1>2 DEF Fine, Clients, Strangers
<1>4. PICK y : y = [client[p] EXCEPT !.incoming = @ \ {r}] OBVIOUS
<1>5. Fine(p, y) /\ Alike(client[p], y) BY <1>2, <1>4, Dismissed
<1>6. client' = [client EXCEPT ![p] = y] BY <1>1, <1>4
<1>7. tokens' = tokens /\ UNCHANGED <<events, commands, game>> BY DEF Reject
<1>8. BoxInv(inbox', tokens') /\ Offers(inbox') \subseteq Offers(inbox)
  BY <1>1, <1>3, <1>7, PoliteReply, PoliteKeeps, Now
<1> QED BY <1>5, <1>6, <1>7, <1>8, QuietStep

\* The own invitation is taken back.
LEMMA RecallStep ==
    ASSUME PairInv, NEW p \in Players, client' = [client EXCEPT ![p].outgoing = NoRequest],
           inbox' = Sent(inbox, Recall(p, client[p])), UNCHANGED <<events, commands, game, tokens>>
    PROVE  PairInv'
<1>1. Fine(p, client[p]) BY FineNow
<1>2. PICK y : y = [client[p] EXCEPT !.outgoing = NoRequest] OBVIOUS
<1>3. Fine(p, y) /\ Alike(client[p], y) BY <1>1, <1>2, Recalled
<1>4. client' = [client EXCEPT ![p] = y] BY <1>2
<1>5. Polite(Recall(p, client[p])) BY <1>1, PoliteRecall DEF Fine, Strangers
<1>6. BoxInv(inbox', tokens') /\ Offers(inbox') \subseteq Offers(inbox)
  BY <1>5, PoliteKeeps, Now
<1> QED BY <1>3, <1>4, <1>6, QuietStep

LEMMA SuspendKeeps ==
    ASSUME PairInv, NEW p \in Players, Suspend(p)
    PROVE  PairInv'
<1>1. Fine(p, client[p]) BY FineNow
<1>2. PICK y : y = [client[p] EXCEPT !.open = FALSE, !.incoming = {}, !.outgoing = NoRequest] OBVIOUS
<1>3. /\ y \in Clients /\ y.incoming = {} /\ y.outgoing = NoRequest
      /\ Alike(client[p], y)
  BY <1>1, <1>2 DEF Fine, Clients, Alike
<1>4. Fine(p, y)
  BY <1>1, <1>3, Cleared DEF Alike
<1>5. client' = [client EXCEPT ![p] = y] BY <1>2 DEF Suspend
<1>6. tokens' = tokens /\ UNCHANGED <<events, commands, game>> BY DEF Suspend
<1>7. BoxInv(inbox', tokens') /\ Offers(inbox') \subseteq Offers(inbox)
  BY <1>1, <1>6, PoliteGoodbye, PoliteKeeps, Now DEF Suspend
<1> QED BY <1>3, <1>4, <1>5, <1>6, <1>7, QuietStep

\* The player opens or closes; nothing else changes.
LEMMA DoorStep ==
    ASSUME PairInv, NEW p \in Players, NEW door \in BOOLEAN, client' = [client EXCEPT ![p].open = door],
           UNCHANGED <<inbox, events, commands, game, tokens>>
    PROVE  PairInv'
<1>1. Fine(p, client[p]) BY FineNow
<1>2. PICK y : y = [client[p] EXCEPT !.open = door] OBVIOUS
<1>3. y \in Clients /\ y.incoming = client[p].incoming /\ y.outgoing = client[p].outgoing
      /\ Alike(client[p], y)
  BY <1>1, <1>2 DEF Fine, Clients, Alike
<1>4. Fine(p, y) BY <1>1, <1>3, Untouched DEF Alike
<1>5. client' = [client EXCEPT ![p] = y] BY <1>2
<1> QED BY <1>3, <1>4, <1>5, QuietStep, Now

LEMMA LoseKeeps ==
    ASSUME PairInv, NEW p \in Players, Lose(p)
    PROVE  PairInv'
<1>1. inbox' = Taken(p) /\ inbox[p] # <<>> /\ UNCHANGED <<client, events, commands, game, tokens>>
  BY DEF Lose
<1>2. BoxInv(Taken(p), tokens) /\ Offers(Taken(p)) \subseteq Offers(inbox) BY <1>1, Reads
<1> QED BY <1>1, <1>2, MailStep

LEMMA ExpiryKeeps ==
    ASSUME PairInv, NEW p \in Players, IncomingExpires(p)
    PROVE  PairInv'
<1>1. PICK r \in client[p].incoming : client' = [client EXCEPT ![p].incoming = @ \ {r}]
  BY DEF IncomingExpires
<1>2. Fine(p, client[p]) BY FineNow
<1>3. PICK y : y = [client[p] EXCEPT !.incoming = @ \ {r}] OBVIOUS
<1>4. Fine(p, y) /\ Alike(client[p], y) BY <1>2, <1>3, Dismissed
<1>5. client' = [client EXCEPT ![p] = y] BY <1>1, <1>3
<1> QED BY <1>4, <1>5, QuietStep, Now DEF IncomingExpires

LEMMA InviteKeeps ==
    ASSUME PairInv, NEW p \in Players, NEW q \in Players, Invite(p, q)
    PROVE  PairInv'
<1>1. PICK ok \in BOOLEAN, arrived \in BOOLEAN :
         /\ inbox' = Sent(inbox, IF arrived THEN {Message("invite", p, q, tokens + 1, 0)} ELSE {})
         /\ client' = IF ok THEN [client EXCEPT ![p].outgoing = [id |-> tokens + 1, peer |-> q]]
                      ELSE client
  BY DEF Invite
<1>2. /\ q # p /\ client[p].match = 0 /\ \A r \in client[p].incoming : r.peer # q
      /\ tokens' = tokens + 1 /\ UNCHANGED <<events, commands, game>>
  BY DEF Invite, Free
<1>3. Fine(p, client[p]) /\ tokens \in Nat /\ BoxInv(inbox, tokens) BY FineNow, Now
<1>4. PICK n : n = tokens + 1 OBVIOUS
<1>5. n \in Nat /\ BoxInv(inbox, n) BY <1>3, <1>4, NumbersGrow
<1>6. Polite(IF arrived THEN {Message("invite", p, q, n, 0)} ELSE {})
  <2>1. 0 \in Nat /\ "invite" \in {"invite", "reply", "cancel", "confirm", "connect", "end"} OBVIOUS
  <2> QED BY <1>2, <1>5, <2>1, PoliteOne, PoliteSets
<1>7. BoxInv(inbox', n) /\ Offers(inbox') \subseteq Offers(inbox)
  BY <1>1, <1>4, <1>5, <1>6, PoliteKeeps
<1>8. PICK y : y = IF ok THEN [client[p] EXCEPT !.outgoing = [id |-> n, peer |-> q]] ELSE client[p]
  OBVIOUS
<1>9. Fine(p, y) /\ Alike(client[p], y)
  <2>1. CASE ok BY <1>2, <1>3, <1>5, <1>8, <2>1, Invites
  <2>2. CASE ~ok BY <1>3, <1>8, <2>2 DEF Alike
  <2> QED BY <2>1, <2>2
<1>10. client' = [client EXCEPT ![p] = y]
  <2>1. CASE ok BY <1>1, <1>4, <1>8, <2>1
  <2>2. CASE ~ok BY <1>1, <1>8, <2>2 DEF PairInv, PairTypes
  <2> QED BY <2>1, <2>2
<1>11. tokens' = n BY <1>2, <1>4
<1> QED BY <1>2, <1>4, <1>7, <1>9, <1>10, <1>11, QuietStep

LEMMA AcceptKeeps ==
    ASSUME PairInv, NEW p \in Players, Accept(p)
    PROVE  PairInv'
<1>1. PICK r \in client[p].incoming : Accepting(p, client[p], r, inbox) BY DEF Accept
<1>2. client[p].match = 0 /\ UNCHANGED <<events, commands, game>> BY DEF Accept, Free
<1>3. PICK x : x = client[p] OBVIOUS
<1>4. Fine(p, x) /\ Alike(client[p], x) BY <1>3, FineNow DEF Alike
<1>5. BoxInv(inbox, tokens) /\ Offers(inbox) \subseteq Offers(inbox) BY Now
<1>6. Accepting(p, x, r, inbox) /\ x.match = 0 /\ r \in x.incoming BY <1>1, <1>2, <1>3
<1> QED BY <1>2, <1>4, <1>5, <1>6, AcceptStep

LEMMA ReceiveInviteKeeps ==
    ASSUME PairInv, NEW p \in Players, ReceiveInvite(p)
    PROVE  PairInv'
<1>1. UNCHANGED <<events, commands, game>> /\ inbox[p] # <<>> BY DEF ReceiveInvite, Comes
<1>2. PICK m : m = Incoming(p) OBVIOUS
<1>3. /\ BoxInv(Taken(p), tokens) /\ Offers(Taken(p)) \subseteq Offers(inbox)
      /\ m.from \in Players /\ Asked(m) \in Requests /\ Asked(m).peer # p /\ Asked(m).peer = m.from
  BY <1>1, <1>2, Reads
<1>4. Fine(p, client[p]) /\ tokens \in Nat BY FineNow, Now
<1>5. PICK r : r = Asked(m) OBVIOUS
<1>6. r \in Requests /\ r.peer # p /\ r.peer = m.from BY <1>3, <1>5
<1>7. CASE inbox' = Sent(Taken(p), Refusals(p, {r})) /\ UNCHANGED <<client, tokens>>
  <2>1. BoxInv(inbox', tokens) /\ Offers(inbox') \subseteq Offers(inbox)
    BY <1>3, <1>4, <1>6, <1>7, PoliteReply, PoliteKeeps
  <2> QED BY <1>1, <1>7, <2>1, MailStep
<1>8. CASE inbox' = Taken(p) /\ UNCHANGED <<client, tokens>>
  BY <1>1, <1>3, <1>8, MailStep
<1>9. ASSUME Free(p), \A q \in client[p].incoming : q.peer # m.from, client[p].outgoing.peer # m.from,
             client' = [client EXCEPT ![p].incoming = @ \cup {r}], inbox' = Taken(p), tokens' = tokens
      PROVE  PairInv'
  <2>1. PICK y : y = [client[p] EXCEPT !.incoming = @ \cup {r}] OBVIOUS
  <2>2. client[p].match = 0 BY <1>9 DEF Free
  <2>3. Fine(p, y) /\ Alike(client[p], y) BY <1>4, <1>6, <1>9, <2>1, <2>2, Asks
  <2>4. client' = [client EXCEPT ![p] = y] BY <1>9, <2>1
  <2> QED BY <1>1, <1>3, <1>9, <2>3, <2>4, QuietStep
<1>10. ASSUME Free(p), \A q \in client[p].incoming : q.peer # m.from,
              Accepting(p, [client[p] EXCEPT !.outgoing = NoRequest, !.incoming = @ \cup {r}], r,
                        Sent(Taken(p), Recall(p, client[p])))
       PROVE  PairInv'
  <2>1. PICK x : x = [client[p] EXCEPT !.outgoing = NoRequest, !.incoming = @ \cup {r}] OBVIOUS
  <2>2. client[p].match = 0 BY <1>10 DEF Free
  <2>3. Fine(p, x) /\ Alike(client[p], x) BY <1>4, <1>6, <1>10, <2>1, <2>2, Asks
  <2>4. x.match = 0 /\ r \in x.incoming BY <1>4, <2>1, <2>2 DEF Fine, Clients
  <2>5. PICK box : box = Sent(Taken(p), Recall(p, client[p])) OBVIOUS
  <2>6. Polite(Recall(p, client[p])) BY <1>4, PoliteRecall DEF Fine, Strangers
  <2>7. BoxInv(box, tokens) /\ Offers(box) \subseteq Offers(inbox)
    BY <1>3, <1>4, <2>5, <2>6, PoliteKeeps
  <2>8. Accepting(p, x, r, box) BY <1>10, <2>1, <2>5
  <2> QED BY <1>1, <2>3, <2>4, <2>7, <2>8, AcceptStep
<1> QED BY <1>2, <1>5, <1>7, <1>8, <1>9, <1>10 DEF ReceiveInvite

LEMMA ReceiveReplyKeeps ==
    ASSUME PairInv, NEW p \in Players, ReceiveReply(p)
    PROVE  PairInv'
<1>1. /\ inbox[p] # <<>> /\ inbox' = Taken(p) /\ UNCHANGED <<events, commands, game, tokens>>
      /\ client' = [client EXCEPT ![p].outgoing = NoRequest] \/ client' = client
  BY DEF ReceiveReply, Comes
<1>2. BoxInv(Taken(p), tokens) /\ Offers(Taken(p)) \subseteq Offers(inbox) BY <1>1, Reads
<1>3. CASE client' = client BY <1>1, <1>2, <1>3, MailStep
<1>4. CASE client' = [client EXCEPT ![p].outgoing = NoRequest]
  <2>1. PICK y : y = [client[p] EXCEPT !.outgoing = NoRequest] OBVIOUS
  <2>2. Fine(p, y) /\ Alike(client[p], y) BY <2>1, FineNow, Recalled
  <2>3. client' = [client EXCEPT ![p] = y] BY <1>4, <2>1
  <2> QED BY <1>1, <1>2, <2>2, <2>3, QuietStep
<1> QED BY <1>1, <1>3, <1>4

\* A match is called off, and the game does nothing or is dropped.
LEMMA CloseOff ==
    ASSUME PairInv, NEW p \in Players, NEW x, Fine(p, x), Alike(client[p], x),
           NEW box, BoxInv(box, tokens), Offers(box) \subseteq Offers(inbox), NEW notify \in BOOLEAN,
           ResetMatch(p, x, box, notify, FALSE), UNCHANGED <<commands, tokens>>,
           NEW g \in Games, game' = [game EXCEPT ![p] = g], g.match = game[p].match,
           Runs(g) => Runs(game[p])
    PROVE  PairInv'
<1>1. PICK finished \in BOOLEAN : finished = FALSE OBVIOUS
<1>2. ResetMatch(p, x, box, notify, finished) /\ ~finished BY <1>1
<1>3. commands' \in [Players -> Seq(Commands)] /\ commands' = commands /\ tokens' = tokens
  BY DEF PairInv, PairTypes
<1>4. game \in [Players -> Games] BY DEF PairInv, PairTypes
<1>5. /\ game' \in [Players -> Games] /\ game'[p] = g
      /\ \A q \in Players \ {p} : game'[q] = game[q]
  BY ONLY p \in Players, g \in Games, game' = [game EXCEPT ![p] = g], <1>4
<1>6. game'[p].match = game[p].match /\ (Runs(game'[p]) => Runs(game[p])) BY <1>5
<1> QED BY <1>2, <1>3, <1>5, <1>6, ResetStep

LEMMA CallOff ==
    ASSUME PairInv, NEW p \in Players, NEW x, Fine(p, x), Alike(client[p], x),
           NEW box, BoxInv(box, tokens), Offers(box) \subseteq Offers(inbox), NEW notify \in BOOLEAN,
           ResetMatch(p, x, box, notify, FALSE), UNCHANGED <<commands, game, tokens>>
    PROVE  PairInv'
<1>1. PICK finished \in BOOLEAN : finished = FALSE OBVIOUS
<1>2. ResetMatch(p, x, box, notify, finished) /\ ~finished BY <1>1
<1>3. /\ game' \in [Players -> Games] /\ commands' \in [Players -> Seq(Commands)]
      /\ game' = game /\ commands' = commands /\ tokens' = tokens
  BY DEF PairInv, PairTypes
<1> QED BY <1>2, <1>3, ResetStep

LEMMA CancelMatchKeeps ==
    ASSUME PairInv, NEW p \in Players, CancelMatch(p)
    PROVE  PairInv'
<1>1. PICK notify \in BOOLEAN : notify = TRUE OBVIOUS
<1>2. PICK x : x = client[p] OBVIOUS
<1>3. ResetMatch(p, x, inbox, notify, FALSE) /\ UNCHANGED <<commands, game, tokens>>
  BY <1>1, <1>2 DEF CancelMatch
<1>4. Fine(p, x) /\ Alike(client[p], x) BY <1>2, FineNow DEF Alike
<1>5. BoxInv(inbox, tokens) /\ Offers(inbox) \subseteq Offers(inbox) BY Now
<1> QED BY <1>3, <1>4, <1>5, CallOff

LEMMA DeadlineKeeps ==
    ASSUME PairInv, NEW p \in Players, DeadlinePasses(p)
    PROVE  PairInv'
<1>1. PICK notify \in BOOLEAN : notify = TRUE OBVIOUS
<1>2. PICK x : x = client[p] OBVIOUS
<1>3. ResetMatch(p, x, inbox, notify, FALSE) /\ UNCHANGED <<commands, game, tokens>>
  BY <1>1, <1>2 DEF DeadlinePasses
<1>4. Fine(p, x) /\ Alike(client[p], x) BY <1>2, FineNow DEF Alike
<1>5. BoxInv(inbox, tokens) /\ Offers(inbox) \subseteq Offers(inbox) BY Now
<1> QED BY <1>3, <1>4, <1>5, CallOff

LEMMA ReceiveEndKeeps ==
    ASSUME PairInv, NEW p \in Players, ReceiveEnd(p)
    PROVE  PairInv'
<1>1. inbox[p] # <<>> /\ UNCHANGED <<commands, game, tokens>> BY DEF ReceiveEnd, Comes
<1>2. BoxInv(Taken(p), tokens) /\ Offers(Taken(p)) \subseteq Offers(inbox) BY <1>1, Reads
<1>3. CASE ResetMatch(p, client[p], Taken(p), FALSE, FALSE)
  <2>1. PICK notify \in BOOLEAN : notify = FALSE OBVIOUS
  <2>2. PICK x : x = client[p] OBVIOUS
  <2>3. PICK box : box = Taken(p) OBVIOUS
  <2>4. ResetMatch(p, x, box, notify, FALSE) BY <1>3, <2>1, <2>2, <2>3
  <2>5. Fine(p, x) /\ Alike(client[p], x) BY <2>2, FineNow DEF Alike
  <2> QED BY <1>1, <1>2, <2>3, <2>4, <2>5, CallOff
<1>4. CASE inbox' = Taken(p) /\ UNCHANGED <<client, events>> BY <1>1, <1>2, <1>4, MailStep
<1> QED BY <1>3, <1>4 DEF ReceiveEnd

LEMMA ReceiveCancelKeeps ==
    ASSUME PairInv, NEW p \in Players, ReceiveCancel(p)
    PROVE  PairInv'
<1>1. inbox[p] # <<>> /\ UNCHANGED <<commands, game, tokens>> BY DEF ReceiveCancel, Comes
<1>2. BoxInv(Taken(p), tokens) /\ Offers(Taken(p)) \subseteq Offers(inbox) BY <1>1, Reads
<1>3. PICK r : r = Asked(Incoming(p)) OBVIOUS
<1>4. PICK x : x = [client[p] EXCEPT !.incoming = @ \ {r}] OBVIOUS
<1>5. Fine(p, x) /\ Alike(client[p], x) BY <1>4, FineNow, Dismissed
<1>6. CASE ResetMatch(p, x, Taken(p), FALSE, FALSE)
  <2>1. PICK notify \in BOOLEAN : notify = FALSE OBVIOUS
  <2>2. PICK box : box = Taken(p) OBVIOUS
  <2>3. ResetMatch(p, x, box, notify, FALSE) BY <1>6, <2>1, <2>2
  <2> QED BY <1>1, <1>2, <1>5, <2>2, <2>3, CallOff
<1>7. CASE client' = [client EXCEPT ![p] = x] /\ inbox' = Taken(p) /\ UNCHANGED events
  BY <1>1, <1>2, <1>5, <1>7, QuietStep
<1> QED BY <1>3, <1>4, <1>6, <1>7 DEF ReceiveCancel

-----------------------------------------------------------------------------
(* Steps of the controller and its game, and what a client does with a command. *)

\* The step changes the player p only, who enters no match.
LEMMA SideStep ==
    ASSUME PairInv, NEW p \in Players, NEW y, NEW g \in Games, NEW ev \in Seq(Events),
           NEW cm \in Seq(Commands),
           client' = [client EXCEPT ![p] = y], game' = [game EXCEPT ![p] = g],
           events' = [events EXCEPT ![p] = ev], commands' = [commands EXCEPT ![p] = cm],
           tokens' = tokens, BoxInv(inbox', tokens), Offers(inbox') \subseteq Offers(inbox),
           Fine(p, y), Play(y, g, ev, cm),
           y.match # 0 => /\ y.match = client[p].match /\ y.selected = client[p].selected
                          /\ y.host = client[p].host,
           \A i \in DOMAIN cm : \/ \E j \in DOMAIN commands[p] : cm[i].match = commands[p][j].match
                                \/ cm[i].match = client[p].match
    PROVE  PairInv'
<1>1. PairTypes /\ tokens \in Nat /\ Below(tokens, client[p], commands[p]) BY DEF PairInv, PairTypes
<1>2. /\ client'[p] = y /\ game'[p] = g /\ events'[p] = ev /\ commands'[p] = cm
      /\ Rest(p)
  BY <1>1 DEF PairTypes, Rest
<1>3. PairTypes' BY <1>1 DEF PairTypes, Fine
<1>4. Below(tokens', y, commands'[p])
  <2>1. client[p].match \in Nat /\ y.match \in Nat BY <1>1 DEF PairTypes, Clients, Fine
  <2>2. \A j \in DOMAIN commands[p] : commands[p][j].match <= tokens BY <1>1 DEF Below
  <2>3. y.match <= tokens
    <3>1. CASE y.match = 0 BY <1>1, <3>1
    <3>2. CASE y.match # 0 BY <1>1, <3>2 DEF Below
    <3> QED BY <3>1, <3>2
  <2>4. \A i \in DOMAIN cm : cm[i].match <= tokens BY <1>1, <2>2 DEF Below
  <2> QED BY <1>2, <2>3, <2>4 DEF Below
<1>5. Own(p, y) BY <1>2, <1>4 DEF Own, Fine
<1>6. tokens <= tokens' /\ BoxInv(inbox', tokens') BY <1>1
<1> QED BY <1>2, <1>3, <1>5, <1>6, OldMatch

LEMMA Same ==
    ASSUME PairInv, NEW p \in Players
    PROVE  /\ client = [client EXCEPT ![p] = client[p]] /\ game = [game EXCEPT ![p] = game[p]]
           /\ events = [events EXCEPT ![p] = events[p]]
           /\ commands = [commands EXCEPT ![p] = commands[p]]
BY DEF PairInv, PairTypes

\* The same when only the controller and its game do something.
LEMMA ControllerStep ==
    ASSUME PairInv, NEW p \in Players, NEW g \in Games, NEW ev \in Seq(Events), NEW cm \in Seq(Commands),
           UNCHANGED <<client, inbox, tokens>>, game' = [game EXCEPT ![p] = g],
           events' = [events EXCEPT ![p] = ev], commands' = [commands EXCEPT ![p] = cm],
           Play(client[p], g, ev, cm),
           \A i \in DOMAIN cm : \/ \E j \in DOMAIN commands[p] : cm[i].match = commands[p][j].match
                                \/ cm[i].match = client[p].match
    PROVE  PairInv'
<1>1. PICK y : y = client[p] OBVIOUS
<1>2. client' = [client EXCEPT ![p] = y] BY <1>1, Same
<1>3. Fine(p, y) BY <1>1, FineNow
<1>4. BoxInv(inbox', tokens) /\ Offers(inbox') \subseteq Offers(inbox) /\ tokens' = tokens BY Now
<1>5. Play(y, g, ev, cm) BY <1>1
<1>6. y.match # 0 => /\ y.match = client[p].match /\ y.selected = client[p].selected
                     /\ y.host = client[p].host
  BY <1>1
<1> QED BY <1>2, <1>3, <1>4, <1>5, <1>6, SideStep

\* A game that goes on or ends: the promise about it holds, a fortiori.
LEMMA PlayDrops ==
    ASSUME NEW x, NEW g, NEW h, NEW ev, NEW cm, Play(x, g, ev, cm),
           Runs(h) => Runs(g) /\ h.match = g.match
    PROVE  Play(x, h, ev, cm)
BY DEF Play

LEMMA PlayReads ==
    ASSUME NEW x, NEW g, NEW ev, NEW cm \in Seq(Commands), cm # <<>>, Play(x, g, ev, cm)
    PROVE  Play(x, g, ev, Tail(cm))
BY TailCommands DEF Play

LEMMA PlayHears ==
    ASSUME NEW x, NEW g, NEW ev \in Seq(Events), ev # <<>>, NEW cm, Play(x, g, ev, cm)
    PROVE  Play(x, g, Tail(ev), cm)
BY TailLaunches DEF Play

\* A launch that is taken: the game runs or waits, or its end is reported.
LEMMA PlayLaunches ==
    ASSUME NEW x, NEW g, NEW ev \in Seq(Events), ev # <<>>, Head(ev).type = "launch", NEW cm,
           Play(x, g, ev, cm)
    PROVE  /\ Head(ev).match = x.match
           /\ \A h, c : /\ Runs(h) => h.match = x.match
                        /\ Runs(h) => c = cm
                        => Play(x, h, Tail(ev), c)
<1>1. ~NoLaunch(ev)
  <2>1. Head(ev) = ev[1] /\ 1 \in DOMAIN ev BY TailFacts
  <2> QED BY <2>1 DEF NoLaunch
<1>2. x.launched /\ OneLaunch(ev, x.match) /\ x.match # 0 /\ ~Runs(g) /\ x.state # "confirming"
  BY <1>1 DEF Play
<1>3. NoFinish(cm, x.match) BY <1>1, <1>2 DEF Play
<1>4. Head(ev).match = x.match /\ NoLaunch(Tail(ev)) /\ OneLaunch(Tail(ev), x.match)
  BY <1>2, TailLaunches
<1>5. ASSUME NEW h, NEW c, Runs(h) => h.match = x.match, Runs(h) => c = cm
      PROVE  Play(x, h, Tail(ev), c)
  BY <1>2, <1>3, <1>4, <1>5 DEF Play
<1> QED BY <1>4, <1>5

\* A game that runs ends and is reported, or something else is reported of it.
LEMMA PlayReports ==
    ASSUME NEW x, NEW g, Runs(g), NEW ev, NEW cm \in Seq(Commands), Play(x, g, ev, cm),
           NEW h, Runs(h) => h.match = g.match, NEW c \in Commands, c.match = g.match,
           Runs(h) => c.type # "finished"
    PROVE  /\ g.match = x.match
           /\ Play(x, h, ev, Append(cm, c))
<1>1. /\ x.launched /\ g.match = x.match /\ NoLaunch(ev) /\ OneLaunch(ev, x.match) /\ x.match # 0
      /\ x.state # "confirming" /\ NoFinish(cm, x.match)
  BY DEF Play
<1>2. CASE Runs(h)
  <2>1. NoFinish(Append(cm, c), x.match) BY <1>1, <1>2, CommandAdded
  <2> QED BY <1>1, <1>2, <2>1 DEF Play
<1>3. CASE ~Runs(h) BY <1>1, <1>3 DEF Play
<1> QED BY <1>1, <1>2, <1>3

\* The commands that are there, and one about the match of the player.
LEMMA Reported ==
    ASSUME PairInv, NEW p \in Players, NEW c \in Commands, c.match = client[p].match, NEW cm,
           cm = Append(commands[p], c)
    PROVE  /\ cm \in Seq(Commands)
           /\ \A i \in DOMAIN cm : \/ \E j \in DOMAIN commands[p] : cm[i].match = commands[p][j].match
                                   \/ cm[i].match = client[p].match
<1>1. commands[p] \in Seq(Commands) BY Now
<1>2. /\ cm \in Seq(Commands)
      /\ \A i \in DOMAIN cm : (\E j \in DOMAIN commands[p] : cm[i] = commands[p][j]) \/ cm[i] = c
  BY <1>1, CommandAdded
<1> QED BY <1>2

LEMMA TakeLaunchKeeps ==
    ASSUME PairInv, NEW p \in Players, TakeLaunch(p)
    PROVE  PairInv'
<1>1. /\ Play(client[p], game[p], events[p], commands[p]) /\ game[p] \in Games
      /\ events[p] \in Seq(Events) /\ commands[p] \in Seq(Commands)
  BY Now
<1>2. /\ events[p] # <<>> /\ Head(events[p]).type = "launch" /\ UNCHANGED <<client, inbox, tokens>>
      /\ events' = [events EXCEPT ![p] = Tail(@)]
  BY DEF TakeLaunch, Event, EventTaken
<1>3. PICK ev : ev = Tail(events[p]) OBVIOUS
<1>4. ev \in Seq(Events) /\ Head(events[p]) \in Events BY <1>1, <1>2, <1>3, TailFacts
<1>5. PICK m \in Nat : m = Head(events[p]).match BY <1>4 DEF Events
<1>6. /\ m = client[p].match
      /\ \A h, c : /\ Runs(h) => h.match = client[p].match
                   /\ Runs(h) => c = commands[p]
                   => Play(client[p], h, ev, c)
  BY <1>1, <1>2, <1>3, <1>5, PlayLaunches
<1>7. events' = [events EXCEPT ![p] = ev] BY <1>2, <1>3
<1>8. ASSUME NEW h \in Games, Runs(h), h.match = m, game' = [game EXCEPT ![p] = h],
             UNCHANGED commands
      PROVE  PairInv'
  <2>1. Play(client[p], h, ev, commands[p]) BY <1>6, <1>8
  <2>2. commands' = [commands EXCEPT ![p] = commands[p]] BY <1>8, Same
  <2>3. UNCHANGED <<client, inbox, tokens>> BY <1>2
  <2>4. \A i \in DOMAIN commands[p] :
           \/ \E j \in DOMAIN commands[p] : commands[p][i].match = commands[p][j].match
           \/ commands[p][i].match = client[p].match
    OBVIOUS
  <2>5. commands[p] \in Seq(Commands) BY <1>1
  <2> QED BY <1>4, <1>7, <1>8, <2>1, <2>2, <2>3, <2>4, <2>5, ControllerStep
<1>9. ASSUME NEW h \in Games, ~Runs(h), game' = [game EXCEPT ![p] = h], Report(p, "finished", m)
      PROVE  PairInv'
  <2>1. PICK c : c = [type |-> "finished", match |-> m] OBVIOUS
  <2>2. c \in Commands /\ c.match = client[p].match BY <1>5, <1>6, <2>1 DEF Commands
  <2>3. PICK cm : cm = Append(commands[p], c) OBVIOUS
  <2>4. commands' = [commands EXCEPT ![p] = cm] BY <1>9, <2>1, <2>3 DEF Report
  <2>5. Play(client[p], h, ev, cm) BY <1>6, <1>9
  <2>6. /\ cm \in Seq(Commands)
        /\ \A i \in DOMAIN cm : \/ \E j \in DOMAIN commands[p] : cm[i].match = commands[p][j].match
                                \/ cm[i].match = client[p].match
    BY <2>2, <2>3, Reported
  <2>7. UNCHANGED <<client, inbox, tokens>> BY <1>2
  <2> QED BY <1>4, <1>7, <1>9, <2>4, <2>5, <2>6, <2>7, ControllerStep
<1>10. PICK running \in Games : running = [phase |-> "running", match |-> m] BY DEF Games
<1>11. PICK pending \in Games : pending = [phase |-> "pending", match |-> m] BY DEF Games
<1>12. PICK none \in Games : none = [phase |-> "none", match |-> 0] BY DEF Games
<1>13. /\ Runs(running) /\ running.match = m /\ Runs(pending) /\ pending.match = m
       /\ ~Runs(none)
  BY <1>10, <1>11, <1>12 DEF Runs
<1>14. \/ game' = [game EXCEPT ![p] = running] /\ UNCHANGED commands
       \/ game' = [game EXCEPT ![p] = none] /\ Report(p, "finished", m)
       \/ game' = [game EXCEPT ![p] = pending] /\ UNCHANGED commands
  BY <1>5, <1>10, <1>11, <1>12 DEF TakeLaunch, Launch
<1> QED BY <1>8, <1>9, <1>13, <1>14

LEMMA TrainingClosesKeeps ==
    ASSUME PairInv, NEW p \in Players, TrainingCloses(p)
    PROVE  PairInv'
<1>1. /\ Play(client[p], game[p], events[p], commands[p]) /\ game[p] \in Games
      /\ events[p] \in Seq(Events) /\ commands[p] \in Seq(Commands)
  BY Now
<1>2. /\ game[p].phase = "pending" /\ UNCHANGED <<client, inbox, events, tokens>>
      /\ events' = [events EXCEPT ![p] = events[p]]
  BY Same DEF TrainingCloses
<1>3. Runs(game[p]) BY <1>2 DEF Runs
<1>4. PICK m \in Nat : m = game[p].match BY <1>1 DEF Games
<1>5. m = client[p].match BY <1>1, <1>3, <1>4 DEF Play
<1>6. PICK running \in Games : running = [phase |-> "running", match |-> m] BY DEF Games
<1>7. PICK none \in Games : none = [phase |-> "none", match |-> 0] BY DEF Games
<1>8. Runs(running) /\ running.match = m /\ ~Runs(none) BY <1>6, <1>7 DEF Runs
<1>9. CASE game' = [game EXCEPT ![p] = running] /\ UNCHANGED commands
  <2>1. Play(client[p], running, events[p], commands[p]) BY <1>1, <1>3, <1>4, <1>8, PlayDrops
  <2>2. commands' = [commands EXCEPT ![p] = commands[p]] BY <1>9, Same
  <2> QED BY <1>1, <1>2, <1>9, <2>1, <2>2, ControllerStep
<1>10. CASE game' = [game EXCEPT ![p] = none] /\ Report(p, "finished", m)
  <2>1. PICK c : c = [type |-> "finished", match |-> m] OBVIOUS
  <2>2. c \in Commands /\ c.match = client[p].match /\ c.match = game[p].match
    BY <1>4, <1>5, <2>1 DEF Commands
  <2>3. PICK cm : cm = Append(commands[p], c) OBVIOUS
  <2>4. commands' = [commands EXCEPT ![p] = cm] BY <1>10, <2>1, <2>3 DEF Report
  <2>5. Play(client[p], none, events[p], cm) BY <1>1, <1>3, <1>8, <2>2, <2>3, PlayReports
  <2>6. /\ cm \in Seq(Commands)
        /\ \A i \in DOMAIN cm : \/ \E j \in DOMAIN commands[p] : cm[i].match = commands[p][j].match
                                \/ cm[i].match = client[p].match
    <3>1. c \in Commands /\ c.match = client[p].match BY <2>2
    <3> QED BY <2>3, <3>1, Reported
  <2>7. UNCHANGED <<client, inbox, tokens>> /\ events[p] \in Seq(Events) BY <1>1, <1>2
  <2>8. events' = [events EXCEPT ![p] = events[p]] BY <1>2
  <2> QED BY <1>10, <2>4, <2>5, <2>6, <2>7, <2>8, ControllerStep
<1> QED BY <1>4, <1>6, <1>7, <1>9, <1>10 DEF TrainingCloses, Launch

LEMMA TakeAbortKeeps ==
    ASSUME PairInv, NEW p \in Players, TakeAbort(p)
    PROVE  PairInv'
<1>1. /\ Play(client[p], game[p], events[p], commands[p]) /\ game[p] \in Games
      /\ events[p] \in Seq(Events) /\ commands[p] \in Seq(Commands)
  BY Now
<1>2. /\ events[p] # <<>> /\ UNCHANGED <<client, inbox, commands, tokens>>
      /\ events' = [events EXCEPT ![p] = Tail(@)]
      /\ commands' = [commands EXCEPT ![p] = commands[p]]
  BY Same DEF TakeAbort, Event, EventTaken
<1>3. PICK ev : ev = Tail(events[p]) OBVIOUS
<1>4. ev \in Seq(Events) BY <1>1, <1>2, <1>3, TailFacts
<1>5. events' = [events EXCEPT ![p] = ev] BY <1>2, <1>3
<1>6. PICK g \in Games : /\ game' = [game EXCEPT ![p] = g]
                         /\ Runs(g) => Runs(game[p]) /\ g.match = game[p].match
  <2>1. CASE UNCHANGED game BY <1>1, <2>1, Same
  <2>2. CASE Goes(p, IF game[p].phase = "pending" THEN "dropped" ELSE "cancelled")
             /\ game[p].phase \in {"pending", "running", "ready"}
    <3>1. PICK g : g = [game[p] EXCEPT !.phase = IF game[p].phase = "pending" THEN "dropped"
                                                 ELSE "cancelled"]
      OBVIOUS
    <3>2. g \in Games /\ g.match = game[p].match BY <1>1, <3>1 DEF Games
    <3>3. Runs(game[p]) BY <2>2 DEF Runs
    <3>4. game' = [game EXCEPT ![p] = g] BY <2>2, <3>1 DEF Goes
    <3> QED BY <3>2, <3>3, <3>4
  <2> QED BY <2>1, <2>2 DEF TakeAbort
<1>7. Play(client[p], g, events[p], commands[p]) BY <1>1, <1>6, PlayDrops
<1>8. Play(client[p], g, ev, commands[p]) BY <1>1, <1>2, <1>3, <1>7, PlayHears
<1> QED BY <1>1, <1>2, <1>4, <1>5, <1>6, <1>8, ControllerStep

LEMMA GameEndsKeeps ==
    ASSUME PairInv, NEW p \in Players, GameEnds(p)
    PROVE  PairInv'
<1>1. /\ Play(client[p], game[p], events[p], commands[p]) /\ game[p] \in Games
      /\ events[p] \in Seq(Events) /\ commands[p] \in Seq(Commands)
  BY Now
<1>2. /\ UNCHANGED <<client, inbox, tokens>> /\ Runs(game[p])
      /\ events' = [events EXCEPT ![p] = events[p]]
      /\ commands' = [commands EXCEPT ![p] = commands[p]]
  BY Same DEF GameEnds, Runs
<1>3. PICK g : g = [game[p] EXCEPT !.phase = "over"] OBVIOUS
<1>4. g \in Games /\ g.match = game[p].match BY <1>1, <1>3 DEF Games
<1>5. game' = [game EXCEPT ![p] = g] BY <1>3 DEF GameEnds, Goes
<1>6. Play(client[p], g, events[p], commands[p]) BY <1>1, <1>2, <1>4, PlayDrops
<1> QED BY <1>1, <1>2, <1>4, <1>5, <1>6, ControllerStep

\* The controller reports something of the game.
LEMMA ReportStep ==
    ASSUME PairInv, NEW p \in Players, Runs(game[p]), UNCHANGED <<client, inbox, events, tokens>>,
           NEW g \in Games, game' = [game EXCEPT ![p] = g], Runs(g) => g.match = game[p].match,
           NEW type \in {"host_ready", "playing", "finished"}, Report(p, type, game[p].match),
           Runs(g) => type # "finished"
    PROVE  PairInv'
<1>1. /\ Play(client[p], game[p], events[p], commands[p]) /\ game[p] \in Games
      /\ events[p] \in Seq(Events) /\ commands[p] \in Seq(Commands)
  BY Now
<1>2. events' = [events EXCEPT ![p] = events[p]] BY Same
<1>3. PICK c : c = [type |-> type, match |-> game[p].match] OBVIOUS
<1>4. c \in Commands /\ c.match = game[p].match /\ c.type = type
  BY <1>1, <1>3 DEF Commands, Games
<1>5. PICK cm : cm = Append(commands[p], c) OBVIOUS
<1>6. commands' = [commands EXCEPT ![p] = cm] BY <1>3, <1>5 DEF Report
<1>7. game[p].match = client[p].match /\ Play(client[p], g, events[p], cm)
  BY <1>1, <1>4, <1>5, PlayReports
<1>8. /\ cm \in Seq(Commands)
      /\ \A i \in DOMAIN cm : \/ \E j \in DOMAIN commands[p] : cm[i].match = commands[p][j].match
                              \/ cm[i].match = client[p].match
  BY <1>4, <1>5, <1>7, Reported
<1>9. events[p] \in Seq(Events) BY <1>1
<1> QED BY <1>2, <1>6, <1>7, <1>8, <1>9, ControllerStep

LEMMA ReportsKeep ==
    ASSUME PairInv, NEW p \in Players, ReportCode(p) \/ ReportPlaying(p) \/ ReportEnd(p)
    PROVE  PairInv'
<1>1. game[p] \in Games BY Now
<1>2. CASE ReportCode(p)
  <2>1. PICK g : g = [game[p] EXCEPT !.phase = "ready"] OBVIOUS
  <2>2. g \in Games /\ g.match = game[p].match /\ game' = [game EXCEPT ![p] = g]
    BY <1>1, <1>2, <2>1 DEF Games, ReportCode, Goes
  <2>3. PICK type \in {"host_ready", "playing", "finished"} : type = "host_ready" OBVIOUS
  <2>4. /\ Runs(game[p]) /\ UNCHANGED <<client, inbox, events, tokens>>
        /\ Report(p, type, game[p].match) /\ type # "finished"
    BY <1>2, <2>3 DEF ReportCode, Runs
  <2> QED BY <2>2, <2>4, ReportStep
<1>3. CASE ReportPlaying(p)
  <2>1. PICK g : g = [game[p] EXCEPT !.phase = "playing"] OBVIOUS
  <2>2. g \in Games /\ g.match = game[p].match /\ game' = [game EXCEPT ![p] = g]
    BY <1>1, <1>3, <2>1 DEF Games, ReportPlaying, Goes
  <2>3. PICK type \in {"host_ready", "playing", "finished"} : type = "playing" OBVIOUS
  <2>4. /\ Runs(game[p]) /\ UNCHANGED <<client, inbox, events, tokens>>
        /\ Report(p, type, game[p].match) /\ type # "finished"
    BY <1>3, <2>3 DEF ReportPlaying, Runs
  <2> QED BY <2>2, <2>4, ReportStep
<1>4. CASE ReportEnd(p)
  <2>1. PICK g : g = [phase |-> "none", match |-> 0] OBVIOUS
  <2>2. g \in Games /\ ~Runs(g) /\ game' = [game EXCEPT ![p] = g]
    BY <1>4, <2>1 DEF Games, ReportEnd, Runs
  <2>3. PICK type \in {"host_ready", "playing", "finished"} : type = "finished" OBVIOUS
  <2>4. /\ Runs(game[p]) /\ UNCHANGED <<client, inbox, events, tokens>>
        /\ Report(p, type, game[p].match)
    BY <1>4, <2>3 DEF ReportEnd, Runs
  <2> QED BY <2>2, <2>4, ReportStep
<1> QED BY <1>2, <1>3, <1>4

-----------------------------------------------------------------------------
(* Commands, launches, offers, and the end of a registration. *)

LEMMA Obeys ==
    ASSUME PairInv, NEW p \in Players, commands[p] # <<>>, CommandTaken(p), NEW cm,
           cm = Tail(commands[p])
    PROVE  /\ cm \in Seq(Commands) /\ commands' = [commands EXCEPT ![p] = cm]
           /\ Play(client[p], game[p], events[p], cm)
           /\ \A i \in DOMAIN cm : \/ \E j \in DOMAIN commands[p] : cm[i].match = commands[p][j].match
                                   \/ cm[i].match = client[p].match
           /\ commands' \in [Players -> Seq(Commands)] /\ commands'[p] = cm
           /\ \A q \in Players \ {p} : commands'[q] = commands[q]
<1>1. commands[p] \in Seq(Commands) /\ Play(client[p], game[p], events[p], commands[p]) BY Now
<1>2. cm \in Seq(Commands) /\ \A i \in DOMAIN cm : \E j \in DOMAIN commands[p] : cm[i] = commands[p][j]
  BY <1>1, TailCommands
<1>3. commands' = [commands EXCEPT ![p] = cm] BY DEF CommandTaken
<1>4. Play(client[p], game[p], events[p], cm) BY <1>1, PlayReads
<1>5. commands \in [Players -> Seq(Commands)] BY DEF PairInv, PairTypes
<1>6. /\ commands' \in [Players -> Seq(Commands)] /\ commands'[p] = cm
      /\ \A q \in Players \ {p} : commands'[q] = commands[q]
  BY <1>2, <1>3, <1>5
<1> QED BY <1>2, <1>3, <1>4, <1>6

\* A command is taken, and no match is entered or left.
LEMMA ObeyStep ==
    ASSUME PairInv, NEW p \in Players, commands[p] # <<>>, CommandTaken(p), NEW y, Fine(p, y),
           Alike(client[p], y), client' = [client EXCEPT ![p] = y],
           UNCHANGED <<events, game, tokens>>,
           BoxInv(inbox', tokens), Offers(inbox') \subseteq Offers(inbox)
    PROVE  PairInv'
<1>1. PICK cm : cm = Tail(commands[p]) OBVIOUS
<1>2. /\ cm \in Seq(Commands) /\ commands' = [commands EXCEPT ![p] = cm]
      /\ Play(client[p], game[p], events[p], cm)
      /\ \A i \in DOMAIN cm : \/ \E j \in DOMAIN commands[p] : cm[i].match = commands[p][j].match
                              \/ cm[i].match = client[p].match
  <2>1. PairInv /\ commands[p] # <<>> /\ CommandTaken(p) OBVIOUS
  <2>2. /\ cm \in Seq(Commands) /\ commands' = [commands EXCEPT ![p] = cm]
        /\ Play(client[p], game[p], events[p], cm)
    BY ONLY p \in Players, <1>1, <2>1, Obeys
  <2>3. ASSUME NEW i \in DOMAIN cm
        PROVE  \/ \E j \in DOMAIN commands[p] : cm[i].match = commands[p][j].match
               \/ cm[i].match = client[p].match
    BY ONLY p \in Players, <1>1, <2>1, <2>3, Obeys
  <2> QED BY ONLY <2>2, <2>3
<1>3. Play(y, game[p], events[p], cm) BY <1>2, PlayAlike
<1>4. game[p] \in Games /\ events[p] \in Seq(Events) BY Now
<1>5. events' = [events EXCEPT ![p] = events[p]] /\ game' = [game EXCEPT ![p] = game[p]] BY Same
<1>6. y.match # 0 => /\ y.match = client[p].match /\ y.selected = client[p].selected
                     /\ y.host = client[p].host
  BY DEF Alike
<1>7. tokens' = tokens OBVIOUS
<1> QED BY <1>2, <1>3, <1>4, <1>5, <1>6, <1>7, SideStep

LEMMA TakePlayingKeeps ==
    ASSUME PairInv, NEW p \in Players, TakePlaying(p)
    PROVE  PairInv'
<1>1. /\ commands[p] # <<>> /\ CommandTaken(p) /\ UNCHANGED <<inbox, events, game, tokens>>
      /\ \/ client' = [client EXCEPT ![p].state = "playing", ![p].deadline = FALSE]
         \/ client' = client
  BY DEF TakePlaying, Command
<1>2. BoxInv(inbox', tokens) /\ Offers(inbox') \subseteq Offers(inbox) BY <1>1, Now
<1>3. Fine(p, client[p]) BY FineNow
<1>4. PICK y : /\ client' = [client EXCEPT ![p] = y]
               /\ y = [client[p] EXCEPT !.state = "playing", !.deadline = FALSE] \/ y = client[p]
  <2>1. CASE client' = client
    <3>1. client' = [client EXCEPT ![p] = client[p]] BY <2>1, Same
    <3> QED BY <3>1
  <2>2. CASE client' = [client EXCEPT ![p].state = "playing", ![p].deadline = FALSE]
    <3>1. PICK z : z = [client[p] EXCEPT !.state = "playing", !.deadline = FALSE] OBVIOUS
    <3>2. client \in [Players -> Clients] BY DEF PairInv, PairTypes
    <3>3. client' = [client EXCEPT ![p] = z] BY ONLY p \in Players, <2>2, <3>1, <3>2
    <3> QED BY <3>1, <3>3
  <2> QED BY <1>1, <2>1, <2>2
<1>5. /\ y \in Clients /\ Alike(client[p], y) /\ y.incoming = client[p].incoming
      /\ y.outgoing = client[p].outgoing
  BY <1>3, <1>4 DEF Fine, Clients, Alike
<1>6. Fine(p, y) BY <1>3, <1>5, Untouched DEF Alike
<1> QED BY <1>1, <1>2, <1>4, <1>5, <1>6, ObeyStep

LEMMA TakeFinishedKeeps ==
    ASSUME PairInv, NEW p \in Players, TakeFinished(p)
    PROVE  PairInv'
<1>1. /\ commands[p] # <<>> /\ CommandTaken(p) /\ UNCHANGED <<game, tokens>>
      /\ Head(commands[p]).type = "finished"
  BY DEF TakeFinished, Command
<1>2. PICK x : x = client[p] OBVIOUS
<1>3. Fine(p, x) /\ Alike(client[p], x) BY <1>2, FineNow DEF Alike
<1>4. BoxInv(inbox, tokens) /\ Offers(inbox) \subseteq Offers(inbox) BY Now
<1>5. CASE Meant(p) /\ ResetMatch(p, client[p], inbox, TRUE, TRUE)
  <2>1. PICK notify \in BOOLEAN : notify = TRUE OBVIOUS
  <2>2. PICK finished \in BOOLEAN : finished = TRUE OBVIOUS
  <2>3. ResetMatch(p, x, inbox, notify, finished) BY <1>2, <1>5, <2>1, <2>2
  <2>4. ~NoFinish(commands[p], x.match)
    <3>1. Head(commands[p]) = commands[p][1] /\ 1 \in DOMAIN commands[p]
      BY <1>1, Now, TailFacts
    <3> QED BY <1>1, <1>2, <1>5, <3>1 DEF NoFinish, Meant
  <2>5. PICK cm : cm = Tail(commands[p]) OBVIOUS
  <2>6. /\ commands' \in [Players -> Seq(Commands)] /\ commands'[p] = cm
        /\ \A q \in Players \ {p} : commands'[q] = commands[q]
    BY <1>1, <2>5, Obeys
  <2>7. commands[p] # <<>> /\ commands'[p] = Tail(commands[p]) BY <1>1, <2>5, <2>6
  <2>8. game' \in [Players -> Games] /\ game' = game BY <1>1 DEF PairInv, PairTypes
  <2>9. tokens' = tokens BY <1>1
  <2> QED BY <1>3, <1>4, <2>3, <2>4, <2>6, <2>7, <2>8, <2>9, ResetStep
<1>6. CASE UNCHANGED <<client, inbox, events>>
  <2>1. client' = [client EXCEPT ![p] = x] BY <1>2, <1>6, Same
  <2>2. BoxInv(inbox', tokens) /\ Offers(inbox') \subseteq Offers(inbox) BY <1>4, <1>6
  <2> QED BY <1>1, <1>3, <1>6, <2>1, <2>2, ObeyStep
<1> QED BY <1>5, <1>6 DEF TakeFinished

LEMMA TakeHostReadyKeeps ==
    ASSUME PairInv, NEW p \in Players, TakeHostReady(p)
    PROVE  PairInv'
<1>1. commands[p] # <<>> /\ CommandTaken(p) /\ UNCHANGED <<game, tokens>>
  BY DEF TakeHostReady, Command
<1>2. PICK x : x = [client[p] EXCEPT !.code = TRUE] OBVIOUS
<1>3. Fine(p, client[p]) /\ Alike(client[p], client[p]) BY FineNow DEF Alike
<1>4. /\ x \in Clients /\ Alike(client[p], x) /\ x.incoming = client[p].incoming
      /\ x.outgoing = client[p].outgoing
  BY <1>2, <1>3 DEF Fine, Clients, Alike
<1>5. Fine(p, x) BY <1>3, <1>4, Untouched DEF Alike
<1>6. BoxInv(inbox, tokens) /\ Offers(inbox) \subseteq Offers(inbox) /\ tokens \in Nat BY Now
<1>7. CASE UNCHANGED <<client, inbox, events>>
  <2>1. client' = [client EXCEPT ![p] = client[p]] BY <1>7, Same
  <2>2. BoxInv(inbox', tokens) /\ Offers(inbox') \subseteq Offers(inbox) BY <1>6, <1>7
  <2> QED BY <1>1, <1>3, <1>7, <2>1, <2>2, ObeyStep
<1>8. ASSUME NEW arrived \in BOOLEAN, NEW box, x.match # 0,
             box = Sent(inbox, IF arrived
                        THEN {Message("connect", p, x.selected.peer, x.selected.id, x.match)} ELSE {}),
             \/ client' = [client EXCEPT ![p] = x] /\ inbox' = box /\ UNCHANGED events
             \/ ResetMatch(p, x, box, TRUE, FALSE)
      PROVE  PairInv'
  <2>1. Polite(IF arrived
               THEN {Message("connect", p, x.selected.peer, x.selected.id, x.match)} ELSE {})
    <3>1. /\ x.selected.peer \in Players /\ x.selected.peer # p /\ x.selected.id \in Nat
          /\ x.match \in Nat
      BY <1>4, <1>5, <1>8 DEF Fine, Strangers, OneEach, Clients, Requests
    <3>2. "connect" \in {"invite", "reply", "cancel", "confirm", "connect", "end"} OBVIOUS
    <3> QED BY <3>1, <3>2, PoliteOne, PoliteSets
  <2>2. BoxInv(box, tokens) /\ Offers(box) \subseteq Offers(inbox)
    BY <1>6, <1>8, <2>1, PoliteKeeps
  <2>3. CASE client' = [client EXCEPT ![p] = x] /\ inbox' = box /\ UNCHANGED events
    BY <1>1, <1>4, <1>5, <2>2, <2>3, ObeyStep
  <2>4. CASE ResetMatch(p, x, box, TRUE, FALSE)
    <3>1. PICK notify \in BOOLEAN : notify = TRUE OBVIOUS
    <3>2. PICK finished \in BOOLEAN : finished = FALSE OBVIOUS
    <3>3. ResetMatch(p, x, box, notify, finished) /\ ~finished BY <2>4, <3>1, <3>2
    <3>4. PICK cm : cm = Tail(commands[p]) OBVIOUS
    <3>5. /\ commands' \in [Players -> Seq(Commands)] /\ commands'[p] = cm
          /\ \A q \in Players \ {p} : commands'[q] = commands[q]
      BY <1>1, <3>4, Obeys
    <3>6. commands[p] # <<>> /\ commands'[p] = Tail(commands[p]) BY <1>1, <3>4, <3>5
    <3>7. game' \in [Players -> Games] /\ game' = game BY <1>1 DEF PairInv, PairTypes
    <3>8. tokens' = tokens BY <1>1
    <3> QED BY <1>4, <1>5, <2>2, <3>3, <3>5, <3>6, <3>7, <3>8, ResetStep
  <2> QED BY <1>8, <2>3, <2>4
<1>9. x.match = client[p].match BY <1>4 DEF Alike
<1> QED BY <1>2, <1>7, <1>8, <1>9 DEF TakeHostReady, Meant

LEMMA PlayStarts ==
    ASSUME NEW x, NEW y, NEW g, NEW ev \in Seq(Events), NEW cm, Play(x, g, ev, cm),
           x.match # 0, x.state = "confirming", y.match = x.match, y.launched, y.state = "connecting",
           NEW e \in Events, e.match = x.match
    PROVE  Append(ev, e) \in Seq(Events) /\ Play(y, g, Append(ev, e), cm)
<1>1. ~x.launched /\ NoLaunch(ev) /\ ~Runs(g) /\ NoFinish(cm, x.match) BY DEF Play
<1>2. Append(ev, e) \in Seq(Events) /\ OneLaunch(Append(ev, e), x.match) BY <1>1, LaunchAdded
<1> QED BY <1>1, <1>2 DEF Play

\* A launch: neither the game nor an earlier launch is in the way.
LEMMA LaunchStep ==
    ASSUME PairInv, NEW p \in Players, NEW code \in BOOLEAN, client[p].match # 0,
           client[p].state = "confirming", Launching(p, code),
           UNCHANGED <<commands, game, tokens>>,
           BoxInv(inbox', tokens), Offers(inbox') \subseteq Offers(inbox)
    PROVE  PairInv'
<1>1. /\ Play(client[p], game[p], events[p], commands[p]) /\ game[p] \in Games
      /\ events[p] \in Seq(Events) /\ commands[p] \in Seq(Commands)
  BY Now
<1>2. PICK x : x = client[p] OBVIOUS
<1>3. Fine(p, x) BY <1>2, FineNow
<1>4. PICK y : y = [x EXCEPT !.state = "connecting", !.launched = TRUE, !.code = code] OBVIOUS
<1>5. /\ y \in Clients /\ y.match = x.match /\ y.selected = x.selected /\ y.host = x.host
      /\ y.incoming = x.incoming /\ y.outgoing = x.outgoing
      /\ y.launched /\ y.state = "connecting"
  BY <1>3, <1>4 DEF Fine, Clients
<1>6. Fine(p, y) BY <1>3, <1>5, Untouched
<1>7. client' = [client EXCEPT ![p] = y]
  <2>1. client' = [client EXCEPT ![p].state = "connecting", ![p].launched = TRUE, ![p].code = code]
    BY DEF Launching
  <2>2. client \in [Players -> Clients] BY DEF PairInv, PairTypes
  <2> QED BY ONLY p \in Players, <1>2, <1>4, <2>1, <2>2
<1>8. PICK e : e = [type |-> "launch", match |-> x.match, host |-> x.host] OBVIOUS
<1>9. e \in Events /\ e.match = x.match BY <1>3, <1>8 DEF Fine, Clients, Events
<1>10. PICK ev : ev = Append(events[p], e) OBVIOUS
<1>11. events' = [events EXCEPT ![p] = ev] BY <1>2, <1>8, <1>10 DEF Launching
<1>12. x.match # 0 /\ x.state = "confirming" /\ Play(x, game[p], events[p], commands[p])
  BY <1>1, <1>2
<1>13. ev \in Seq(Events) /\ Play(y, game[p], ev, commands[p])
  <2>1. events[p] \in Seq(Events) BY <1>1
  <2> QED BY <1>5, <1>9, <1>10, <1>12, <2>1, PlayStarts
<1>14. game' = [game EXCEPT ![p] = game[p]] /\ commands' = [commands EXCEPT ![p] = commands[p]]
  BY Same
<1>15. y.match # 0 => /\ y.match = client[p].match /\ y.selected = client[p].selected
                      /\ y.host = client[p].host
  BY <1>2, <1>5
<1>16. game[p] \in Games /\ commands[p] \in Seq(Commands) /\ tokens' = tokens BY <1>1
<1>17. \A i \in DOMAIN commands[p] :
          \/ \E j \in DOMAIN commands[p] : commands[p][i].match = commands[p][j].match
          \/ commands[p][i].match = client[p].match
  OBVIOUS
<1> QED BY <1>6, <1>7, <1>11, <1>13, <1>14, <1>15, <1>16, <1>17, SideStep

LEMMA ReceiveConfirmKeeps ==
    ASSUME PairInv, NEW p \in Players, ReceiveConfirm(p) \/ ReceiveConnect(p)
    PROVE  PairInv'
<1>1. /\ inbox[p] # <<>> /\ inbox' = Taken(p) /\ UNCHANGED <<commands, game, tokens>>
      /\ \/ UNCHANGED <<client, events>>
         \/ /\ Active(p, Incoming(p)) /\ client[p].state = "confirming"
            /\ Launching(p, FALSE) \/ Launching(p, TRUE)
  BY DEF ReceiveConfirm, ReceiveConnect, Comes
<1>2. BoxInv(inbox', tokens) /\ Offers(inbox') \subseteq Offers(inbox) BY <1>1, Reads
<1>3. CASE UNCHANGED <<client, events>> BY <1>1, <1>2, <1>3, MailStep
<1>4. CASE /\ Active(p, Incoming(p)) /\ client[p].state = "confirming"
           /\ Launching(p, FALSE) \/ Launching(p, TRUE)
  <2>1. client[p].match # 0 BY <1>4 DEF Active
  <2>2. PICK code \in BOOLEAN : Launching(p, code) BY <1>4
  <2> QED BY <1>1, <1>2, <1>4, <2>1, <2>2, LaunchStep
<1> QED BY <1>1, <1>3, <1>4

\* The guest follows the offer, or cannot say so and stays free.
LEMMA ReceiveOfferKeeps ==
    ASSUME PairInv, NEW p \in Players, ReceiveOffer(p)
    PROVE  PairInv'
<1>1. inbox[p] # <<>> /\ Incoming(p).type = "offer" /\ UNCHANGED <<events, commands, game, tokens>>
  BY DEF ReceiveOffer, Comes, Incoming
<1>2. PICK m : m = Incoming(p) OBVIOUS
<1>3. /\ tokens \in Nat /\ BoxInv(inbox, tokens) /\ PairTypes
      /\ Play(client[p], game[p], events[p], commands[p]) /\ Below(tokens, client[p], commands[p])
  BY Now DEF PairInv
<1>4. /\ BoxInv(Taken(p), tokens) /\ Offers(Taken(p)) \subseteq Offers(inbox)
      /\ m \in Mail /\ m.from \in Players /\ m.to = p /\ m.from # p
  BY <1>1, <1>2, Reads
<1>5. /\ m \in Offers(inbox) /\ m.match \in 1 .. tokens
      /\ \A o \in Offers(Taken(p)) : o.match # m.match
  BY <1>1, <1>2, <1>3, TakenFacts DEF IsOffer
<1>6. CASE inbox' = Taken(p) /\ UNCHANGED client BY <1>1, <1>4, <1>6, MailStep
<1>7. ASSUME NEW ok \in BOOLEAN, NEW arrived \in BOOLEAN, Free(p), AnswersOutgoing(p, m),
             inbox' = Sent(Sent(Taken(p), RejectOthers(p, client[p], client[p].outgoing)),
                           IF arrived THEN {Message("confirm", p, m.from, m.request, m.match)} ELSE {}),
             client' = [client EXCEPT ![p] =
                           IF ok THEN Confirming(client[p], client[p].outgoing, m.match, FALSE)
                           ELSE Reset(Confirming(client[p], client[p].outgoing, m.match, FALSE), FALSE)]
      PROVE  PairInv'
  <2>1. PICK x : x = client[p] OBVIOUS
  <2>2. PICK r : r = x.outgoing OBVIOUS
  <2>3. PICK n \in Nat : n = m.match /\ n # 0 BY <1>4, <1>5 DEF Mail
  <2>4. Fine(p, x) /\ x.match = 0 /\ r \in Requests /\ r.peer # p
        /\ r = [id |-> m.request, peer |-> m.from]
    <3>1. r = [id |-> m.request, peer |-> m.from] BY <1>7, <2>1, <2>2 DEF AnswersOutgoing
    <3>2. r \in Requests BY <1>4, <3>1 DEF Mail, Requests
    <3> QED BY <1>4, <1>7, <2>1, <3>1, <3>2, FineNow DEF Free
  <2>5. PICK z : z = Confirming(x, r, n, FALSE) OBVIOUS
  <2>6. /\ z \in Clients /\ z.selected = r /\ z.match = n /\ z.incoming = {}
        /\ z.outgoing = NoRequest /\ z.launched = x.launched /\ z.host = FALSE
    BY <2>3, <2>4, <2>5 DEF Fine, Clients, Confirming
  <2>7. Fine(p, z) BY <2>3, <2>4, <2>6, Confirms
  <2>8. ~x.launched BY <1>3, <2>1, <2>4 DEF Play
  <2>9. PICK box : box = Sent(Taken(p), RejectOthers(p, x, r)) OBVIOUS
  <2>10. BoxInv(box, tokens) /\ Offers(box) \subseteq Offers(Taken(p))
    <3>1. Polite(RejectOthers(p, x, r)) BY <2>4, PoliteRejects DEF Fine
    <3> QED BY <1>3, <1>4, <2>9, <3>1, PoliteKeeps
  <2>11. PICK ms : ms = IF arrived THEN {Message("confirm", p, m.from, m.request, n)} ELSE {} OBVIOUS
  <2>12. Polite(ms)
    <3>1. m.request \in Nat BY <1>4 DEF Mail
    <3>2. "confirm" \in {"invite", "reply", "cancel", "confirm", "connect", "end"} OBVIOUS
    <3> QED BY <1>4, <2>3, <2>11, <3>1, <3>2, PoliteOne, PoliteSets
  <2>13. inbox' = Sent(box, ms) BY <1>7, <2>1, <2>2, <2>3, <2>9, <2>11
  <2>14. BoxInv(inbox', tokens) /\ Offers(inbox') \subseteq Offers(Taken(p))
    BY <1>3, <2>10, <2>12, <2>13, PoliteKeeps
  <2>15. CASE ok
    <3>1. client' = [client EXCEPT ![p] = z] BY <1>7, <2>1, <2>2, <2>3, <2>5, <2>15
    <3>2. client'[p] = z /\ Rest(p) BY <1>1, <1>3, <3>1 DEF PairTypes, Rest
    <3>3. OfferTrue(m) BY <1>5 DEF PairInv
    <3>4. NoFinish(commands[p], n) BY <1>4, <2>3, <3>3 DEF OfferTrue, NoFinish
    <3>5. Play(z, game[p], events[p], commands[p])
      BY <1>3, <2>1, <2>3, <2>4, <2>6, <3>4, PlayConfirms
    <3>6. Below(tokens, z, commands[p]) BY <1>3, <1>5, <2>3, <2>6 DEF Below
    <3>7. Own(p, z) BY <1>1, <2>7, <3>2, <3>5, <3>6 DEF Own, Fine
    <3>8. PairTypes' BY <1>1, <1>3, <2>6, <3>1 DEF PairTypes
    <3>9. \A o \in Offers(inbox') : o \in Offers(inbox) /\ o.match # m.match BY <1>4, <1>5, <2>14
    <3>10. /\ z.match = m.match /\ ~z.host /\ z.selected = [id |-> m.request, peer |-> m.from]
           /\ tokens' = tokens /\ commands' = commands /\ BoxInv(inbox', tokens')
      BY <1>1, <2>3, <2>4, <2>6, <2>14
    <3> QED BY <1>4, <1>5, <3>2, <3>7, <3>8, <3>9, <3>10, JoinsMatch
  <2>16. CASE ~ok
    <3>1. PICK finished \in BOOLEAN : finished = FALSE OBVIOUS
    <3>2. PICK y : y = Reset(z, finished) OBVIOUS
    <3>3. MatchOver(z, finished) BY <2>6, <2>8 DEF MatchOver
    <3>4. Fine(p, y) /\ y.match = 0 /\ ~y.launched /\ y.state # "confirming"
      BY <2>7, <3>2, <3>3, Resets
    <3>5. client' = [client EXCEPT ![p] = y]
      BY <1>7, <2>1, <2>2, <2>3, <2>5, <2>16, <3>1, <3>2
    <3>6. Play(y, game[p], events[p], commands[p]) BY <1>3, <2>1, <2>8, <3>4 DEF Play
    <3>7. /\ game[p] \in Games /\ events[p] \in Seq(Events) /\ commands[p] \in Seq(Commands)
          /\ game' = [game EXCEPT ![p] = game[p]] /\ events' = [events EXCEPT ![p] = events[p]]
          /\ commands' = [commands EXCEPT ![p] = commands[p]] /\ tokens' = tokens
      BY <1>1, Now, Same
    <3>8. Offers(inbox') \subseteq Offers(inbox) BY <1>4, <2>14
    <3>9. \A i \in DOMAIN commands[p] :
             \/ \E j \in DOMAIN commands[p] : commands[p][i].match = commands[p][j].match
             \/ commands[p][i].match = client[p].match
      OBVIOUS
    <3> QED BY <2>14, <3>4, <3>5, <3>6, <3>7, <3>8, <3>9, SideStep
  <2> QED BY <2>15, <2>16
<1> QED BY <1>2, <1>6, <1>7 DEF ReceiveOffer

LEMMA DieKeeps ==
    ASSUME PairInv, NEW p \in Players, Die(p)
    PROVE  PairInv'
<1>1. /\ Play(client[p], game[p], events[p], commands[p]) /\ events[p] \in Seq(Events)
      /\ commands[p] \in Seq(Commands) /\ BoxInv(inbox, tokens)
  BY Now
<1>2. PICK y : y = [client[p] EXCEPT !.life = "crashed"] OBVIOUS
<1>3. PICK g : g = [phase |-> "none", match |-> 0] OBVIOUS
<1>4. Fine(p, client[p]) BY FineNow
<1>5. /\ y \in Clients /\ y.incoming = client[p].incoming /\ y.outgoing = client[p].outgoing
      /\ Alike(client[p], y)
  BY <1>2, <1>4 DEF Fine, Clients, Alike
<1>6. Fine(p, y) BY <1>4, <1>5, Untouched DEF Alike
<1>7. g \in Games /\ ~Runs(g) BY <1>3 DEF Games, Runs
<1>8. Play(y, g, events[p], commands[p]) BY <1>1, <1>5, <1>7, PlayAlike, PlayDrops
<1>9. client' = [client EXCEPT ![p] = y] /\ game' = [game EXCEPT ![p] = g]
  BY <1>2, <1>3 DEF Die
<1>10. /\ events' = [events EXCEPT ![p] = events[p]] /\ commands' = [commands EXCEPT ![p] = commands[p]]
       /\ tokens' = tokens /\ BoxInv(inbox', tokens) /\ Offers(inbox') \subseteq Offers(inbox)
  BY <1>1, Same DEF Die
<1>11. y.match # 0 => /\ y.match = client[p].match /\ y.selected = client[p].selected
                      /\ y.host = client[p].host
  BY <1>5 DEF Alike
<1>12. \A i \in DOMAIN commands[p] :
          \/ \E j \in DOMAIN commands[p] : commands[p][i].match = commands[p][j].match
          \/ commands[p][i].match = client[p].match
  OBVIOUS
<1>13. events[p] \in Seq(Events) /\ commands[p] \in Seq(Commands) BY <1>1
<1> QED BY <1>6, <1>7, <1>8, <1>9, <1>10, <1>11, <1>12, <1>13, SideStep

LEMMA UnregisterKeeps ==
    ASSUME PairInv, NEW p \in Players, Unregister(p)
    PROVE  PairInv'
<1>1. /\ Play(client[p], game[p], events[p], commands[p]) /\ game[p] \in Games
      /\ events[p] \in Seq(Events) /\ commands[p] \in Seq(Commands)
      /\ tokens \in Nat /\ BoxInv(inbox, tokens)
  BY Now
<1>2. UNCHANGED <<commands, tokens>>
      /\ game' = [game EXCEPT ![p].phase = IF @ = "pending" THEN "dropped" ELSE @]
  BY DEF Unregister
<1>3. PICK g : g = [game[p] EXCEPT !.phase = IF @ = "pending" THEN "dropped" ELSE @] OBVIOUS
<1>4. /\ g \in Games /\ game' = [game EXCEPT ![p] = g] /\ g.match = game[p].match
      /\ Runs(g) => Runs(game[p])
  BY <1>1, <1>2, <1>3 DEF Games, Runs
<1>5. PICK x : x = [client[p] EXCEPT !.life = "closed", !.open = FALSE,
                                     !.incoming = {}, !.outgoing = NoRequest]
  OBVIOUS
<1>6. Fine(p, client[p]) BY FineNow
<1>7. x \in Clients /\ x.incoming = {} /\ x.outgoing = NoRequest /\ Alike(client[p], x)
  BY <1>5, <1>6 DEF Fine, Clients, Alike
<1>8. Fine(p, x) BY <1>6, <1>7, Cleared DEF Alike
<1>9. PICK box : box = Sent(inbox, Refusals(p, client[p].incoming) \cup Recall(p, client[p])) OBVIOUS
<1>10. BoxInv(box, tokens) /\ Offers(box) \subseteq Offers(inbox)
  BY <1>1, <1>6, <1>9, PoliteGoodbye, PoliteKeeps
<1>11. CASE ResetMatch(p, x, box, TRUE, FALSE)
  <2>1. PICK notify \in BOOLEAN : notify = TRUE OBVIOUS
  <2>2. ResetMatch(p, x, box, notify, FALSE) BY <1>11, <2>1
  <2>3. UNCHANGED <<commands, tokens>> BY <1>2
  <2>4. PairInv /\ Alike(client[p], x) BY <1>7
  <2> QED
    BY ONLY p \in Players, notify \in BOOLEAN, <1>4, <1>8, <1>10, <2>2, <2>3, <2>4, CloseOff
<1>12. ASSUME NEW y, y = [x EXCEPT !.state = "idle"] \/ y = x,
              client' = [client EXCEPT ![p] = y], inbox' = box, UNCHANGED events
       PROVE  PairInv'
  <2>1. /\ y \in Clients /\ y.incoming = x.incoming /\ y.outgoing = x.outgoing
        /\ Alike(x, y)
    BY <1>7, <1>12 DEF Clients, Alike
  <2>2. Fine(p, y) BY <1>8, <2>1, Untouched DEF Alike
  <2>3. Play(y, g, events[p], commands[p]) BY <1>1, <1>4, <1>7, <2>1, PlayAlike, PlayDrops
  <2>4. /\ events' = [events EXCEPT ![p] = events[p]] /\ commands' = [commands EXCEPT ![p] = commands[p]]
        /\ tokens' = tokens /\ BoxInv(inbox', tokens) /\ Offers(inbox') \subseteq Offers(inbox)
    BY <1>2, <1>10, <1>12, Same
  <2>5. y.match # 0 => /\ y.match = client[p].match /\ y.selected = client[p].selected
                       /\ y.host = client[p].host
    BY <1>7, <2>1 DEF Alike
  <2>6. \A i \in DOMAIN commands[p] :
           \/ \E j \in DOMAIN commands[p] : commands[p][i].match = commands[p][j].match
           \/ commands[p][i].match = client[p].match
    OBVIOUS
  <2>7. g \in Games /\ game' = [game EXCEPT ![p] = g] BY <1>4
  <2>8. events[p] \in Seq(Events) /\ commands[p] \in Seq(Commands) BY <1>1
  <2>9. client' = [client EXCEPT ![p] = y] BY <1>12
  <2>10. PairInv OBVIOUS
  <2> QED BY ONLY p \in Players, <2>2, <2>3, <2>4, <2>5, <2>6, <2>7, <2>8, <2>9, <2>10, SideStep
<1>13. \/ ResetMatch(p, x, box, TRUE, FALSE)
       \/ /\ \/ client' = [client EXCEPT ![p] = [x EXCEPT !.state = "idle"]]
             \/ client' = [client EXCEPT ![p] = x]
          /\ inbox' = box /\ UNCHANGED events
  BY <1>5, <1>9 DEF Unregister
<1> QED BY <1>11, <1>12, <1>13

-----------------------------------------------------------------------------
(* The whole. *)

LEMMA ActKeeps ==
    ASSUME PairInv, NEW p \in Players, Act(p)
    PROVE  PairInv'
<1>1. CASE Accept(p) BY <1>1, AcceptKeeps
<1>2. CASE Reject(p) BY <1>2, RejectKeeps
<1>3. CASE Cancel(p) BY <1>3, RecallStep DEF Cancel
<1>4. CASE CancelMatch(p) BY <1>4, CancelMatchKeeps
<1>5. CASE Suspend(p) BY <1>5, SuspendKeeps
<1>6. CASE Resume(p)
  <2>1. PICK door \in BOOLEAN : client' = [client EXCEPT ![p].open = door] BY <1>6 DEF Resume
  <2>2. UNCHANGED <<inbox, events, commands, game, tokens>> BY <1>6 DEF Resume
  <2> QED BY <2>1, <2>2, DoorStep
<1> QED BY <1>1, <1>2, <1>3, <1>4, <1>5, <1>6 DEF Act

LEMMA HandleKeeps ==
    ASSUME PairInv, NEW p \in Players, Handle(p)
    PROVE  PairInv'
<1>1. CASE Receive(p)
  BY <1>1, ReceiveInviteKeeps, ReceiveReplyKeeps, ReceiveCancelKeeps, ReceiveOfferKeeps,
     ReceiveConfirmKeeps, ReceiveEndKeeps DEF Receive
<1>2. CASE TakeCommand(p)
  BY <1>2, TakeHostReadyKeeps, TakePlayingKeeps, TakeFinishedKeeps DEF TakeCommand
<1>3. CASE IncomingExpires(p) BY <1>3, ExpiryKeeps
<1>4. CASE OutgoingExpires(p) BY <1>4, RecallStep DEF OutgoingExpires
<1>5. CASE DeadlinePasses(p) BY <1>5, DeadlineKeeps
<1> QED BY <1>1, <1>2, <1>3, <1>4, <1>5 DEF Handle

LEMMA AroundKeeps ==
    ASSUME PairInv, NEW p \in Players, Around(p)
    PROVE  PairInv'
<1>1. CASE Lose(p) BY <1>1, LoseKeeps
<1>2. CASE Controller(p)
  BY <1>2, TakeLaunchKeeps, TakeAbortKeeps, TrainingClosesKeeps, ReportsKeep DEF Controller
<1>3. CASE GameEnds(p) BY <1>3, GameEndsKeeps
<1> QED BY <1>1, <1>2, <1>3 DEF Around

LEMMA PairsInitially ==
    ASSUME PairingInit
    PROVE  PairInv
<1>1. PairTypes
  <2>1. <<>> \in Seq(Events) /\ <<>> \in Seq(Commands) OBVIOUS
  <2>2. client \in [Players -> Clients] BY DEF PairingInit, Clients
  <2>3. game \in [Players -> Games] BY DEF PairingInit, Games
  <2> QED BY <2>1, <2>2, <2>3 DEF PairingInit, PairTypes
<1>2. ASSUME NEW p \in Players
      PROVE  /\ Strangers(p, client[p]) /\ OneEach(client[p])
             /\ Play(client[p], game[p], events[p], commands[p])
             /\ Below(tokens, client[p], commands[p])
  <2>1. /\ client[p].selected = NoRequest /\ client[p].outgoing = NoRequest
        /\ client[p].incoming = {} /\ client[p].match = 0 /\ client[p].launched = FALSE
        /\ client[p].state = "waiting" /\ tokens = 0
        /\ events[p] = <<>> /\ commands[p] = <<>> /\ game[p].phase = "none"
    BY DEF PairingInit
  <2>2. Strangers(p, client[p]) BY <2>1, Nowhere, FS_EmptySet DEF Strangers
  <2>3. OneEach(client[p]) BY <2>1 DEF OneEach
  <2>4. Play(client[p], game[p], events[p], commands[p])
    BY <2>1 DEF Play, Runs, NoLaunch
  <2>5. Below(tokens, client[p], commands[p]) BY <2>1 DEF Below
  <2> QED BY <2>2, <2>3, <2>4, <2>5
<1>3. \A p \in Players : DOMAIN inbox[p] = {} BY DEF PairingInit
<1>4. BoxInv(inbox, tokens)
  <2>1. <<>> \in Seq(Mail) OBVIOUS
  <2>2. inbox \in [Players -> Seq(Mail)] BY <2>1 DEF PairingInit
  <2> QED BY <1>3, <2>2 DEF BoxInv
<1>5. \A m \in Offers(inbox) : OfferTrue(m) BY <1>3, OfferIs
<1>6. PairedRoles BY DEF PairingInit, PairedRoles
<1> QED BY <1>1, <1>2, <1>4, <1>5, <1>6 DEF PairInv

LEMMA PairingKeeps ==
    ASSUME PairInv, [PairingNext]_pairingVars
    PROVE  PairInv'
<1>1. CASE UNCHANGED pairingVars
  <2>1. /\ client' = client /\ inbox' = inbox /\ events' = events /\ commands' = commands
        /\ game' = game /\ tokens' = tokens
    BY <1>1 DEF pairingVars
  <2>2. PairTypes' /\ BoxInv(inbox', tokens') /\ PairedRoles'
    BY <2>1 DEF PairInv, PairTypes, PairedRoles
  <2>3. \A p \in Players : /\ Strangers(p, client'[p]) /\ OneEach(client'[p])
                           /\ Play(client'[p], game'[p], events'[p], commands'[p])
                           /\ Below(tokens', client'[p], commands'[p])
    BY <2>1 DEF PairInv
  <2>4. \A m \in Offers(inbox') : OfferTrue(m)' BY <2>1 DEF PairInv, OfferTrue
  <2> QED BY <2>2, <2>3, <2>4 DEF PairInv
<1>2. CASE PairingNext
  BY <1>2, ActKeeps, HandleKeeps, AroundKeeps, InviteKeeps, UnregisterKeeps, DieKeeps
  DEF PairingNext
<1> QED BY <1>1, <1>2

LEMMA PausesKeeps ==
    ASSUME PairInv, Pauses
    PROVE  PairInv'
<1>1. PICK door \in BOOLEAN : client' = [client EXCEPT ![Lister].open = door] BY DEF Pauses
<1>2. Lister \in Players /\ UNCHANGED <<inbox, events, commands, game, tokens>>
  BY ServiceAssumption DEF Pauses
<1> QED BY <1>1, <1>2, DoorStep

LEMMA ServicePairing ==
    ASSUME ServiceNext
    PROVE  [PairingNext]_pairingVars \/ Pauses
<1>1. CASE Lists
  <2>1. Lister \in Players BY ServiceAssumption
  <2> QED BY <1>1, <2>1 DEF Lists, Ends, PairingNext
<1>2. ASSUME NEW p \in Players, Pairs(p) PROVE PairingNext BY <1>2 DEF Pairs, PairingNext
<1> QED BY <1>1, <1>2 DEF ServiceNext

\* Everything about the pairing, over all steps of the whole client.
THEOREM Paired == ServiceSpec => []PairInv
<1>1. ServiceInit => PairInv BY PairsInitially DEF ServiceInit
<1>2. PairInv /\ [ServiceNext]_serviceVars => PairInv'
  <2> SUFFICES ASSUME PairInv, [ServiceNext]_serviceVars PROVE PairInv'
    OBVIOUS
  <2>1. CASE ServiceNext BY <2>1, ServicePairing, PairingKeeps, PausesKeeps
  <2>2. CASE UNCHANGED serviceVars
    <3>1. UNCHANGED pairingVars BY <2>2 DEF serviceVars
    <3> QED BY <3>1, PairingKeeps
  <2> QED BY <2>1, <2>2
<1> QED BY <1>1, <1>2, PTL DEF ServiceSpec

LEMMA KeepsNow == ASSUME PairInv PROVE GameKeepsMatch
<1> SUFFICES ASSUME NEW p \in Players
             PROVE  /\ game[p].phase \notin {"none", "dropped"} => game[p].match = client[p].match
                    /\ \A i \in DOMAIN events[p] :
                          events[p][i].type = "launch" => events[p][i].match = client[p].match
  BY DEF GameKeepsMatch
<1>1. Play(client[p], game[p], events[p], commands[p]) BY Now
<1> QED BY <1>1 DEF Play, Runs, NoLaunch, OneLaunch

LEMMA PairingInvariant == PairingSpec => []PairInv
<1>1. PairInv /\ [PairingNext]_pairingVars => PairInv' BY PairingKeeps
<1> QED BY PairsInitially, <1>1, PTL DEF PairingSpec

\* Two clients in one match are in it with each other, over the same invitation,
\* one as the host and one as the guest: whatever crosses, is lost, fails after it
\* has arrived, is called off or expires, and for any number of players.
THEOREM PairingPairs == PairingSpec => []PairedRoles
<1>1. PairInv => PairedRoles BY DEF PairInv
<1> QED BY <1>1, PairingInvariant, PTL

\* No client forgets a match of which a game runs or is about to start.
THEOREM PairingKeepsMatch == PairingSpec => []GameKeepsMatch
BY KeepsNow, PairingInvariant, PTL

\* Both hold in the whole client, in which one player lists the registration.
THEOREM ServicePairs == ServiceSpec => []PairedRoles
<1>1. PairInv => PairedRoles BY DEF PairInv
<1> QED BY <1>1, Paired, PTL

\* A program that withdraws, ends or dies in the middle forgets no match either.
THEOREM ServiceKeepsMatch == ServiceSpec => []GameKeepsMatch
BY KeepsNow, Paired, PTL
=============================================================================
