----------------------------- MODULE Spectators -----------------------------
(***************************************************************************)
(* A player's game publishes the match for spectators: the selection, the  *)
(* start of a match, every confirmed input, new rounds, the result and     *)
(* what follows.  The game thread must never wait for a spectator.  It     *)
(* pushes records into a queue; a worker moves them into an archive, the   *)
(* ring of the newest records, and serves the spectators from there, each  *)
(* with a cursor of its own.  Who comes late begins at the newest          *)
(* selection or start.  The spectator's own game plays the inputs again    *)
(* and has to be in the right scene for every record.                      *)
(*                                                                         *)
(* Modelled are Queue, Archive, Transport and Playback, and the places in  *)
(* SceneRunner that publish.  A record is handed on by its number in the   *)
(* stream.  Left out are emblems, heartbeats, the greeting and the speed   *)
(* of the playback.                                                        *)
(***************************************************************************)
EXTENDS Integers, Sequences

CONSTANTS
    Viewers,   \* the spectators
    Length,    \* bound: records of the stream
    Queued,    \* slots of the queue between game and worker
    Archived,  \* slots of the archive
    Batch,     \* records the worker sends in one go
    InFlight,  \* records a connection holds
    Buffered   \* slots of the spectator's queue

ASSUME ConstantsAssumption ==
    /\ {Length, Queued, Archived, Batch, InFlight, Buffered} \subseteq Nat \ {0}

VARIABLES
    stream,   \* all records of the match, also those that could not be published
    scene,    \* what the players do
    running,  \* the broadcast goes on
    queue,    \* the queue between game and worker
    archive,  \* the worker's archive
    viewer    \* viewer[v]: the connection of v, its queue and its playback

vars == <<stream, scene, running, queue, archive, viewer>>

Away ==
    [conn |-> "away", cursor |-> 0, net |-> <<>>, buffer |-> <<>>, pending |-> 0,
     phase |-> "select", retrying |-> FALSE, stage |-> FALSE, ending |-> FALSE, target |-> "",
     over |-> FALSE, intro |-> FALSE, next |-> <<0, 0, 0>>, valid |-> TRUE]

Init ==
    /\ stream = <<>>
    /\ scene = [at |-> "select", match |-> 1, round |-> 1, frame |-> 0]
    /\ running = TRUE
    /\ queue = [slots |-> [i \in 0 .. Queued - 1 |-> 0], write |-> 0, read |-> 0]
    /\ archive = [slots |-> [i \in 0 .. Archived - 1 |-> 0], head |-> 1, start |-> 0]
    /\ viewer = [v \in Viewers |-> Away]

Record(kind, data) ==
    [kind |-> kind, at |-> <<scene.match, scene.round, scene.frame>>, data |-> data]

-----------------------------------------------------------------------------
(* The players' game. *)

\* Mistake: the newest record overwrites the oldest.
NeverFull == FALSE

Full == queue.write - queue.read = Queued

\* Publish: when the queue is full the broadcast ends, as a gap could not be
\* mended, and the players go on.
Publish(record) ==
    /\ running /\ Len(stream) < Length
    /\ stream' = Append(stream, record)
    /\ running' = ~Full
    /\ queue' = IF Full THEN queue
                ELSE [queue EXCEPT !.slots[queue.write % Queued] = Len(stream) + 1, !.write = @ + 1]
    /\ UNCHANGED <<archive, viewer>>

\* A character or the stage is chosen.
PublishSelecting ==
    /\ scene.at = "select"
    /\ scene' = [scene EXCEPT !.at = "selecting"]
    /\ Publish(Record("Selecting", ""))

PublishSelection ==
    /\ scene.at \in {"select", "selecting"}
    /\ scene' = [scene EXCEPT !.at = "selected"]
    /\ Publish(Record("Selection", ""))

\* Both players have reached the first image of the match or of the next round.
PublishStart ==
    /\ scene.at = "selected"
    /\ scene' = [scene EXCEPT !.at = "round", !.round = 1, !.frame = 1]
    /\ Publish([Record("Start", "") EXCEPT !.at = <<scene.match, 1, 1>>])

PublishEpoch ==
    /\ scene.at = "next round"
    /\ scene' = [scene EXCEPT !.at = "round", !.round = @ + 1, !.frame = 1]
    /\ Publish([Record("Epoch", "") EXCEPT !.at = <<scene.match, scene.round + 1, 1>>])

\* A confirmed frame; its inputs decide whether the round or the match is over,
\* here and in the game of every spectator.  The last frame of a match comes after
\* one that is "closing".
PublishInput(outcome) ==
    /\ scene.at = IF outcome = "match" THEN "closing" ELSE "round"
    /\ scene' = [scene EXCEPT !.frame = @ + 1,
                              !.at = CASE outcome = "on" -> "round"
                                       [] outcome = "round" -> "next round"
                                       [] outcome = "closing" -> "closing"
                                       [] outcome = "match" -> "over"]
    /\ Publish(Record("Input", outcome))

PublishResult ==
    /\ scene.at = "over"
    /\ scene' = [scene EXCEPT !.at = "menu"]
    /\ Publish(Record("Result", ""))

\* Back to the selection, again at once, or again on a stage that is drawn.
PublishRetry(target) ==
    /\ scene.at = "menu"
    /\ scene' = [scene EXCEPT !.at = IF target = "once" THEN "selected" ELSE "select",
                              !.match = @ + 1]
    /\ Publish(Record("Retry", target))

Players ==
    \/ PublishSelecting \/ PublishSelection \/ PublishStart \/ PublishEpoch
    \/ \E outcome \in {"on", "round", "closing", "match"} : PublishInput(outcome)
    \/ PublishResult
    \/ \E target \in {"select", "once", "stage"} : PublishRetry(target)

-----------------------------------------------------------------------------
(* The worker. *)

Begins(n) == stream[n].kind \in {"Selecting", "Selection", "Start"}

\* Pop from the queue and Archive::Append.
Collect ==
    /\ running /\ queue.read < queue.write
    /\ LET n == queue.slots[queue.read % Queued]
       IN archive' = [archive EXCEPT !.slots[archive.head % Archived] = n, !.head = @ + 1,
                                     !.start = IF Begins(n) THEN archive.head ELSE @]
    /\ queue' = [queue EXCEPT !.read = @ + 1]
    /\ UNCHANGED <<stream, scene, running, viewer>>

\* Archive::Get has the record.
Held(cursor) == cursor # 0 /\ cursor < archive.head /\ archive.head - cursor <= Archived

\* Mistake: who comes late begins with the newest record.
JoinsNewest == archive.head - 1

\* Archive::Join, 0 when the match is too old to be watched from its start.
Join == IF Held(archive.start) THEN archive.start ELSE 0

Accept(v) ==
    /\ running /\ viewer[v].conn = "away"
    /\ viewer' = [viewer EXCEPT ![v].conn = "open"]
    /\ UNCHANGED <<stream, scene, running, queue, archive>>

Closed == [Away EXCEPT !.conn = "closed"]

\* Mistake: who comes when there is nothing to join is never given a place.
NoCursorYet(v) == viewer[v].cursor

\* The place from which v is served.
Cursor(v) == IF viewer[v].cursor = 0 THEN Join ELSE viewer[v].cursor

\* A batch holds as much as there is and fits in; it is made when the last one
\* has been written.
Serve(v) ==
    /\ running /\ viewer[v].conn = "open" /\ Len(viewer[v].net) < InFlight
    /\ \E n \in 1 .. Batch :
          /\ \A i \in 0 .. n - 1 : Held(Cursor(v) + i)
          /\ n = Batch \/ ~Held(Cursor(v) + n)
          /\ viewer' = [viewer EXCEPT ![v].cursor = Cursor(v) + n,
                                       ![v].net = @ \o [i \in 1 .. n |->
                                           archive.slots[(Cursor(v) + i - 1) % Archived]]]
    /\ UNCHANGED <<stream, scene, running, queue, archive>>

\* A spectator whose place has been overwritten is cut off.
CutOff(v) ==
    /\ running /\ viewer[v].conn = "open"
    /\ Cursor(v) # 0 /\ Cursor(v) < archive.head /\ ~Held(Cursor(v))
    /\ viewer' = [viewer EXCEPT ![v] = Closed]
    /\ UNCHANGED <<stream, scene, running, queue, archive>>

\* The broadcast has ended, a connection is lost or makes no progress in time.
Close(v) ==
    /\ viewer[v].conn = "open"
    /\ viewer' = [viewer EXCEPT ![v] = Closed]
    /\ UNCHANGED <<stream, scene, running, queue, archive>>

-----------------------------------------------------------------------------
(* The spectator. *)

Watches(v) == viewer[v].conn = "open" /\ viewer[v].valid

Becomes(v, x) ==
    /\ viewer' = [viewer EXCEPT ![v] = x]
    /\ UNCHANGED <<stream, scene, running, queue, archive>>

\* Receive waits while the queue is full.
Receive(v) ==
    /\ Watches(v) /\ viewer[v].net # <<>> /\ Len(viewer[v].buffer) < Buffered
    /\ Becomes(v, [viewer[v] EXCEPT !.net = Tail(@), !.buffer = Append(@, Head(viewer[v].net))])

\* Playback::Step looks for a record, unless the game just goes on by itself.
Take(v) ==
    /\ Watches(v) /\ viewer[v].pending = 0 /\ viewer[v].buffer # <<>>
    /\ viewer[v].phase # "loading"
    /\ ~(viewer[v].retrying /\ viewer[v].phase = "menu")
    /\ ~(viewer[v].ending /\ viewer[v].phase = "battle")
    /\ Becomes(v, [viewer[v] EXCEPT !.pending = Head(viewer[v].buffer), !.buffer = Tail(@)])

Pending(v, kind) ==
    Watches(v) /\ viewer[v].pending # 0 /\ stream[viewer[v].pending].kind = kind
Data(v) == stream[viewer[v].pending].data
At(v) == stream[viewer[v].pending].at

\* The record has been used; or it cannot be used, which ends the program.
Used(v) == [viewer[v] EXCEPT !.pending = 0]
Unusable(v) == [viewer[v] EXCEPT !.valid = FALSE]

PlaySelecting(v) ==
    /\ Pending(v, "Selecting")
    /\ viewer[v].phase = "select" \/ (viewer[v].stage /\ viewer[v].phase = "menu")
    /\ Becomes(v, Used(v))

\* On a stage that is drawn, the selection lets the menu go on.
PlaySelection(v) ==
    /\ Pending(v, "Selection")
    /\ \/ /\ viewer[v].stage /\ viewer[v].phase = "menu" /\ ~viewer[v].retrying
          /\ Becomes(v, [viewer[v] EXCEPT !.retrying = TRUE])
       \/ /\ viewer[v].phase = "battle"
          /\ Becomes(v, Used(v))

PlayStart(v) ==
    /\ Pending(v, "Start") /\ viewer[v].phase = "battle"
    /\ Becomes(v, [Used(v) EXCEPT !.next = At(v), !.retrying = FALSE, !.ending = FALSE,
                                  !.over = FALSE, !.intro = FALSE])

PlayEpoch(v) ==
    /\ Pending(v, "Epoch")
    /\ Becomes(v, IF viewer[v].phase = "battle" /\ viewer[v].intro
                  THEN [Used(v) EXCEPT !.next = At(v), !.intro = FALSE]
                  ELSE Unusable(v))

\* The last frame of the closing scene may differ from the players': the game shows
\* the menu when they do, after one more frame or one frame early.
PlayInput(v) ==
    /\ Pending(v, "Input")
    /\ IF viewer[v].phase # "battle" \/ viewer[v].next # At(v) THEN Becomes(v, Unusable(v))
       ELSE \E phase \in IF Data(v) \in {"closing", "match"} THEN {"battle", "menu"} ELSE {"battle"} :
              Becomes(v, [Used(v) EXCEPT !.next[3] = @ + 1, !.phase = phase,
                                         !.intro = (Data(v) = "round"), !.over = (Data(v) = "match"),
                                         !.retrying = @ /\ phase = "battle"])

PlayResult(v) ==
    /\ Pending(v, "Result")
    /\ Becomes(v, [Used(v) EXCEPT !.ending = TRUE])

\* What follows is kept until the menu is there.
PlayRetry(v) ==
    /\ Pending(v, "Retry") /\ viewer[v].phase = "menu"
    /\ Becomes(v, [Used(v) EXCEPT !.target = Data(v), !.stage = (Data(v) = "stage"),
                                  !.retrying = (Data(v) # "stage")])

\* The spectator's game by itself: with the selection, through the loading, at
\* the end of a match and when it is played again.
Enters(v, phase) ==
    [viewer[v] EXCEPT !.phase = phase,
                      !.ending = @ /\ phase \in {"battle", "menu"},
                      !.retrying = @ /\ phase # "menu",
                      !.stage = @ /\ phase # "battle",
                      !.over = @ /\ phase # "battle"]

\* Neutral inputs are written in the battle.
RunsOn(v) == viewer[v].phase = "battle" /\ (viewer[v].ending \/ Pending(v, "Retry") \/ Pending(v, "Selecting"))

GameGoesOn(v) ==
    /\ Watches(v)
    /\ \/ /\ viewer[v].phase = "select" /\ (Pending(v, "Selection") \/ Pending(v, "Start"))
          /\ Becomes(v, Enters(v, "loading"))
       \/ /\ viewer[v].phase = "loading"
          /\ Becomes(v, Enters(v, "battle"))
       \/ /\ RunsOn(v)
          /\ Becomes(v, IF viewer[v].over THEN Enters(v, "menu") ELSE Unusable(v))
       \/ /\ viewer[v].phase = "menu" /\ viewer[v].retrying
          /\ Becomes(v, Enters(v, IF viewer[v].target = "select" THEN "select" ELSE "loading"))

\* In the battle the game stands still without a record, and not for longer than 30 s.
GiveUp(v) ==
    /\ Watches(v) /\ viewer[v].phase = "battle" /\ ~viewer[v].ending
    /\ viewer[v].pending = 0 /\ viewer[v].buffer = <<>>
    /\ Becomes(v, Unusable(v))

Playback(v) ==
    \/ Take(v)
    \/ PlaySelecting(v) \/ PlaySelection(v) \/ PlayStart(v) \/ PlayEpoch(v)
    \/ PlayInput(v) \/ PlayResult(v) \/ PlayRetry(v)
    \/ GameGoesOn(v)

-----------------------------------------------------------------------------

Next ==
    \/ Players
    \/ Collect
    \/ \E v \in Viewers :
          \/ Accept(v) \/ Serve(v) \/ CutOff(v) \/ Close(v)
          \/ Receive(v) \/ Playback(v) \/ GiveUp(v)

Spec == Init /\ [][Next]_vars

\* The worker serves everybody round by round; spectators receive and play.
Fairness ==
    /\ WF_vars(Collect)
    /\ \A v \in Viewers : /\ WF_vars(Serve(v) \/ CutOff(v)) /\ WF_vars(Receive(v)) /\ WF_vars(Playback(v))
                          /\ WF_vars(~running /\ Close(v))

FairSpec == Spec /\ Fairness

-----------------------------------------------------------------------------
(* Properties. *)

\* All that is under way to v, in the order in which it will be played.
UnderWay(v) ==
    (IF viewer[v].pending = 0 THEN <<>> ELSE <<viewer[v].pending>>)
        \o viewer[v].buffer \o viewer[v].net

\* Whatever overflows, is overwritten or comes late: what a spectator is sent has
\* no gaps and nothing twice, up to the place of its cursor.
StreamIntact ==
    \A v \in Viewers : LET s == UnderWay(v) IN
        \A i \in DOMAIN s : s[i] = viewer[v].cursor - 1 - Len(s) + i

\* v stands in the battle with nothing to play.
Starved(v) ==
    /\ viewer[v].phase = "battle" /\ ~viewer[v].ending
    /\ viewer[v].pending = 0 /\ viewer[v].buffer = <<>>

\* The game of v is in the menu a frame early, with the players' last input still due.
EndedEarly(v) ==
    /\ viewer[v].phase = "menu" /\ viewer[v].pending # 0
    /\ stream[viewer[v].pending].kind = "Input" /\ Data(v) = "match" /\ viewer[v].next = At(v)

\* Wherever a spectator joins and however far it lags behind, it is sent away with
\* "spectator stream invalid or timed out" (SceneRunner.cpp:991) only because nothing
\* more has come, or because its own game has ended the match before the players';
\* and it never plays on with inputs that nobody gave.
SentAwayForCause == \A v \in Viewers : viewer[v].valid \/ Starved(v) \/ EndedEarly(v)

\* Whenever the players rest, a spectator that is not cut off or sent away gets to see
\* all that they have played; who has come too late for the match waits for the next.
CaughtUp(v) ==
    /\ queue.read = queue.write
    /\ IF viewer[v].cursor = 0 THEN Join = 0
       ELSE viewer[v].cursor = archive.head /\ UnderWay(v) = <<>>

CatchesUp == \A v \in Viewers : []<>(~Watches(v) \/ CaughtUp(v))
=============================================================================
