-------------------------- MODULE SpectatorsProofs --------------------------
(***************************************************************************)
(* Proofs about Spectators, for any number of spectators, any length of    *)
(* the stream and all sizes of the rings.                                  *)
(*                                                                         *)
(* A slot of the queue or of the archive is read by the number of the      *)
(* record that is wanted. That the record is still there follows from how  *)
(* far writer and reader can be apart (QueueRing, ArchiveRing). What is    *)
(* under way to a spectator is then a line of consecutive numbers that     *)
(* ends at its cursor (Line), from the connection through the buffer to    *)
(* the playback.                                                           *)
(*                                                                         *)
(* That a spectator's game can always play what comes is a second          *)
(* invariant on top of it. The stream tells a match in the order in which  *)
(* one is played (Course), and each record tells where the players went    *)
(* with it, so it tells where every game that comes to the next one has to *)
(* be (Stands). A spectator that was sent away had nothing to play in the  *)
(* battle, or stood in the menu a frame before the players (SentAway).     *)
(***************************************************************************)
EXTENDS Spectators, TLAPS

Kinds == {"Selecting", "Selection", "Start", "Epoch", "Input", "Result", "Retry"}
Contents == {"", "on", "round", "closing", "match", "select", "once", "stage"}
Places == Nat \X Nat \X Nat

Records == [kind : Kinds, at : Places, data : Contents]

ViewerStates ==
    [conn : {"away", "open", "closed"}, cursor : Nat, net : Seq(Nat), buffer : Seq(Nat),
     pending : Nat, phase : {"select", "loading", "battle", "menu"}, retrying : BOOLEAN,
     stage : BOOLEAN, ending : BOOLEAN, target : Contents, over : BOOLEAN, intro : BOOLEAN,
     next : Places, valid : BOOLEAN]

Scenes ==
    [at : {"select", "selecting", "selected", "round", "next round", "closing", "over", "menu"},
     match : Nat, round : Nat, frame : Nat]
Queues == [slots : [0 .. Queued - 1 -> Nat], write : Nat, read : Nat]
Archives == [slots : [0 .. Archived - 1 -> Nat], head : Nat, start : Nat]

\* Type invariant.
StreamType == stream \in Seq(Records)
SceneType == scene \in Scenes
RunningType == running \in BOOLEAN
QueueType == queue \in Queues
ArchiveType == archive \in Archives
ViewerType == viewer \in [Viewers -> ViewerStates]

TypeOK == StreamType /\ SceneType /\ RunningType /\ QueueType /\ ArchiveType /\ ViewerType

\* The queue holds what has not been collected.
QueueRing ==
    /\ queue.read <= queue.write /\ queue.write <= queue.read + Queued
    /\ queue.write <= Len(stream)
    /\ running => queue.write = Len(stream)
    /\ \A n \in Nat : queue.read <= n /\ n < queue.write => queue.slots[n % Queued] = n + 1

\* The archive holds the newest of what has been collected.
ArchiveRing ==
    /\ archive.head = queue.read + 1
    /\ \A c \in Nat : 0 < c /\ c < archive.head /\ archive.head - c <= Archived =>
          archive.slots[c % Archived] = c

\* What is under way is consecutive and ends before the cursor.
LineOf(cursor, net, buffer, pending) ==
    /\ \A i \in 1 .. Len(net) : net[i] = cursor - 1 - Len(net) + i
    /\ \A i \in 1 .. Len(buffer) : buffer[i] = cursor - 1 - Len(net) - Len(buffer) + i
    /\ pending # 0 => pending = cursor - 1 - Len(net) - Len(buffer)
    /\ \/ cursor = 0 /\ net = <<>> /\ buffer = <<>> /\ pending = 0
       \/ cursor - Len(net) - Len(buffer) >= 1

Line(x) == LineOf(x.cursor, x.net, x.buffer, x.pending)

Lines == \A v \in Viewers : viewer[v].cursor <= archive.head /\ Line(viewer[v])

SInv == TypeOK /\ QueueRing /\ ArchiveRing /\ Lines

-----------------------------------------------------------------------------

LEMMA Sizes ==
    /\ Queued \in Nat /\ Queued > 0 /\ Archived \in Nat /\ Archived > 0
    /\ Batch \in Nat /\ Batch > 0 /\ InFlight \in Nat /\ Buffered \in Nat
BY ConstantsAssumption

LEMMA InitKeeps == Init => SInv
<1> SUFFICES ASSUME Init PROVE SInv
  OBVIOUS
<1>1. Away \in ViewerStates BY DEF Away, ViewerStates, Places, Contents
<1>2. Line(Away) BY DEF Line, LineOf, Away
<1>3. StreamType BY DEF Init, StreamType
<1>4. SceneType BY DEF Init, SceneType, Scenes
<1>5. RunningType BY DEF Init, RunningType
<1>6. QueueType BY DEF Init, QueueType, Queues
<1>7. ArchiveType BY DEF Init, ArchiveType, Archives
<1>8. ViewerType BY <1>1 DEF Init, ViewerType
<1>9. QueueRing BY Sizes DEF Init, QueueRing
<1>10. ArchiveRing BY Sizes DEF Init, ArchiveRing
<1>11. Lines
  <2>1. archive.head = 1 /\ Away.cursor = 0 BY DEF Init, Away
  <2>2. ASSUME NEW v \in Viewers PROVE viewer[v].cursor <= archive.head /\ Line(viewer[v])
    <3>1. viewer[v] = Away BY DEF Init
    <3> QED BY <1>2, <2>1, <3>1
  <2> QED BY <2>2 DEF Lines
<1> QED
  BY <1>3, <1>4, <1>5, <1>6, <1>7, <1>8, <1>9, <1>10, <1>11 DEF SInv, TypeOK

-----------------------------------------------------------------------------
(* The rings. *)

\* Two numbers with the same place in a ring are at least a ring apart.
LEMMA SamePlace ==
    ASSUME NEW f \in Nat, NEW g \in Nat, NEW n \in Nat, n > 0, f < g, f % n = g % n
    PROVE  f + n <= g
<1> DEFINE a == f \div n
           b == g \div n
           x == n * a
           y == n * b
           z == f % n
<1>1. a \in Int /\ b \in Int /\ x \in Int /\ y \in Int /\ z \in Int OBVIOUS
<1>2. f = x + z /\ g = y + z OBVIOUS
<1>3. y - x = n * (b - a) BY <1>1
<1> HIDE DEF a, b, x, y, z
<1>4. g - f = n * (b - a) BY <1>1, <1>2, <1>3
<1>5. b - a \in Int /\ n * (b - a) > 0 BY <1>1, <1>4
<1>6. b - a >= 1 BY <1>5
<1>7. n * (b - a) >= n BY <1>5, <1>6
<1> QED BY <1>4, <1>7

LEMMA Place == ASSUME NEW f \in Nat, NEW n \in Nat, n > 0 PROVE f % n \in 0 .. n - 1
OBVIOUS

\* A number stored in a ring leaves all those less than a ring before it.
LEMMA Stored ==
    ASSUME NEW n \in Nat, n > 0, NEW ring \in [0 .. n - 1 -> Nat], NEW g \in Nat, NEW x \in Nat
    PROVE  LET new == [ring EXCEPT ![g % n] = x]
           IN /\ new \in [0 .. n - 1 -> Nat]
              /\ new[g % n] = x
              /\ \A f \in Nat : f < g /\ g < f + n => new[f % n] = ring[f % n]
<1> DEFINE new == [ring EXCEPT ![g % n] = x]
<1>1. g % n \in 0 .. n - 1 BY Place
<1>2. new \in [0 .. n - 1 -> Nat] /\ new[g % n] = x BY <1>1
<1>3. ASSUME NEW f \in Nat, f < g, g < f + n PROVE new[f % n] = ring[f % n]
  <2>1. f % n \in 0 .. n - 1 BY Place
  <2>2. f % n # g % n BY <1>3, SamePlace
  <2> QED BY <2>1, <2>2
<1> QED BY <1>2, <1>3

-----------------------------------------------------------------------------
(* The players' game and the worker. *)

LEMMA PublishKeeps ==
    ASSUME SInv, NEW r \in Records, Publish(r), scene' \in Scenes
    PROVE  SInv'
<1>0. /\ StreamType /\ QueueType /\ ArchiveType /\ ViewerType
      /\ QueueRing /\ ArchiveRing /\ Lines
  BY DEF SInv, TypeOK
<1>1. running /\ stream' = Append(stream, r) /\ running' = ~Full /\ archive' = archive /\ viewer' = viewer
  BY DEF Publish
<1>2. SceneType' /\ RunningType' /\ ArchiveType' /\ ViewerType'
  <2>1. SceneType' BY DEF SceneType
  <2>2. RunningType' BY <1>1 DEF RunningType
  <2>3. ArchiveType' BY <1>0, <1>1 DEF ArchiveType
  <2>4. ViewerType' BY <1>0, <1>1 DEF ViewerType
  <2> QED BY <2>1, <2>2, <2>3, <2>4
<1>3. Lines' BY <1>0, <1>1 DEF Lines, Line, LineOf
<1>4. StreamType' /\ Len(stream') = Len(stream) + 1 /\ Len(stream) \in Nat
  <2>1. stream \in Seq(Records) BY <1>0 DEF StreamType
  <2> QED BY <1>1, <2>1 DEF StreamType
<1>5. queue.write \in Nat /\ queue.read \in Nat /\ queue.slots \in [0 .. Queued - 1 -> Nat]
  BY <1>0 DEF QueueType, Queues
<1>6. queue.write = Len(stream) /\ queue.read <= queue.write /\ queue.write <= queue.read + Queued
  BY <1>0, <1>1 DEF QueueRing
<1>7. CASE Full
  <2>1. queue' = queue BY <1>7 DEF Publish
  <2>2. ~running' BY <1>1, <1>7
  <2>3. QueueType' BY <1>0, <2>1 DEF QueueType
  <2>4. Len(stream') \in Nat /\ queue.write <= Len(stream') BY <1>4, <1>5, <1>6
  <2>5. QueueRing' BY <1>0, <2>1, <2>2, <2>4 DEF QueueRing
  <2>6. ArchiveRing' BY <1>0, <1>1, <2>1 DEF ArchiveRing
  <2> QED BY <1>2, <1>3, <1>4, <2>3, <2>5, <2>6 DEF SInv, TypeOK
<1>8. CASE ~Full
  <2> DEFINE new == [queue.slots EXCEPT ![queue.write % Queued] = Len(stream) + 1]
  <2>1. queue' = [queue EXCEPT !.slots[queue.write % Queued] = Len(stream) + 1, !.write = @ + 1]
    BY <1>8 DEF Publish
  <2>2. queue'.slots = new /\ queue'.write = queue.write + 1 /\ queue'.read = queue.read
    BY <1>0, <2>1 DEF QueueType, Queues
  <2>3. new \in [0 .. Queued - 1 -> Nat] /\ new[queue.write % Queued] = Len(stream) + 1
    BY <1>4, <1>5, Stored, Sizes
  <2>4. ASSUME NEW f \in Nat, f < queue.write, queue.write < f + Queued
        PROVE  new[f % Queued] = queue.slots[f % Queued]
    <3>1. f % Queued \in 0 .. Queued - 1 BY Sizes, Place
    <3>2. f % Queued = queue.write % Queued => f + Queued <= queue.write
      BY <1>5, <2>4, Sizes, SamePlace, Zenon
    <3>3. f % Queued # queue.write % Queued BY <1>5, <2>4, <3>2, Sizes
    <3> QED BY <1>5, <3>1, <3>3
  <2> HIDE DEF new
  <2>5. QueueType'
    <3>1. queue' = [slots |-> new, write |-> queue.write + 1, read |-> queue.read]
      BY <1>0, <2>1 DEF new, QueueType, Queues
    <3>2. queue.write + 1 \in Nat BY <1>5
    <3> QED BY <1>5, <2>3, <3>1, <3>2 DEF QueueType, Queues
  <2>6. queue.write < queue.read + Queued
    <3>1. queue.write - queue.read # Queued BY <1>8 DEF Full
    <3> QED BY <3>1, <1>5, <1>6, Sizes
  <2>7. ASSUME NEW n \in Nat, queue'.read <= n, n < queue'.write PROVE queue'.slots[n % Queued] = n + 1
    <3>0. queue.read <= n /\ n < queue.write + 1 BY <2>2, <2>7
    <3>1. CASE n = queue.write BY <3>1, <2>2, <2>3, <1>6
    <3>2. CASE n < queue.write
      <4>1. queue.write < n + Queued BY <2>6, <3>0, <1>5, Sizes
      <4>2. queue.slots[n % Queued] = n + 1 BY <1>0, <3>0, <3>2 DEF QueueRing
      <4> QED BY <2>2, <2>4, <3>2, <4>1, <4>2
    <3> QED BY <3>0, <3>1, <3>2, <1>5
  <2>8. queue'.read <= queue'.write /\ queue'.write <= queue'.read + Queued
    BY <1>5, <1>6, <2>2, <2>6, Sizes
  <2>9. queue'.write = Len(stream') /\ queue'.write <= Len(stream') BY <1>4, <1>5, <1>6, <2>2
  <2>10. QueueRing' BY <2>7, <2>8, <2>9 DEF QueueRing
  <2>11. ArchiveRing' BY <1>0, <1>1, <2>2 DEF ArchiveRing
  <2> QED BY <1>2, <1>3, <1>4, <2>5, <2>10, <2>11 DEF SInv, TypeOK
<1> QED BY <1>7, <1>8

LEMMA RecordTyped ==
    ASSUME TypeOK, NEW kind \in Kinds, NEW data \in Contents
    PROVE  Record(kind, data) \in Records
<1>1. scene \in Scenes BY DEF TypeOK, SceneType
<1>2. <<scene.match, scene.round, scene.frame>> \in Places BY <1>1 DEF Scenes, Places
<1> QED BY <1>2 DEF Record, Records

LEMMA PlayersKeep == SInv /\ Players => SInv'
<1> SUFFICES ASSUME SInv, Players PROVE SInv'
  OBVIOUS
<1>0. TypeOK BY DEF SInv
<1>a. scene \in Scenes BY <1>0 DEF TypeOK, SceneType
<1>d. scene.match \in Nat /\ scene.round \in Nat /\ scene.frame \in Nat BY <1>a DEF Scenes
<1>e. scene.match + 1 \in Nat /\ scene.round + 1 \in Nat /\ scene.frame + 1 \in Nat BY <1>d
<1>b. \A kind \in Kinds, data \in Contents : Record(kind, data) \in Records BY <1>0, RecordTyped
<1>c. \A place \in Places, kind \in Kinds, data \in Contents :
          [Record(kind, data) EXCEPT !.at = place] \in Records
  BY <1>b DEF Records
<1>1. CASE PublishSelecting
  <2>1. Publish(Record("Selecting", "")) /\ Record("Selecting", "") \in Records
    BY <1>b, <1>1 DEF PublishSelecting, Kinds, Contents
  <2>2. scene' \in Scenes BY <1>a, <1>1 DEF PublishSelecting, Scenes
  <2> QED BY <2>1, <2>2, PublishKeeps
<1>2. CASE PublishSelection
  <2>1. Publish(Record("Selection", "")) /\ Record("Selection", "") \in Records
    BY <1>b, <1>2 DEF PublishSelection, Kinds, Contents
  <2>2. scene' \in Scenes BY <1>a, <1>2 DEF PublishSelection, Scenes
  <2> QED BY <2>1, <2>2, PublishKeeps
<1>3. CASE PublishStart
  <2> DEFINE r == [Record("Start", "") EXCEPT !.at = <<scene.match, 1, 1>>]
  <2>1. <<scene.match, 1, 1>> \in Places BY <1>a DEF Scenes, Places
  <2>2. r \in Records BY <1>c, <2>1 DEF Kinds, Contents
  <2>3. scene' \in Scenes BY <1>a, <1>3 DEF PublishStart, Scenes
  <2>4. Publish(r) BY <1>3 DEF PublishStart
  <2> QED BY <2>2, <2>3, <2>4, PublishKeeps
<1>4. CASE PublishEpoch
  <2> DEFINE r == [Record("Epoch", "") EXCEPT !.at = <<scene.match, scene.round + 1, 1>>]
  <2>1. <<scene.match, scene.round + 1, 1>> \in Places BY <1>d, <1>e DEF Places
  <2>2. r \in Records BY <1>c, <2>1 DEF Kinds, Contents
  <2>3. scene' \in Scenes BY <1>a, <1>e, <1>4 DEF PublishEpoch, Scenes
  <2>4. Publish(r) BY <1>4 DEF PublishEpoch
  <2> QED BY <2>2, <2>3, <2>4, PublishKeeps
<1>5. ASSUME NEW outcome \in {"on", "round", "closing", "match"}, PublishInput(outcome) PROVE SInv'
  <2>1. Publish(Record("Input", outcome)) /\ Record("Input", outcome) \in Records
    BY <1>b, <1>5 DEF PublishInput, Kinds, Contents
  <2>2. scene' \in Scenes
    <3>1. PICK at \in {"round", "next round", "closing", "over"} :
            scene' = [scene EXCEPT !.frame = @ + 1, !.at = at]
      BY <1>5 DEF PublishInput
    <3> QED BY <1>a, <1>e, <3>1 DEF Scenes
  <2> QED BY <2>1, <2>2, PublishKeeps
<1>6. CASE PublishResult
  <2>1. Publish(Record("Result", "")) /\ Record("Result", "") \in Records
    BY <1>b, <1>6 DEF PublishResult, Kinds, Contents
  <2>2. scene' \in Scenes BY <1>a, <1>6 DEF PublishResult, Scenes
  <2> QED BY <2>1, <2>2, PublishKeeps
<1>7. ASSUME NEW target \in {"select", "once", "stage"}, PublishRetry(target) PROVE SInv'
  <2>1. Publish(Record("Retry", target)) /\ Record("Retry", target) \in Records
    BY <1>b, <1>7 DEF PublishRetry, Kinds, Contents
  <2>2. scene' \in Scenes
    <3>1. PICK at \in {"selected", "select"} :
            scene' = [scene EXCEPT !.at = at, !.match = @ + 1]
      BY <1>7 DEF PublishRetry
    <3> QED BY <1>a, <1>e, <3>1 DEF Scenes
  <2> QED BY <2>1, <2>2, PublishKeeps
<1> QED BY <1>1, <1>2, <1>3, <1>4, <1>5, <1>6, <1>7 DEF Players

LEMMA CollectKeeps == SInv /\ Collect => SInv'
<1> SUFFICES ASSUME SInv, Collect PROVE SInv'
  OBVIOUS
<1> DEFINE n == queue.slots[queue.read % Queued]
           new == [archive.slots EXCEPT ![archive.head % Archived] = n]
<1>0. /\ StreamType /\ SceneType /\ RunningType /\ QueueType /\ ArchiveType /\ ViewerType
      /\ QueueRing /\ ArchiveRing /\ Lines
  BY DEF SInv, TypeOK
<1>1. /\ queue.read < queue.write
      /\ archive' = [archive EXCEPT !.slots[archive.head % Archived] = n, !.head = @ + 1,
                                    !.start = IF Begins(n) THEN archive.head ELSE @]
      /\ queue' = [queue EXCEPT !.read = @ + 1]
      /\ UNCHANGED <<stream, scene, running, viewer>>
  BY DEF Collect
<1>2. queue.write \in Nat /\ queue.read \in Nat /\ queue.read + 1 \in Nat
  <2>1. queue.write \in Nat /\ queue.read \in Nat BY <1>0 DEF QueueType, Queues
  <2> QED BY <2>1
<1>3. /\ archive.slots \in [0 .. Archived - 1 -> Nat] /\ archive.start \in Nat
      /\ archive.head \in Nat /\ archive.head = queue.read + 1
  BY <1>0 DEF ArchiveType, Archives, ArchiveRing
<1>4. n = archive.head BY <1>0, <1>1, <1>2, <1>3 DEF QueueRing
<1>5. queue'.read = queue.read + 1 /\ queue'.write = queue.write /\ queue'.slots = queue.slots
  BY <1>0, <1>1 DEF QueueType, Queues
<1>6. archive'.slots = new /\ archive'.head = archive.head + 1 /\ archive'.start \in {archive.start, archive.head}
  BY <1>0, <1>1 DEF ArchiveType, Archives
<1>7. new \in [0 .. Archived - 1 -> Nat] /\ new[archive.head % Archived] = archive.head
  <2>1. archive.head % Archived \in 0 .. Archived - 1 BY <1>3, Sizes, Place
  <2> QED BY <1>3, <1>4, <2>1
<1>8. ASSUME NEW c \in Nat, c < archive.head, archive.head < c + Archived
      PROVE  new[c % Archived] = archive.slots[c % Archived]
  <2>1. c % Archived \in 0 .. Archived - 1 BY Sizes, Place
  <2>2. c % Archived = archive.head % Archived => c + Archived <= archive.head
    BY <1>3, <1>8, Sizes, SamePlace, Zenon
  <2>3. c % Archived # archive.head % Archived BY <1>3, <1>8, <2>2, Sizes
  <2> QED BY <1>3, <2>1, <2>3
<1>9. ArchiveType'
  <2>1. archive.head + 1 \in Nat BY <1>3
  <2>2. archive' = [slots |-> new, head |-> archive.head + 1,
                    start |-> IF Begins(n) THEN archive.head ELSE archive.start]
    BY <1>0, <1>1 DEF ArchiveType, Archives
  <2> HIDE DEF new
  <2> QED BY <1>3, <1>7, <2>1, <2>2 DEF ArchiveType, Archives
<1> HIDE DEF n, new
<1>10. StreamType' /\ SceneType' /\ RunningType' /\ ViewerType'
  <2>1. StreamType' BY <1>0, <1>1 DEF StreamType
  <2>2. SceneType' BY <1>0, <1>1 DEF SceneType
  <2>3. RunningType' BY <1>0, <1>1 DEF RunningType
  <2>4. ViewerType' BY <1>0, <1>1 DEF ViewerType
  <2> QED BY <2>1, <2>2, <2>3, <2>4
<1>11. QueueType' BY <1>0, <1>1, <1>2 DEF QueueType, Queues
<1>12. QueueRing'
  <2>1. queue.read + 1 <= queue.write /\ queue.write <= queue.read + 1 + Queued
    BY <1>0, <1>1, <1>2, Sizes DEF QueueRing
  <2>2. ASSUME NEW k \in Nat, queue.read + 1 <= k, k < queue.write PROVE queue.slots[k % Queued] = k + 1
    <3>1. queue.read <= k BY <1>2, <2>2
    <3> QED BY <1>0, <2>2, <3>1 DEF QueueRing
  <2>3. queue.write <= Len(stream) /\ (running => queue.write = Len(stream)) BY <1>0 DEF QueueRing
  <2> QED BY <1>1, <1>5, <2>1, <2>2, <2>3 DEF QueueRing
<1>13. ArchiveRing'
  <2>1. ASSUME NEW c \in Nat, 0 < c, c < archive'.head, archive'.head - c <= Archived
        PROVE  archive'.slots[c % Archived] = c
    <3>a. archive'.head = archive.head + 1 BY <1>6
    <3>0. c < archive.head + 1 /\ archive.head + 1 - c <= Archived BY <2>1, <3>a, <1>3, Sizes
    <3>1. CASE c = archive.head BY <1>6, <1>7, <3>1
    <3>2. CASE c < archive.head
      <4>1. archive.head - c <= Archived /\ archive.head < c + Archived BY <1>3, <3>0, Sizes
      <4>2. archive.slots[c % Archived] = c BY <1>0, <2>1, <3>2, <4>1 DEF ArchiveRing
      <4> QED BY <1>6, <1>8, <3>2, <4>1, <4>2
    <3> QED BY <1>3, <3>0, <3>1, <3>2
  <2>2. archive'.head = queue'.read + 1 BY <1>2, <1>3, <1>5, <1>6
  <2> QED BY <2>1, <2>2 DEF ArchiveRing
<1>14. Lines'
  <2>1. ASSUME NEW v \in Viewers PROVE viewer[v].cursor <= archive.head + 1
    <3>1. viewer[v].cursor \in Nat BY <1>0 DEF ViewerType, ViewerStates
    <3>2. viewer[v].cursor <= archive.head BY <1>0 DEF Lines
    <3> QED BY <1>3, <3>1, <3>2
  <2>2. viewer' = viewer BY <1>1
  <2> QED BY <1>0, <1>6, <2>1, <2>2 DEF Lines, Line, LineOf
<1> QED BY <1>9, <1>10, <1>11, <1>12, <1>13, <1>14 DEF SInv, TypeOK

-----------------------------------------------------------------------------
(* The spectators. *)

\* A spectator changes, and nothing else does.
LEMMA ViewerKeeps ==
    ASSUME SInv, NEW v \in Viewers, NEW x \in ViewerStates, x.cursor <= archive.head, Line(x),
           viewer' = [viewer EXCEPT ![v] = x],
           stream' = stream, scene' = scene, running' = running, queue' = queue, archive' = archive
    PROVE  SInv'
<1>0. /\ StreamType /\ SceneType /\ RunningType /\ QueueType /\ ArchiveType /\ ViewerType
      /\ QueueRing /\ ArchiveRing /\ Lines
  BY DEF SInv, TypeOK
<1>1. StreamType' BY <1>0 DEF StreamType
<1>2. SceneType' BY <1>0 DEF SceneType
<1>3. RunningType' BY <1>0 DEF RunningType
<1>4. QueueType' BY <1>0 DEF QueueType
<1>5. ArchiveType' BY <1>0 DEF ArchiveType
<1>6. ViewerType' BY <1>0 DEF ViewerType
<1>7. QueueRing' BY <1>0 DEF QueueRing
<1>8. ArchiveRing' BY <1>0 DEF ArchiveRing
<1>9. Lines'
  <2>1. ASSUME NEW w \in Viewers PROVE viewer'[w].cursor <= archive.head /\ Line(viewer'[w])
    <3>1. viewer'[w] = IF w = v THEN x ELSE viewer[w] BY <1>0 DEF ViewerType
    <3>2. viewer[w].cursor <= archive.head /\ Line(viewer[w]) BY <1>0 DEF Lines
    <3> QED BY <3>1, <3>2
  <2>2. \A y : Line(y)' = Line(y) BY DEF Line, LineOf
  <2>3. \A w \in Viewers : viewer'[w].cursor <= archive'.head /\ Line(viewer'[w]) BY <2>1
  <2> QED BY <2>3 DEF Lines, Line, LineOf
<1> QED BY <1>1, <1>2, <1>3, <1>4, <1>5, <1>6, <1>7, <1>8, <1>9 DEF SInv, TypeOK

\* The playback uses or keeps its record and leaves the rest of the line alone.
LEMMA PlayedKeeps ==
    ASSUME SInv, NEW v \in Viewers, NEW x \in ViewerStates, Becomes(v, x),
           x.cursor = viewer[v].cursor, x.net = viewer[v].net, x.buffer = viewer[v].buffer,
           x.pending = 0 \/ x.pending = viewer[v].pending
    PROVE  SInv'
<1>1. viewer[v].cursor <= archive.head /\ Line(viewer[v]) BY DEF SInv, Lines
<1>2. Line(x)
  <2>1. LineOf(viewer[v].cursor, viewer[v].net, viewer[v].buffer, viewer[v].pending) BY <1>1 DEF Line
  <2>2. LineOf(viewer[v].cursor, viewer[v].net, viewer[v].buffer, 0) BY <2>1 DEF LineOf
  <2> QED BY <2>1, <2>2 DEF Line
<1> QED BY <1>1, <1>2, ViewerKeeps DEF Becomes

LEMMA ViewerFields ==
    ASSUME SInv, NEW v \in Viewers
    PROVE  /\ viewer[v] \in ViewerStates /\ viewer[v].cursor <= archive.head /\ Line(viewer[v])
           /\ viewer[v].cursor \in Nat /\ viewer[v].pending \in Nat
           /\ viewer[v].net \in Seq(Nat) /\ viewer[v].buffer \in Seq(Nat)
           /\ Len(viewer[v].net) \in Nat /\ Len(viewer[v].buffer) \in Nat
           /\ archive.head \in Nat /\ archive.head >= 1
           /\ archive.slots \in [0 .. Archived - 1 -> Nat] /\ archive.start \in Nat
<1>1. viewer[v] \in ViewerStates BY DEF SInv, TypeOK, ViewerType
<1>2. /\ viewer[v].cursor \in Nat /\ viewer[v].pending \in Nat
      /\ viewer[v].net \in Seq(Nat) /\ viewer[v].buffer \in Seq(Nat)
  BY <1>1 DEF ViewerStates
<1>3. archive.head \in Nat /\ archive.slots \in [0 .. Archived - 1 -> Nat] /\ archive.start \in Nat
  BY DEF SInv, TypeOK, ArchiveType, Archives
<1>4. queue.read \in Nat /\ archive.head = queue.read + 1
  BY DEF SInv, TypeOK, QueueType, Queues, ArchiveRing
<1>5. archive.head >= 1 BY <1>4
<1>6. viewer[v].cursor <= archive.head /\ Line(viewer[v]) BY DEF SInv, Lines
<1> QED BY <1>1, <1>2, <1>3, <1>5, <1>6

LEMMA AwayFits == Away \in ViewerStates /\ Closed \in ViewerStates /\ Line(Closed) /\ Closed.cursor = 0
<1>1. Away \in ViewerStates BY DEF Away, ViewerStates, Places, Contents
<1>2. Closed \in ViewerStates BY <1>1 DEF Closed, ViewerStates
<1>3. Line(Closed) /\ Closed.cursor = 0 BY DEF Closed, Away, Line, LineOf
<1> QED BY <1>1, <1>2, <1>3

LEMMA AcceptKeeps == ASSUME SInv, NEW v \in Viewers, Accept(v) PROVE SInv'
<1>1. viewer' = [viewer EXCEPT ![v].conn = "open"] /\ UNCHANGED <<stream, scene, running, queue, archive>>
  BY DEF Accept
<1> DEFINE x == [viewer[v] EXCEPT !.conn = "open"]
<1>2. x \in ViewerStates BY ViewerFields DEF ViewerStates
<1>3. Becomes(v, x) BY <1>1 DEF Becomes
<1>4. x.cursor = viewer[v].cursor /\ x.net = viewer[v].net /\ x.buffer = viewer[v].buffer /\ x.pending = viewer[v].pending
  BY ViewerFields DEF ViewerStates
<1> HIDE DEF x
<1> QED BY <1>2, <1>3, <1>4, PlayedKeeps

LEMMA CloseKeeps == ASSUME SInv, NEW v \in Viewers, CutOff(v) \/ Close(v) PROVE SInv'
<1>1. viewer' = [viewer EXCEPT ![v] = Closed] /\ UNCHANGED <<stream, scene, running, queue, archive>>
  BY DEF CutOff, Close
<1>2. Closed.cursor <= archive.head BY AwayFits, ViewerFields
<1> QED BY <1>1, <1>2, AwayFits, ViewerKeeps

\* A record goes from the connection into the buffer.
LEMMA Handed ==
    ASSUME NEW cursor \in Nat, NEW net \in Seq(Nat), NEW buffer \in Seq(Nat), NEW pending \in Nat,
           net # <<>>, LineOf(cursor, net, buffer, pending)
    PROVE  LineOf(cursor, Tail(net), Append(buffer, Head(net)), pending)
<1> DEFINE n == Tail(net)
           b == Append(buffer, Head(net))
<1>1. /\ Len(net) \in Nat /\ Len(net) >= 1 /\ Len(buffer) \in Nat
      /\ Len(n) = Len(net) - 1 /\ Len(b) = Len(buffer) + 1
  OBVIOUS
<1>2. \A i \in 1 .. Len(net) - 1 : n[i] = net[i + 1] OBVIOUS
<1>3. (\A i \in 1 .. Len(buffer) : b[i] = buffer[i]) /\ b[Len(buffer) + 1] = net[1] OBVIOUS
<1> HIDE DEF n, b
<1>4. ASSUME NEW i \in 1 .. Len(n) PROVE n[i] = cursor - 1 - Len(n) + i
  <2>1. i \in 1 .. Len(net) - 1 /\ i + 1 \in 1 .. Len(net) BY <1>1
  <2>2. n[i] = cursor - 1 - Len(net) + (i + 1) BY <1>2, <2>1 DEF LineOf
  <2> QED BY <1>1, <2>1, <2>2
<1>5. ASSUME NEW i \in 1 .. Len(b) PROVE b[i] = cursor - 1 - Len(n) - Len(b) + i
  <2>1. CASE i = Len(buffer) + 1
    <3>1. 1 \in 1 .. Len(net) BY <1>1
    <3>2. b[i] = cursor - 1 - Len(net) + 1 BY <1>3, <2>1, <3>1 DEF LineOf
    <3> QED BY <1>1, <2>1, <3>2
  <2>2. CASE i # Len(buffer) + 1
    <3>1. i \in 1 .. Len(buffer) BY <1>1, <2>2
    <3>2. b[i] = cursor - 1 - Len(net) - Len(buffer) + i BY <1>3, <3>1 DEF LineOf
    <3> QED BY <1>1, <3>1, <3>2
  <2> QED BY <2>1, <2>2
<1>6. Len(n) + Len(b) = Len(net) + Len(buffer) BY <1>1
<1>7. pending # 0 => pending = cursor - 1 - Len(n) - Len(b)
  <2>1. pending # 0 => pending = cursor - 1 - Len(net) - Len(buffer) BY DEF LineOf
  <2> QED BY <1>1, <2>1
<1>8. cursor - Len(n) - Len(b) >= 1
  <2>1. cursor - Len(net) - Len(buffer) >= 1 BY DEF LineOf
  <2> QED BY <1>1, <2>1
<1> QED BY <1>4, <1>5, <1>7, <1>8 DEF LineOf, n, b

LEMMA ReceiveKeeps == ASSUME SInv, NEW v \in Viewers, Receive(v) PROVE SInv'
<1> DEFINE y == viewer[v]
           x == [y EXCEPT !.net = Tail(@), !.buffer = Append(@, Head(y.net))]
<1>1. y.net # <<>> /\ Becomes(v, x) BY DEF Receive
<1>2. y \in ViewerStates /\ y.cursor <= archive.head /\ Line(y) BY ViewerFields
<1>3. y.cursor \in Nat /\ y.net \in Seq(Nat) /\ y.buffer \in Seq(Nat) /\ y.pending \in Nat BY <1>2 DEF ViewerStates
<1>4. x.net = Tail(y.net) /\ x.buffer = Append(y.buffer, Head(y.net)) /\ x.cursor = y.cursor /\ x.pending = y.pending
  BY <1>2 DEF ViewerStates
<1>5. Head(y.net) \in Nat /\ Tail(y.net) \in Seq(Nat) /\ Append(y.buffer, Head(y.net)) \in Seq(Nat)
  BY <1>1, <1>3
<1>6. x \in ViewerStates BY <1>2, <1>5 DEF ViewerStates
<1> HIDE DEF x, y
<1>7. Line(x) BY <1>1, <1>2, <1>3, <1>4, Handed DEF Line
<1>8. x.cursor <= archive.head BY <1>2, <1>4
<1>9. viewer' = [viewer EXCEPT ![v] = x] /\ UNCHANGED <<stream, scene, running, queue, archive>>
  BY <1>1 DEF Becomes
<1> QED BY <1>6, <1>7, <1>8, <1>9, ViewerKeeps

\* The playback takes a record from the buffer.
LEMMA TakenUp ==
    ASSUME NEW cursor \in Nat, NEW net \in Seq(Nat), NEW buffer \in Seq(Nat), buffer # <<>>,
           LineOf(cursor, net, buffer, 0)
    PROVE  LineOf(cursor, net, Tail(buffer), Head(buffer))
<1> DEFINE b == Tail(buffer)
<1>1. /\ Len(net) \in Nat /\ Len(buffer) \in Nat /\ Len(buffer) >= 1 /\ Len(b) = Len(buffer) - 1
  OBVIOUS
<1>2. (\A i \in 1 .. Len(buffer) - 1 : b[i] = buffer[i + 1]) /\ Head(buffer) = buffer[1] OBVIOUS
<1> HIDE DEF b
<1>3. ASSUME NEW i \in 1 .. Len(b) PROVE b[i] = cursor - 1 - Len(net) - Len(b) + i
  <2>1. i \in 1 .. Len(buffer) - 1 /\ i + 1 \in 1 .. Len(buffer) BY <1>1
  <2>2. b[i] = cursor - 1 - Len(net) - Len(buffer) + (i + 1) BY <1>2, <2>1 DEF LineOf
  <2> QED BY <1>1, <2>1, <2>2
<1>4. Head(buffer) = cursor - 1 - Len(net) - Len(b)
  <2>1. 1 \in 1 .. Len(buffer) BY <1>1
  <2>2. Head(buffer) = cursor - 1 - Len(net) - Len(buffer) + 1 BY <1>2, <2>1 DEF LineOf
  <2> QED BY <1>1, <2>2
<1>5. cursor - Len(net) - Len(b) >= 1
  <2>1. cursor - Len(net) - Len(buffer) >= 1 BY DEF LineOf
  <2> QED BY <1>1, <2>1
<1> QED BY <1>3, <1>4, <1>5 DEF LineOf, b

LEMMA TakeKeeps == ASSUME SInv, NEW v \in Viewers, Take(v) PROVE SInv'
<1> DEFINE y == viewer[v]
           x == [y EXCEPT !.pending = Head(y.buffer), !.buffer = Tail(@)]
<1>1. y.pending = 0 /\ y.buffer # <<>> /\ Becomes(v, x) BY DEF Take
<1>2. y \in ViewerStates /\ y.cursor <= archive.head /\ Line(y) BY ViewerFields
<1>3. y.cursor \in Nat /\ y.net \in Seq(Nat) /\ y.buffer \in Seq(Nat) BY <1>2 DEF ViewerStates
<1>4. x.net = y.net /\ x.buffer = Tail(y.buffer) /\ x.cursor = y.cursor /\ x.pending = Head(y.buffer)
  BY <1>2 DEF ViewerStates
<1>5. Head(y.buffer) \in Nat /\ Tail(y.buffer) \in Seq(Nat) BY <1>1, <1>3
<1>6. x \in ViewerStates BY <1>2, <1>5 DEF ViewerStates
<1> HIDE DEF x, y
<1>7. Line(x) BY <1>1, <1>2, <1>3, <1>4, TakenUp DEF Line
<1>8. x.cursor <= archive.head BY <1>2, <1>4
<1>9. viewer' = [viewer EXCEPT ![v] = x] /\ UNCHANGED <<stream, scene, running, queue, archive>>
  BY <1>1 DEF Becomes
<1> QED BY <1>6, <1>7, <1>8, <1>9, ViewerKeeps

\* A batch is added to what the connection holds.
LEMMA Sent ==
    ASSUME NEW cursor \in Nat, NEW net \in Seq(Nat), NEW buffer \in Seq(Nat), NEW pending \in Nat,
           LineOf(cursor, net, buffer, pending),
           NEW c \in Nat, c >= 1, cursor = 0 \/ cursor = c,
           NEW more \in Seq(Nat), \A i \in 1 .. Len(more) : more[i] = c + i - 1
    PROVE  LineOf(c + Len(more), net \o more, buffer, pending)
<1> DEFINE all == net \o more
<1>1. /\ Len(net) \in Nat /\ Len(buffer) \in Nat /\ Len(more) \in Nat
      /\ Len(all) = Len(net) + Len(more)
  OBVIOUS
<1>2. /\ \A i \in 1 .. Len(net) : all[i] = net[i]
      /\ \A i \in 1 .. Len(more) : all[Len(net) + i] = more[i]
  OBVIOUS
<1> HIDE DEF all
<1>3. cursor = 0 => net = <<>> /\ buffer = <<>> /\ pending = 0
  BY <1>1 DEF LineOf
<1>4. ASSUME NEW i \in 1 .. Len(all) PROVE all[i] = c + Len(more) - 1 - Len(all) + i
  <2>1. CASE i \in 1 .. Len(net)
    <3>1. cursor = c BY <1>3, <2>1
    <3>2. all[i] = c - 1 - Len(net) + i BY <1>2, <2>1, <3>1 DEF LineOf
    <3> QED BY <1>1, <2>1, <3>2
  <2>2. CASE i \notin 1 .. Len(net)
    <3>1. i - Len(net) \in 1 .. Len(more) /\ Len(net) + (i - Len(net)) = i BY <1>1, <2>2
    <3>2. all[i] = c + (i - Len(net)) - 1 BY <1>2, <3>1
    <3> QED BY <1>1, <3>1, <3>2
  <2> QED BY <2>1, <2>2
<1>5. ASSUME NEW i \in 1 .. Len(buffer)
      PROVE  buffer[i] = c + Len(more) - 1 - Len(all) - Len(buffer) + i
  <2>1. cursor = c BY <1>3, <1>5
  <2>2. buffer[i] = c - 1 - Len(net) - Len(buffer) + i BY <2>1 DEF LineOf
  <2> QED BY <1>1, <2>2
<1>6. pending # 0 => pending = c + Len(more) - 1 - Len(all) - Len(buffer)
  <2>1. pending # 0 => pending = c - 1 - Len(net) - Len(buffer) BY <1>3 DEF LineOf
  <2>2. c - 1 - Len(net) - Len(buffer) = c + Len(more) - 1 - Len(all) - Len(buffer) BY <1>1
  <2> QED BY <2>1, <2>2
<1>7. c + Len(more) - Len(all) - Len(buffer) >= 1
  <2>1. CASE cursor = 0
    <3>1. Len(net) = 0 /\ Len(buffer) = 0 BY <1>3, <2>1
    <3> QED BY <1>1, <3>1
  <2>2. CASE cursor # 0
    <3>1. c - Len(net) - Len(buffer) >= 1 BY <2>2 DEF LineOf
    <3> QED BY <1>1, <3>1
  <2> QED BY <2>1, <2>2
<1> QED BY <1>4, <1>5, <1>6, <1>7 DEF LineOf, all

LEMMA ServeKeeps == ASSUME SInv, NEW v \in Viewers, Serve(v) PROVE SInv'
<1> DEFINE y == viewer[v]
           c == Cursor(v)
<1>1. PICK n \in 1 .. Batch :
        /\ \A i \in 0 .. n - 1 : Held(c + i)
        /\ viewer' = [viewer EXCEPT ![v].cursor = c + n,
                                    ![v].net = @ \o [i \in 1 .. n |-> archive.slots[(c + i - 1) % Archived]]]
  BY DEF Serve
<1> DEFINE more == [i \in 1 .. n |-> archive.slots[(c + i - 1) % Archived]]
           x == [y EXCEPT !.cursor = c + n, !.net = @ \o more]
<1>2. /\ y \in ViewerStates /\ y.cursor <= archive.head /\ Line(y)
      /\ y.cursor \in Nat /\ y.pending \in Nat /\ y.net \in Seq(Nat) /\ y.buffer \in Seq(Nat)
      /\ archive.head \in Nat /\ archive.start \in Nat
  BY ViewerFields
<1>3. n \in Nat /\ n >= 1 BY Sizes
<1>4. c \in Nat /\ (y.cursor = 0 \/ y.cursor = c) BY <1>2 DEF Cursor, Join
<1>5. viewer' = [viewer EXCEPT ![v] = x] /\ UNCHANGED <<stream, scene, running, queue, archive>>
  <2>1. UNCHANGED <<stream, scene, running, queue, archive>> BY DEF Serve
  <2>2. viewer \in [Viewers -> ViewerStates] BY DEF SInv, TypeOK, ViewerType
  <2> QED BY <1>1, <2>1, <2>2 DEF ViewerStates
<1> HIDE DEF c, y
<1>6. c >= 1 /\ c + n <= archive.head
  <2>1. 0 \in 0 .. n - 1 /\ n - 1 \in 0 .. n - 1 BY <1>3
  <2>2. Held(c + 0) /\ Held(c + (n - 1)) BY <1>1, <2>1
  <2> QED BY <1>2, <1>3, <1>4, <2>2 DEF Held
<1>7. ASSUME NEW i \in 1 .. n PROVE archive.slots[(c + i - 1) % Archived] = c + i - 1
  <2>1. i - 1 \in 0 .. n - 1 /\ c + (i - 1) = c + i - 1 BY <1>3, <1>4
  <2>2. Held(c + i - 1) BY <1>1, <2>1
  <2>3. c + i - 1 \in Nat /\ 0 < c + i - 1 BY <1>3, <1>4, <1>6
  <2>4. c + i - 1 < archive.head /\ archive.head - (c + i - 1) <= Archived BY <2>2 DEF Held
  <2> HIDE DEF more
  <2> DEFINE d == c + i - 1
  <2>5. d \in Nat /\ 0 < d /\ d < archive.head /\ archive.head - d <= Archived BY <2>3, <2>4
  <2> HIDE DEF d
  <2>6. archive.slots[d % Archived] = d BY <2>5 DEF SInv, ArchiveRing
  <2> QED BY <2>6 DEF d
<1>8. more \in Seq(Nat) /\ Len(more) = n /\ \A i \in 1 .. Len(more) : more[i] = c + i - 1
  <2>1. \A i \in 1 .. n : more[i] = c + i - 1 BY <1>7
  <2>2. \A i \in 1 .. n : c + i - 1 \in Nat BY <1>3, <1>4
  <2>3. DOMAIN more = 1 .. n OBVIOUS
  <2>4. more \in [1 .. n -> Nat] BY <1>7, <2>2
  <2>5. more \in Seq(Nat) /\ Len(more) = n BY <1>3, <2>4
  <2> QED BY <2>1, <2>5
<1> HIDE DEF more
<1>9. x.cursor = c + n /\ x.net = y.net \o more /\ x.buffer = y.buffer /\ x.pending = y.pending
  BY <1>2 DEF ViewerStates
<1>10. x \in ViewerStates
  <2>1. c + n \in Nat /\ y.net \o more \in Seq(Nat) BY <1>2, <1>3, <1>4, <1>8
  <2> QED BY <1>2, <2>1 DEF ViewerStates
<1> HIDE DEF x
<1>11. Line(x)
  <2>1. LineOf(y.cursor, y.net, y.buffer, y.pending) BY <1>2 DEF Line
  <2>2. LineOf(c + Len(more), y.net \o more, y.buffer, y.pending)
    BY <1>2, <1>4, <1>6, <1>8, <2>1, Sent
  <2> QED BY <1>8, <1>9, <2>2 DEF Line
<1> QED BY <1>5, <1>6, <1>9, <1>10, <1>11, ViewerKeeps

\* The record the playback holds is one of the stream.
LEMMA PendingRecord ==
    ASSUME SInv, NEW v \in Viewers, viewer[v].pending # 0
    PROVE  Data(v) \in Contents /\ At(v) \in Places
<1> DEFINE y == viewer[v]
           p == viewer[v].pending
<1>1. /\ y.cursor \in Nat /\ p \in Nat /\ Len(y.net) \in Nat /\ Len(y.buffer) \in Nat
      /\ y.cursor <= archive.head /\ archive.head \in Nat /\ Line(y)
  BY ViewerFields
<1>2. p = y.cursor - 1 - Len(y.net) - Len(y.buffer) BY <1>1 DEF Line, LineOf
<1>3. p < archive.head
  <2> HIDE DEF p, y
  <2> QED BY <1>1, <1>2
<1>4. /\ queue.read \in Nat /\ queue.write \in Nat /\ queue.read <= queue.write
      /\ queue.write <= Len(stream) /\ archive.head = queue.read + 1
  BY DEF SInv, TypeOK, QueueType, Queues, QueueRing, ArchiveRing
<1>5. stream \in Seq(Records) /\ Len(stream) \in Nat BY DEF SInv, TypeOK, StreamType
<1>6. p \in 1 .. Len(stream)
  <2> HIDE DEF p
  <2>1. p # 0 BY DEF p
  <2> QED BY <1>1, <1>3, <1>4, <1>5, <2>1
<1>7. stream[p] \in Records BY <1>5, <1>6
<1> QED BY <1>7 DEF Data, At, Records

\* The steps of the playback leave the line alone, but for the record it holds.
LEMMA Steps ==
    ASSUME SInv, NEW v \in Viewers, NEW x, Becomes(v, x),
           x \in ViewerStates, \E p \in {0, viewer[v].pending} :
              /\ x.pending = p /\ x.cursor = viewer[v].cursor
              /\ x.net = viewer[v].net /\ x.buffer = viewer[v].buffer
    PROVE  SInv'
BY PlayedKeeps

LEMMA UsedFits ==
    ASSUME SInv, NEW v \in Viewers
    PROVE  /\ Used(v) \in ViewerStates
           /\ Used(v).pending = 0 /\ Used(v).cursor = viewer[v].cursor
           /\ Used(v).net = viewer[v].net /\ Used(v).buffer = viewer[v].buffer
BY ViewerFields DEF Used, ViewerStates

LEMMA UnusableFits ==
    ASSUME SInv, NEW v \in Viewers
    PROVE  /\ Unusable(v) \in ViewerStates
           /\ Unusable(v).pending = viewer[v].pending /\ Unusable(v).cursor = viewer[v].cursor
           /\ Unusable(v).net = viewer[v].net /\ Unusable(v).buffer = viewer[v].buffer
BY ViewerFields DEF Unusable, ViewerStates

LEMMA EntersFits ==
    ASSUME SInv, NEW v \in Viewers, NEW phase \in {"select", "loading", "battle", "menu"}
    PROVE  /\ Enters(v, phase) \in ViewerStates
           /\ Enters(v, phase).pending = viewer[v].pending /\ Enters(v, phase).cursor = viewer[v].cursor
           /\ Enters(v, phase).net = viewer[v].net /\ Enters(v, phase).buffer = viewer[v].buffer
<1> DEFINE e == viewer[v].ending /\ phase \in {"battle", "menu"}
           r == viewer[v].retrying /\ phase # "menu"
           s == viewer[v].stage /\ phase # "battle"
           o == viewer[v].over /\ phase # "battle"
           x == [viewer[v] EXCEPT !.phase = phase, !.ending = e, !.retrying = r, !.stage = s, !.over = o]
<1>1. Enters(v, phase) = x BY DEF Enters
<1>2. e \in BOOLEAN /\ r \in BOOLEAN /\ s \in BOOLEAN /\ o \in BOOLEAN OBVIOUS
<1> HIDE DEF e, r, s, o
<1>3. viewer[v] \in ViewerStates BY ViewerFields
<1>4. x \in ViewerStates BY <1>2, <1>3 DEF ViewerStates
<1>5. /\ x.pending = viewer[v].pending /\ x.cursor = viewer[v].cursor
      /\ x.net = viewer[v].net /\ x.buffer = viewer[v].buffer
  BY <1>3 DEF ViewerStates
<1> QED BY <1>1, <1>4, <1>5

LEMMA SelectingKeeps == ASSUME SInv, NEW v \in Viewers, PlaySelecting(v) PROVE SInv'
BY UsedFits, PlayedKeeps DEF PlaySelecting

LEMMA SelectionKeeps == ASSUME SInv, NEW v \in Viewers, PlaySelection(v) PROVE SInv'
<1> DEFINE x == [viewer[v] EXCEPT !.retrying = TRUE]
<1>1. CASE Becomes(v, Used(v)) BY <1>1, UsedFits, PlayedKeeps
<1>2. CASE Becomes(v, x)
  <2>1. /\ x \in ViewerStates /\ x.pending = viewer[v].pending /\ x.cursor = viewer[v].cursor
        /\ x.net = viewer[v].net /\ x.buffer = viewer[v].buffer
    BY ViewerFields DEF ViewerStates
  <2> HIDE DEF x
  <2> QED BY <1>2, <2>1, PlayedKeeps
<1> QED BY <1>1, <1>2 DEF PlaySelection

LEMMA StartKeeps == ASSUME SInv, NEW v \in Viewers, PlayStart(v) PROVE SInv'
<1> DEFINE x == [Used(v) EXCEPT !.next = At(v), !.retrying = FALSE, !.ending = FALSE,
                                !.over = FALSE, !.intro = FALSE]
<1>1. viewer[v].pending # 0 /\ Becomes(v, x) BY DEF PlayStart, Pending
<1>2. At(v) \in Places BY <1>1, PendingRecord
<1>3. /\ x \in ViewerStates /\ x.pending = 0 /\ x.cursor = viewer[v].cursor
      /\ x.net = viewer[v].net /\ x.buffer = viewer[v].buffer
  BY <1>2, UsedFits DEF ViewerStates
<1> HIDE DEF x
<1> QED BY <1>1, <1>3, PlayedKeeps

LEMMA EpochKeeps == ASSUME SInv, NEW v \in Viewers, PlayEpoch(v) PROVE SInv'
<1> DEFINE x == [Used(v) EXCEPT !.next = At(v), !.intro = FALSE]
<1>1. viewer[v].pending # 0 /\ (Becomes(v, x) \/ Becomes(v, Unusable(v))) BY DEF PlayEpoch, Pending
<1>2. At(v) \in Places BY <1>1, PendingRecord
<1>3. /\ x \in ViewerStates /\ x.pending = 0 /\ x.cursor = viewer[v].cursor
      /\ x.net = viewer[v].net /\ x.buffer = viewer[v].buffer
  BY <1>2, UsedFits DEF ViewerStates
<1> HIDE DEF x
<1>4. CASE Becomes(v, x) BY <1>3, <1>4, PlayedKeeps
<1>5. CASE Becomes(v, Unusable(v)) BY <1>5, UnusableFits, PlayedKeeps
<1> QED BY <1>1, <1>4, <1>5

LEMMA InputKeeps == ASSUME SInv, NEW v \in Viewers, PlayInput(v) PROVE SInv'
<1>1. CASE Becomes(v, Unusable(v)) BY <1>1, UnusableFits, PlayedKeeps
<1>2. ASSUME NEW phase \in {"battle", "menu"}, NEW intro \in BOOLEAN, NEW over \in BOOLEAN,
             NEW retrying \in BOOLEAN,
             Becomes(v, [Used(v) EXCEPT !.next[3] = @ + 1, !.phase = phase, !.intro = intro,
                                        !.over = over, !.retrying = retrying])
      PROVE  SInv'
  <2> DEFINE x == [Used(v) EXCEPT !.next[3] = @ + 1, !.phase = phase, !.intro = intro,
                                  !.over = over, !.retrying = retrying]
  <2>1. Used(v).next \in Places BY UsedFits DEF ViewerStates
  <2>2. [Used(v).next EXCEPT ![3] = @ + 1] \in Places BY <2>1 DEF Places
  <2>3. x = [Used(v) EXCEPT !.next = [Used(v).next EXCEPT ![3] = @ + 1], !.phase = phase,
                            !.intro = intro, !.over = over, !.retrying = retrying]
    BY UsedFits DEF ViewerStates
  <2> DEFINE next == [Used(v).next EXCEPT ![3] = @ + 1]
             y == [Used(v) EXCEPT !.next = next, !.phase = phase, !.intro = intro, !.over = over,
                                  !.retrying = retrying]
  <2>4. Becomes(v, y) BY <1>2, <2>3
  <2> HIDE DEF next, x
  <2>5. Used(v) \in ViewerStates BY UsedFits
  <2>6. next \in Places BY <2>2 DEF next
  <2>7. y \in ViewerStates BY <2>5, <2>6, <1>2 DEF ViewerStates
  <2>8. /\ y.pending = Used(v).pending /\ y.cursor = Used(v).cursor
        /\ y.net = Used(v).net /\ y.buffer = Used(v).buffer
    BY <2>5 DEF ViewerStates
  <2>9. /\ y.pending = 0 /\ y.cursor = viewer[v].cursor
        /\ y.net = viewer[v].net /\ y.buffer = viewer[v].buffer
    BY <2>8, UsedFits
  <2> HIDE DEF y
  <2> QED BY <2>4, <2>7, <2>9, PlayedKeeps
<1>3. ASSUME ~Becomes(v, Unusable(v)) PROVE SInv'
  <2>1. PICK phase \in {"battle", "menu"} :
          Becomes(v, [Used(v) EXCEPT !.next[3] = @ + 1, !.phase = phase,
                                     !.intro = (Data(v) = "round"), !.over = (Data(v) = "match"),
                                     !.retrying = @ /\ phase = "battle"])
    BY <1>3 DEF PlayInput
  <2>2. Becomes(v, [Used(v) EXCEPT !.next[3] = @ + 1, !.phase = phase,
                                   !.intro = (Data(v) = "round"), !.over = (Data(v) = "match"),
                                   !.retrying = (Used(v).retrying /\ phase = "battle")])
    BY <2>1
  <2> QED BY <1>2, <2>2
<1> QED BY <1>1, <1>3

LEMMA ResultKeeps == ASSUME SInv, NEW v \in Viewers, PlayResult(v) PROVE SInv'
<1> DEFINE x == [Used(v) EXCEPT !.ending = TRUE]
<1>1. Becomes(v, x) BY DEF PlayResult
<1>2. /\ x \in ViewerStates /\ x.pending = 0 /\ x.cursor = viewer[v].cursor
      /\ x.net = viewer[v].net /\ x.buffer = viewer[v].buffer
  BY UsedFits DEF ViewerStates
<1> HIDE DEF x
<1> QED BY <1>1, <1>2, PlayedKeeps

LEMMA RetryKeeps == ASSUME SInv, NEW v \in Viewers, PlayRetry(v) PROVE SInv'
<1> DEFINE stage == (Data(v) = "stage")
           again == (Data(v) # "stage")
           x == [Used(v) EXCEPT !.target = Data(v), !.stage = stage, !.retrying = again]
<1>1. viewer[v].pending # 0 /\ Becomes(v, x) BY DEF PlayRetry, Pending
<1>2. Data(v) \in Contents BY <1>1, PendingRecord
<1>3. stage \in BOOLEAN /\ again \in BOOLEAN OBVIOUS
<1> HIDE DEF stage, again
<1>4. /\ x \in ViewerStates /\ x.pending = 0 /\ x.cursor = viewer[v].cursor
      /\ x.net = viewer[v].net /\ x.buffer = viewer[v].buffer
  BY <1>2, <1>3, UsedFits DEF ViewerStates
<1> HIDE DEF x
<1> QED BY <1>1, <1>4, PlayedKeeps

LEMMA GiveUpKeeps == ASSUME SInv, NEW v \in Viewers, GiveUp(v) PROVE SInv'
BY UnusableFits, PlayedKeeps DEF GiveUp

LEMMA GameKeeps == ASSUME SInv, NEW v \in Viewers, GameGoesOn(v) PROVE SInv'
<1>1. CASE Becomes(v, Unusable(v)) BY <1>1, UnusableFits, PlayedKeeps
<1>2. ASSUME NEW phase \in {"select", "loading", "battle", "menu"}, Becomes(v, Enters(v, phase))
      PROVE  SInv'
  BY <1>2, EntersFits, PlayedKeeps
<1> QED BY <1>1, <1>2 DEF GameGoesOn

-----------------------------------------------------------------------------

LEMMA StepKeeps == SInv /\ [Next]_vars => SInv'
<1> SUFFICES ASSUME SInv, [Next]_vars PROVE SInv'
  OBVIOUS
<1>1. CASE Players BY <1>1, PlayersKeep
<1>2. CASE Collect BY <1>2, CollectKeeps
<1>3. ASSUME NEW v \in Viewers,
             \/ Accept(v) \/ Serve(v) \/ CutOff(v) \/ Close(v)
             \/ Receive(v) \/ Playback(v) \/ GiveUp(v)
      PROVE  SInv'
  <2>6. CASE GiveUp(v) BY <2>6, GiveUpKeeps
  <2>1. CASE Accept(v) BY <2>1, AcceptKeeps
  <2>2. CASE Serve(v) BY <2>2, ServeKeeps
  <2>3. CASE CutOff(v) \/ Close(v) BY <2>3, CloseKeeps
  <2>4. CASE Receive(v) BY <2>4, ReceiveKeeps
  <2>5. CASE Playback(v)
    BY <2>5, TakeKeeps, SelectingKeeps, SelectionKeeps, StartKeeps, EpochKeeps, InputKeeps,
       ResultKeeps, RetryKeeps, GameKeeps DEF Playback
  <2> QED BY <1>3, <2>1, <2>2, <2>3, <2>4, <2>5, <2>6
<1>4. CASE UNCHANGED vars
  BY <1>4 DEF vars, SInv, TypeOK, StreamType, SceneType, RunningType, QueueType, ArchiveType,
              ViewerType, QueueRing, ArchiveRing, Lines, Line, LineOf
<1> QED BY <1>1, <1>2, <1>3, <1>4 DEF Next

\* The invariant holds: the rings hold what their readers will want, and what is
\* under way to a spectator is consecutive.
THEOREM SpectatorInvariant == Spec => []SInv
<1>1. SInv /\ [Next]_vars => SInv' BY StepKeeps
<1> QED BY InitKeeps, <1>1, PTL DEF Spec

\* The types of all variables, the fields of every spectator among them.
THEOREM SpectatorTypes == Spec => []TypeOK
<1>1. SInv => TypeOK BY DEF SInv
<1> QED BY SpectatorInvariant, <1>1, PTL

\* Concatenated, what is pending, in the buffer and in the connection is consecutive.
LEMMA LineIsConsecutive ==
    ASSUME NEW cursor \in Nat, NEW net \in Seq(Nat), NEW buffer \in Seq(Nat), NEW pending \in Nat,
           LineOf(cursor, net, buffer, pending)
    PROVE  LET s == (IF pending = 0 THEN <<>> ELSE <<pending>>) \o buffer \o net
           IN \A i \in DOMAIN s : s[i] = cursor - 1 - Len(s) + i
<1> DEFINE first == IF pending = 0 THEN <<>> ELSE <<pending>>
           s == first \o buffer \o net
<1>1. /\ first \in Seq(Nat) /\ Len(first) \in Nat
      /\ \A i \in 1 .. Len(first) : i = 1 /\ first[i] = pending /\ pending # 0 /\ Len(first) = 1
  <2>1. CASE pending = 0 BY <2>1
  <2>2. CASE pending # 0 BY <2>2
  <2> QED BY <2>1, <2>2
<1> HIDE DEF first
<1>2. Len(net) \in Nat /\ Len(buffer) \in Nat OBVIOUS
<1>3. first \o buffer \in Seq(Nat) /\ Len(first \o buffer) = Len(first) + Len(buffer) BY <1>1
<1>4. /\ \A i \in 1 .. Len(first) : (first \o buffer)[i] = first[i]
      /\ \A i \in 1 .. Len(buffer) : (first \o buffer)[Len(first) + i] = buffer[i]
  BY <1>1
<1> DEFINE front == first \o buffer
<1>5. front \in Seq(Nat) /\ Len(front) = Len(first) + Len(buffer) /\ s = front \o net BY <1>3
<1>6. /\ \A i \in 1 .. Len(first) : front[i] = first[i]
      /\ \A i \in 1 .. Len(buffer) : front[Len(first) + i] = buffer[i]
  BY <1>4
<1> HIDE DEF front, s
<1>7. /\ s \in Seq(Nat) /\ Len(s) = Len(front) + Len(net) /\ DOMAIN s = 1 .. Len(s)
      /\ \A i \in 1 .. Len(front) : s[i] = front[i]
      /\ \A i \in 1 .. Len(net) : s[Len(front) + i] = net[i]
  <2>1. front \in Seq(Nat) /\ net \in Seq(Nat) /\ s = front \o net BY <1>5
  <2>2. s \in Seq(Nat) /\ Len(s) = Len(front) + Len(net) BY <2>1
  <2>3. /\ \A i \in 1 .. Len(front) : s[i] = front[i]
        /\ \A i \in 1 .. Len(net) : s[Len(front) + i] = net[i]
    BY <2>1
  <2> QED BY <2>2, <2>3
<1>8. ASSUME NEW i \in 1 .. Len(s) PROVE s[i] = cursor - 1 - Len(s) + i
  <2>0. Len(s) = Len(first) + Len(buffer) + Len(net) /\ i \in Nat BY <1>5, <1>7
  <2>1. CASE i <= Len(first)
    <3>1. i \in 1 .. Len(first) /\ i \in 1 .. Len(front) BY <1>1, <1>2, <1>5, <2>0, <2>1
    <3>2. i = 1 /\ Len(first) = 1 /\ s[i] = pending /\ pending # 0 BY <1>1, <1>6, <1>7, <3>1
    <3>3. pending = cursor - 1 - Len(net) - Len(buffer) BY <3>2 DEF LineOf
    <3>4. cursor - 1 - Len(net) - Len(buffer) = cursor - 1 - Len(s) + i BY <1>2, <2>0, <3>2
    <3> QED BY <3>2, <3>3, <3>4
  <2>2. CASE i > Len(first) /\ i <= Len(front)
    <3>1. /\ i \in 1 .. Len(front) /\ i - Len(first) \in 1 .. Len(buffer)
          /\ Len(first) + (i - Len(first)) = i
      BY <1>1, <1>2, <1>5, <2>0, <2>2
    <3>2. s[i] = buffer[i - Len(first)] BY <1>6, <1>7, <3>1
    <3>3. buffer[i - Len(first)] = cursor - 1 - Len(net) - Len(buffer) + (i - Len(first))
      BY <3>1 DEF LineOf
    <3>4. cursor - 1 - Len(net) - Len(buffer) + (i - Len(first)) = cursor - 1 - Len(s) + i
      BY <1>1, <1>2, <2>0
    <3> QED BY <3>2, <3>3, <3>4
  <2>3. CASE i > Len(front)
    <3>1. i - Len(front) \in 1 .. Len(net) /\ Len(front) + (i - Len(front)) = i
      BY <1>1, <1>2, <1>5, <1>7, <2>0, <2>3
    <3>2. s[i] = net[i - Len(front)] BY <1>7, <3>1
    <3>3. net[i - Len(front)] = cursor - 1 - Len(net) + (i - Len(front)) BY <3>1 DEF LineOf
    <3>4. cursor - 1 - Len(net) + (i - Len(front)) = cursor - 1 - Len(s) + i
      BY <1>1, <1>2, <1>5, <1>7, <2>0
    <3> QED BY <3>2, <3>3, <3>4
  <2>4. i <= Len(first) \/ (i > Len(first) /\ i <= Len(front)) \/ i > Len(front)
    BY <1>1, <1>2, <1>5, <2>0
  <2> QED BY <2>1, <2>2, <2>3, <2>4
<1> QED BY <1>7, <1>8 DEF s, front, first

\* What a spectator is sent has no gaps and nothing twice, for rings and batches
\* of any size, however far the worker or the spectator falls behind.
THEOREM SpectatorsMissNothing == Spec => []StreamIntact
<1>1. SInv => StreamIntact
  <2> SUFFICES ASSUME SInv, NEW v \in Viewers
               PROVE  LET s == UnderWay(v) IN
                      \A i \in DOMAIN s : s[i] = viewer[v].cursor - 1 - Len(s) + i
    BY DEF StreamIntact
  <2>1. /\ viewer[v].cursor \in Nat /\ viewer[v].pending \in Nat
        /\ viewer[v].net \in Seq(Nat) /\ viewer[v].buffer \in Seq(Nat)
        /\ LineOf(viewer[v].cursor, viewer[v].net, viewer[v].buffer, viewer[v].pending)
    BY ViewerFields DEF Line
  <2> DEFINE y == viewer[v]
             s == (IF y.pending = 0 THEN <<>> ELSE <<y.pending>>) \o y.buffer \o y.net
  <2>2. \A i \in DOMAIN s : s[i] = y.cursor - 1 - Len(s) + i
    <3> DEFINE cursor == y.cursor
               net == y.net
               buffer == y.buffer
               pending == y.pending
    <3>1. cursor \in Nat /\ net \in Seq(Nat) /\ buffer \in Seq(Nat) /\ pending \in Nat
          /\ LineOf(cursor, net, buffer, pending)
      BY <2>1
    <3> HIDE DEF cursor, net, buffer, pending
    <3>2. LET t == (IF pending = 0 THEN <<>> ELSE <<pending>>) \o buffer \o net
          IN \A i \in DOMAIN t : t[i] = cursor - 1 - Len(t) + i
      BY <3>1, LineIsConsecutive, Zenon
    <3> QED BY <3>2, Zenon DEF cursor, net, buffer, pending
  <2>3. UnderWay(v) = s BY DEF UnderWay
  <2> QED BY <2>2, <2>3, Zenon
<1> QED BY SpectatorInvariant, <1>1, PTL

-----------------------------------------------------------------------------
(* The course of the match, and where in it the games of the spectators are. *)

\* What the players do after the record r, and the place of the inputs due then.
Leads(r) ==
    CASE r.kind = "Selecting" -> "selecting"
      [] r.kind = "Selection" -> "selected"
      [] r.kind \in {"Start", "Epoch"} -> "round"
      [] r.kind = "Input" -> (CASE r.data = "on" -> "round"
                                [] r.data = "round" -> "next round"
                                [] r.data = "closing" -> "closing"
                                [] r.data = "match" -> "over")
      [] r.kind = "Result" -> "menu"
      [] r.kind = "Retry" -> IF r.data = "once" THEN "selected" ELSE "select"
Due(r) == IF r.kind = "Input" THEN [r.at EXCEPT ![3] = @ + 1] ELSE r.at

\* The same before the n-th record.
Before(n) == IF n = 1 THEN "select" ELSE Leads(stream[n - 1])
DueAt(n) == IF n = 1 THEN <<1, 1, 0>> ELSE Due(stream[n - 1])

\* The records by which a match can go on.
Allowed(at, r) ==
    \/ at = "select" /\ r.kind = "Selecting"
    \/ at \in {"select", "selecting"} /\ r.kind = "Selection"
    \/ at = "selected" /\ r.kind = "Start"
    \/ at = "round" /\ r.kind = "Input" /\ r.data \in {"on", "round", "closing"}
    \/ at = "closing" /\ r.kind = "Input" /\ r.data = "match"
    \/ at = "next round" /\ r.kind = "Epoch"
    \/ at = "over" /\ r.kind = "Result"
    \/ at = "menu" /\ r.kind = "Retry" /\ r.data \in {"select", "once", "stage"}

\* The stream tells a match that the players can have played, up to where they are.
Course ==
    /\ \A n \in 1 .. Len(stream) :
          /\ Allowed(Before(n), stream[n])
          /\ stream[n].kind = "Input" => stream[n].at = DueAt(n)
    /\ scene.at = Before(Len(stream) + 1)
    /\ scene.at \in {"round", "closing"} => <<scene.match, scene.round, scene.frame>> = DueAt(Len(stream) + 1)

\* Who comes late begins where a match can be watched from.
Starts == archive.start # 0 => archive.start < archive.head /\ Begins(archive.start)

\* The number of the record the game of a spectator comes to next, and the kind of
\* the one it holds.
NextRecord(x) == x.cursor - Len(x.net) - Len(x.buffer) - (IF x.pending = 0 THEN 0 ELSE 1)
InHand(x) == IF x.pending = 0 THEN "" ELSE stream[x.pending].kind

\* Before a selection the game is in the selection, or still in the menu after a
\* match: on the way back to the selection, or with a stage to be drawn; with the
\* selection in hand it goes on to the battle.
BeforeSelection(x, kind) ==
    \/ x.phase = "select" /\ ~x.ending
    \/ x.phase = "menu" /\ x.stage /\ ~x.retrying /\ x.target = "stage"
    \/ x.phase = "menu" /\ x.retrying /\ x.target = "select" /\ kind = ""
    \/ x.phase = "menu" /\ x.retrying /\ x.target = "stage" /\ kind = "Selection"
    \/ x.phase \in {"loading", "battle"} /\ ~x.ending /\ kind = "Selection"

\* Before a start it is on the way to the battle, from the selection or the menu.
BeforeStart(x, kind) ==
    \/ x.phase \in {"select", "loading", "battle"} /\ ~x.ending
    \/ x.phase = "menu" /\ x.retrying /\ x.target = "once" /\ kind = ""

\* Where a game can be when the players were at the place at, and inputs were due.
Stands(x, at, due, kind) ==
    /\ at \in {"select", "selecting"} => BeforeSelection(x, kind)
    /\ at = "selected" => BeforeStart(x, kind)
    /\ at = "round" => x.phase = "battle" /\ ~x.ending /\ ~x.retrying /\ x.next = due
    /\ at = "next round" => x.phase = "battle" /\ ~x.ending /\ ~x.retrying /\ x.intro
    /\ at = "closing" => x.phase \in {"battle", "menu"} /\ ~x.ending /\ ~x.retrying /\ x.next = due
    /\ at = "over" => x.phase \in {"battle", "menu"} /\ ~x.ending /\ ~x.retrying /\ x.over
    /\ at = "menu" => x.phase \in {"battle", "menu"} /\ x.ending /\ ~x.retrying /\ x.over

\* Why a game is sent away when the players were at the place at: nothing has come, or
\* it has ended the match and the last input is in hand.
SentAway(x, at) ==
    \/ x.phase = "battle" /\ ~x.ending /\ x.pending = 0 /\ x.buffer = <<>>
    \/ x.phase = "menu" /\ x.pending # 0 /\ at = "closing"

InStep(x) ==
    IF x.cursor = 0 THEN x.valid /\ x.phase = "select" /\ ~x.ending
    ELSE /\ Stands(x, Before(NextRecord(x)), DueAt(NextRecord(x)), InHand(x))
         /\ x.valid \/ SentAway(x, Before(NextRecord(x)))

AllInStep == \A v \in Viewers : InStep(viewer[v])

PlayInv == Course /\ Starts /\ AllInStep

LEMMA InitPlays == Init => PlayInv
<1> SUFFICES ASSUME Init PROVE PlayInv
  OBVIOUS
<1>1. Course BY DEF Init, Course, Before
<1>2. Starts BY DEF Init, Starts
<1>3. ASSUME NEW v \in Viewers PROVE InStep(viewer[v])
  <2>1. viewer[v] = Away BY DEF Init
  <2>2. Away.valid /\ Away.cursor = 0 /\ Away.phase = "select" /\ ~Away.ending BY DEF Away
  <2> QED BY <2>1, <2>2 DEF InStep
<1> QED BY <1>1, <1>2, <1>3 DEF PlayInv, AllInStep

LEMMA StreamFields ==
    ASSUME SInv
    PROVE  /\ stream \in Seq(Records) /\ Len(stream) \in Nat
           /\ \A n \in 1 .. Len(stream) : stream[n] \in Records
           /\ archive.head \in Nat /\ archive.start \in Nat /\ archive.head <= Len(stream) + 1
<1>1. stream \in Seq(Records) /\ Len(stream) \in Nat BY DEF SInv, TypeOK, StreamType
<1>2. \A n \in 1 .. Len(stream) : stream[n] \in Records BY <1>1
<1>3. /\ queue.read \in Nat /\ queue.write \in Nat /\ queue.read <= queue.write
      /\ queue.write <= Len(stream) /\ archive.head = queue.read + 1
  BY DEF SInv, TypeOK, QueueType, Queues, QueueRing, ArchiveRing
<1>4. archive.head \in Nat /\ archive.start \in Nat BY DEF SInv, TypeOK, ArchiveType, Archives
<1> QED BY <1>1, <1>2, <1>3, <1>4

\* The next record is one of the stream or the one that will be published next.
LEMMA Numbered ==
    ASSUME SInv, NEW v \in Viewers
    PROVE  /\ viewer[v].cursor # 0 => NextRecord(viewer[v]) \in 1 .. Len(stream) + 1
           /\ viewer[v].pending # 0 => /\ viewer[v].cursor # 0
                                       /\ NextRecord(viewer[v]) = viewer[v].pending
                                       /\ viewer[v].pending \in 1 .. Len(stream)
           /\ viewer[v].cursor = 0 => viewer[v].net = <<>> /\ viewer[v].buffer = <<>> /\ viewer[v].pending = 0
<1> DEFINE y == viewer[v]
           c == y.cursor
           a == Len(y.net)
           b == Len(y.buffer)
           p == y.pending
           l == Len(stream)
           h == archive.head
<1>1. /\ c \in Nat /\ p \in Nat /\ a \in Nat /\ b \in Nat /\ c <= h /\ Line(y)
      /\ h \in Nat /\ l \in Nat /\ h <= l + 1
  BY ViewerFields, StreamFields
<1>2. /\ p # 0 => p = c - 1 - a - b
      /\ (c = 0 /\ y.net = <<>> /\ y.buffer = <<>> /\ p = 0) \/ c - a - b >= 1
  BY <1>1 DEF Line, LineOf
<1>3. NextRecord(y) = c - a - b - (IF p = 0 THEN 0 ELSE 1) BY DEF NextRecord
<1> HIDE DEF y, c, a, b, p, l, h
<1>4. c # 0 => c - a - b >= 1 BY <1>2
<1>5. c # 0 => NextRecord(y) \in 1 .. l + 1
  <2>1. CASE p = 0 BY <1>1, <1>3, <1>4, <2>1
  <2>2. CASE p # 0 BY <1>1, <1>2, <1>3, <2>2
  <2> QED BY <2>1, <2>2
<1>6. p # 0 => c # 0 /\ NextRecord(y) = p /\ p \in 1 .. l
  <2> SUFFICES ASSUME p # 0 PROVE c # 0 /\ NextRecord(y) = p /\ p \in 1 .. l
    OBVIOUS
  <2>1. p = c - 1 - a - b BY <1>2
  <2> QED BY <1>1, <1>3, <2>1
<1>7. c = 0 => y.net = <<>> /\ y.buffer = <<>> /\ p = 0
  <2>1. c = 0 => ~(c - a - b >= 1) BY <1>1
  <2> QED BY <1>2, <2>1
<1> QED BY <1>5, <1>6, <1>7 DEF y, c, p, l

\* The players go on, and what the spectators will come to goes with them.
LEMMA PublishPlays ==
    ASSUME SInv, PlayInv, NEW r \in Records, Publish(r), Allowed(scene.at, r),
           r.kind = "Input" => r.at = <<scene.match, scene.round, scene.frame>>,
           scene'.at = Leads(r),
           scene'.at \in {"round", "closing"} => <<scene'.match, scene'.round, scene'.frame>> = Due(r)
    PROVE  PlayInv'
<1> SUFFICES ASSUME NEW l \in Nat, l = Len(stream) PROVE PlayInv'
  BY StreamFields
<1>0. /\ stream \in Seq(Records) /\ l \in Nat /\ archive.head \in Nat /\ archive.start \in Nat
      /\ archive.head <= l + 1 /\ Course /\ Starts /\ AllInStep
  BY StreamFields DEF PlayInv
<1>1. stream' = Append(stream, r) /\ archive' = archive /\ viewer' = viewer
  BY DEF Publish
<1>2. /\ Len(stream') = l + 1 /\ stream'[l + 1] = r
      /\ \A n \in 1 .. l : stream'[n] = stream[n]
  BY <1>0, <1>1
<1>3. ASSUME NEW n \in 1 .. l + 1 PROVE Before(n)' = Before(n) /\ DueAt(n)' = DueAt(n)
  <2>1. CASE n = 1 BY <2>1 DEF Before, DueAt
  <2>2. CASE n # 1
    <3>1. n - 1 \in 1 .. l BY <1>0, <2>2
    <3>2. stream'[n - 1] = stream[n - 1] BY <1>2, <3>1
    <3> QED BY <2>2, <3>2 DEF Before, DueAt
  <2> QED BY <2>1, <2>2
<1>4. Before(l + 2)' = Leads(r) /\ DueAt(l + 2)' = Due(r)
  <2>1. l + 2 # 1 /\ l + 2 - 1 = l + 1 BY <1>0
  <2> QED BY <1>2, <2>1 DEF Before, DueAt
<1>5. Course'
  <2>1. ASSUME NEW n \in 1 .. Len(stream')
        PROVE  /\ Allowed(Before(n)', stream'[n])
               /\ stream'[n].kind = "Input" => stream'[n].at = DueAt(n)'
    <3>1. n \in 1 .. l + 1 BY <1>2
    <3>2. CASE n \in 1 .. l
      <4>1. Before(n)' = Before(n) /\ DueAt(n)' = DueAt(n) /\ stream'[n] = stream[n]
        BY <1>2, <1>3, <3>1, <3>2
      <4>2. Allowed(Before(n), stream[n]) /\ (stream[n].kind = "Input" => stream[n].at = DueAt(n))
        BY <1>0, <3>2 DEF Course
      <4> QED BY <4>1, <4>2
    <3>3. CASE n = l + 1
      <4>1. Before(n)' = scene.at /\ stream'[n] = r /\ DueAt(n)' = DueAt(l + 1)
        BY <1>0, <1>2, <1>3, <3>1, <3>3 DEF Course
      <4>2. r.kind = "Input" => scene.at \in {"round", "closing"} BY DEF Allowed
      <4>3. r.kind = "Input" => r.at = DueAt(l + 1) BY <1>0, <4>2 DEF Course
      <4> QED BY <4>1, <4>3
    <3> QED BY <1>0, <3>1, <3>2, <3>3
  <2>2. Len(stream') + 1 = l + 2 BY <1>0, <1>2
  <2>3. scene'.at = Before(l + 2)' BY <1>4
  <2>4. scene'.at \in {"round", "closing"} =>
            <<scene'.match, scene'.round, scene'.frame>> = DueAt(l + 2)'
    BY <1>4
  <2> QED BY <2>1, <2>2, <2>3, <2>4 DEF Course, Before, DueAt, Allowed
<1>6. Starts'
  <2> SUFFICES ASSUME archive.start # 0 PROVE archive.start < archive.head /\ Begins(archive.start)'
    BY <1>1 DEF Starts, Begins
  <2>1. archive.start < archive.head /\ Begins(archive.start) BY <1>0 DEF Starts
  <2>2. archive.start \in 1 .. l BY <1>0, <2>1
  <2>3. stream'[archive.start] = stream[archive.start] BY <1>2, <2>2
  <2>4. archive'.start = archive.start BY <1>1
  <2> QED BY <2>1, <2>3, <2>4 DEF Begins
<1>7. ASSUME NEW v \in Viewers PROVE InStep(viewer[v])'
  <2> SUFFICES ASSUME NEW n, n = NextRecord(viewer[v]), NEW k, k = InHand(viewer[v])
               PROVE  InStep(viewer[v])'
    OBVIOUS
  <2>1. InStep(viewer[v]) BY <1>0 DEF AllInStep
  <2>2. CASE viewer[v].cursor = 0 BY <1>1, <2>1, <2>2 DEF InStep
  <2>3. CASE viewer[v].cursor # 0
    <3>1. n \in 1 .. l + 1 BY <2>3, Numbered
    <3>2. NextRecord(viewer[v])' = n BY <1>1 DEF NextRecord
    <3>3. InHand(viewer[v])' = k
      <4>1. viewer[v].pending # 0 => viewer[v].pending \in 1 .. l BY Numbered
      <4> QED BY <1>1, <1>2, <4>1 DEF InHand
    <3>4. /\ Stands(viewer[v], Before(n), DueAt(n), k)
          /\ viewer[v].valid \/ SentAway(viewer[v], Before(n))
      BY <2>1, <2>3 DEF InStep
    <3>5. Before(n)' = Before(n) /\ DueAt(n)' = DueAt(n) BY <1>3, <3>1
    <3>6. InStep(viewer[v])' = /\ Stands(viewer[v], Before(n), DueAt(n), k)
                               /\ viewer[v].valid \/ SentAway(viewer[v], Before(n))
      BY <1>1, <2>3, <3>2, <3>3, <3>5
      DEF InStep, SentAway, Stands, BeforeSelection, BeforeStart, Before, DueAt
    <3> QED BY <3>4, <3>6
  <2> QED BY <2>2, <2>3
<1> QED BY <1>5, <1>6, <1>7 DEF PlayInv, AllInStep

LEMMA RecordSays ==
    ASSUME NEW kind, NEW data
    PROVE  /\ Record(kind, data).kind = kind /\ Record(kind, data).data = data
           /\ Record(kind, data).at = <<scene.match, scene.round, scene.frame>>
BY DEF Record

LEMMA PlayersPlay == ASSUME SInv, PlayInv, Players PROVE PlayInv'
<1>0. TypeOK BY DEF SInv
<1>1. scene \in Scenes BY <1>0 DEF TypeOK, SceneType
<1>2. scene.match \in Nat /\ scene.round \in Nat /\ scene.frame \in Nat BY <1>1 DEF Scenes
<1>3. CASE PublishSelecting
  <2> DEFINE r == Record("Selecting", "")
  <2>1. Publish(r) /\ r \in Records /\ scene.at = "select" /\ scene'.at = "selecting"
    BY <1>0, <1>1, <1>3, RecordTyped DEF PublishSelecting, Kinds, Contents, Scenes
  <2>2. r.kind = "Selecting" BY RecordSays
  <2> HIDE DEF r
  <2>3. Allowed(scene.at, r) /\ Leads(r) = "selecting" /\ r.kind # "Input"
    BY <2>1, <2>2 DEF Allowed, Leads
  <2> QED BY <2>1, <2>3, PublishPlays
<1>4. CASE PublishSelection
  <2> DEFINE r == Record("Selection", "")
  <2>1. Publish(r) /\ r \in Records /\ scene.at \in {"select", "selecting"} /\ scene'.at = "selected"
    BY <1>0, <1>1, <1>4, RecordTyped DEF PublishSelection, Kinds, Contents, Scenes
  <2>2. r.kind = "Selection" BY RecordSays
  <2> HIDE DEF r
  <2>3. Allowed(scene.at, r) /\ Leads(r) = "selected" /\ r.kind # "Input"
    BY <2>1, <2>2 DEF Allowed, Leads
  <2> QED BY <2>1, <2>3, PublishPlays
<1>5. CASE PublishStart
  <2> DEFINE q == Record("Start", "")
             r == [q EXCEPT !.at = <<scene.match, 1, 1>>]
  <2>1. Publish(r) /\ scene.at = "selected" BY <1>5 DEF PublishStart
  <2>2. scene'.at = "round" /\ <<scene'.match, scene'.round, scene'.frame>> = <<scene.match, 1, 1>>
    BY <1>1, <1>5 DEF PublishStart, Scenes
  <2>3. q \in Records /\ q.kind = "Start" BY <1>0, RecordTyped, RecordSays DEF Kinds, Contents
  <2> HIDE DEF q
  <2>4. <<scene.match, 1, 1>> \in Places BY <1>2 DEF Places
  <2>5. r \in Records /\ r.kind = "Start" /\ r.at = <<scene.match, 1, 1>> BY <2>3, <2>4 DEF Records
  <2> HIDE DEF r
  <2>6. Allowed(scene.at, r) /\ Leads(r) = "round" /\ r.kind # "Input" /\ Due(r) = r.at
    BY <2>1, <2>5 DEF Allowed, Leads, Due
  <2> QED BY <2>1, <2>2, <2>5, <2>6, PublishPlays
<1>6. CASE PublishEpoch
  <2> DEFINE q == Record("Epoch", "")
             place == <<scene.match, scene.round + 1, 1>>
             r == [q EXCEPT !.at = place]
  <2>1. Publish(r) /\ scene.at = "next round" BY <1>6 DEF PublishEpoch
  <2>2. scene'.at = "round" /\ <<scene'.match, scene'.round, scene'.frame>> = place
    BY <1>1, <1>6 DEF PublishEpoch, Scenes
  <2>3. q \in Records /\ q.kind = "Epoch" BY <1>0, RecordTyped, RecordSays DEF Kinds, Contents
  <2>4. place \in Places BY <1>2 DEF Places
  <2> HIDE DEF q, place
  <2>5. r \in Records /\ r.kind = "Epoch" /\ r.at = place BY <2>3, <2>4 DEF Records
  <2> HIDE DEF r
  <2>6. Allowed(scene.at, r) /\ Leads(r) = "round" /\ r.kind # "Input" /\ Due(r) = r.at
    BY <2>1, <2>5 DEF Allowed, Leads, Due
  <2> QED BY <2>1, <2>2, <2>5, <2>6, PublishPlays
<1>7. ASSUME NEW outcome \in {"on", "round", "closing", "match"}, PublishInput(outcome) PROVE PlayInv'
  <2> DEFINE r == Record("Input", outcome)
             at == CASE outcome = "on" -> "round"
                     [] outcome = "round" -> "next round"
                     [] outcome = "closing" -> "closing"
                     [] outcome = "match" -> "over"
             place == <<scene.match, scene.round, scene.frame>>
  <2>1. Publish(r) /\ r \in Records /\ scene.at = IF outcome = "match" THEN "closing" ELSE "round"
    BY <1>0, <1>7, RecordTyped DEF PublishInput, Kinds, Contents
  <2>2. scene' = [scene EXCEPT !.frame = @ + 1, !.at = at] BY <1>7 DEF PublishInput
  <2>3. r.kind = "Input" /\ r.data = outcome /\ r.at = place BY RecordSays
  <2> HIDE DEF r
  <2>4. Allowed(scene.at, r) /\ Leads(r) = at BY <2>1, <2>3 DEF Allowed, Leads
  <2> HIDE DEF at
  <2>5. scene'.at = at /\ <<scene'.match, scene'.round, scene'.frame>> = <<scene.match, scene.round, scene.frame + 1>>
    BY <1>1, <2>2 DEF Scenes
  <2>6. Due(r) = <<scene.match, scene.round, scene.frame + 1>>
    <3>1. [place EXCEPT ![3] = @ + 1] = <<scene.match, scene.round, scene.frame + 1>> BY <1>2
    <3> QED BY <2>3, <3>1 DEF Due
  <2> QED BY <2>1, <2>3, <2>4, <2>5, <2>6, PublishPlays
<1>8. CASE PublishResult
  <2> DEFINE r == Record("Result", "")
  <2>1. Publish(r) /\ r \in Records /\ scene.at = "over" /\ scene'.at = "menu"
    BY <1>0, <1>1, <1>8, RecordTyped DEF PublishResult, Kinds, Contents, Scenes
  <2>2. r.kind = "Result" BY RecordSays
  <2> HIDE DEF r
  <2>3. Allowed(scene.at, r) /\ Leads(r) = "menu" /\ r.kind # "Input"
    BY <2>1, <2>2 DEF Allowed, Leads
  <2> QED BY <2>1, <2>3, PublishPlays
<1>9. ASSUME NEW target \in {"select", "once", "stage"}, PublishRetry(target) PROVE PlayInv'
  <2> DEFINE r == Record("Retry", target)
             at == IF target = "once" THEN "selected" ELSE "select"
  <2>1. Publish(r) /\ r \in Records /\ scene.at = "menu"
    BY <1>0, <1>9, RecordTyped DEF PublishRetry, Kinds, Contents
  <2>2. scene'.at = at BY <1>1, <1>9 DEF PublishRetry, Scenes
  <2>3. r.kind = "Retry" /\ r.data = target BY RecordSays
  <2> HIDE DEF r
  <2>4. Allowed(scene.at, r) /\ Leads(r) = at /\ r.kind # "Input" /\ at \notin {"round", "closing"}
    BY <2>1, <2>3 DEF Allowed, Leads
  <2> HIDE DEF at
  <2> QED BY <2>1, <2>2, <2>4, PublishPlays
<1> QED BY <1>3, <1>4, <1>5, <1>6, <1>7, <1>8, <1>9 DEF Players

\* The worker notes where a match can be watched from.
LEMMA CollectPlays == ASSUME SInv, PlayInv, Collect PROVE PlayInv'
<1>0. Course /\ Starts /\ AllInStep BY DEF PlayInv
<1> DEFINE n == queue.slots[queue.read % Queued]
<1>1. /\ stream' = stream /\ scene' = scene /\ viewer' = viewer /\ queue.read < queue.write
      /\ archive' = [archive EXCEPT !.slots[archive.head % Archived] = n, !.head = @ + 1,
                                    !.start = IF Begins(n) THEN archive.head ELSE @]
  BY DEF Collect
<1>2. archive \in Archives /\ archive.head = queue.read + 1 /\ queue.read \in Nat
  BY DEF SInv, TypeOK, ArchiveType, QueueType, Queues, ArchiveRing
<1>3. n = archive.head
  <2>1. queue.slots[queue.read % Queued] = queue.read + 1 BY <1>1, <1>2 DEF SInv, QueueRing
  <2> QED BY <1>2, <2>1
<1> HIDE DEF n
<1>4. archive'.head = archive.head + 1 /\ archive'.start = IF Begins(n) THEN archive.head ELSE archive.start
  BY <1>1, <1>2 DEF Archives
<1>5. \A m : Begins(m)' = Begins(m) BY <1>1 DEF Begins
<1>6. Starts'
  <2>1. archive.head \in Nat /\ archive.start \in Nat BY StreamFields
  <2>2. CASE Begins(n)
    <3>1. archive'.start = archive.head /\ archive'.start < archive'.head BY <1>4, <2>1, <2>2
    <3>2. Begins(archive'.start) BY <1>3, <2>2, <3>1
    <3> QED BY <1>1, <3>1, <3>2 DEF Starts, Begins
  <2>3. CASE ~Begins(n)
    <3>1. archive'.start = archive.start BY <1>4, <2>3
    <3>2. archive.start # 0 => archive'.start < archive'.head /\ Begins(archive'.start)
      BY <1>0, <1>4, <2>1, <3>1 DEF Starts
    <3> QED BY <1>1, <3>1, <3>2 DEF Starts, Begins
  <2> QED BY <2>2, <2>3
<1>7. Course' BY <1>0, <1>1 DEF Course, Before, DueAt
<1>8. AllInStep' BY <1>0, <1>1 DEF AllInStep, InStep, SentAway, NextRecord, InHand, Before, DueAt
<1> QED BY <1>6, <1>7, <1>8 DEF PlayInv

\* One spectator changes, and is in step again.
LEMMA OneInStep ==
    ASSUME SInv, PlayInv, NEW v \in Viewers, NEW x, Becomes(v, x), InStep(x)
    PROVE  PlayInv'
<1>1. /\ viewer' = [viewer EXCEPT ![v] = x]
      /\ stream' = stream /\ scene' = scene /\ archive' = archive
  BY DEF Becomes
<1>2. Course /\ Starts /\ AllInStep BY DEF PlayInv
<1>3. Course' BY <1>1, <1>2 DEF Course, Before, DueAt
<1>4. Starts' BY <1>1, <1>2 DEF Starts, Begins
<1>5. ASSUME NEW w \in Viewers PROVE InStep(viewer[w])'
  <2>1. viewer \in [Viewers -> ViewerStates] BY DEF SInv, TypeOK, ViewerType
  <2>2. viewer'[w] = IF w = v THEN x ELSE viewer[w] BY <1>1, <2>1
  <2> SUFFICES ASSUME NEW y, y = viewer'[w] PROVE InStep(viewer[w])'
    OBVIOUS
  <2>3. InStep(y) BY <1>2, <2>2 DEF AllInStep
  <2>4. InStep(viewer[w])' = InStep(y)
    <3> SUFFICES ASSUME NEW n, n = NextRecord(y), NEW k, k = InHand(y)
                 PROVE  InStep(viewer[w])' = InStep(y)
      OBVIOUS
    <3>0. stream' = stream BY <1>1
    <3>1. NextRecord(viewer[w])' = n BY DEF NextRecord
    <3>2. InHand(viewer[w])' = k
      <4>1. CASE y.pending = 0 BY <4>1 DEF InHand
      <4>2. CASE y.pending # 0
        <5>1. k = stream[y.pending].kind BY <4>2 DEF InHand
        <5>2. InHand(viewer[w])' = stream'[y.pending].kind BY <4>2 DEF InHand
        <5> QED BY <3>0, <5>1, <5>2
      <4> QED BY <4>1, <4>2
    <3>3. Before(n)' = Before(n) /\ DueAt(n)' = DueAt(n) BY <3>0 DEF Before, DueAt
    <3> QED BY <3>1, <3>2, <3>3 DEF InStep, SentAway, Stands, BeforeSelection, BeforeStart, Before, DueAt
  <2> QED BY <2>3, <2>4
<1> QED BY <1>3, <1>4, <1>5 DEF PlayInv, AllInStep

\* What a playback in step says of the record in hand.
LEMMA Holding ==
    ASSUME SInv, PlayInv, NEW v \in Viewers, viewer[v].pending # 0
    PROVE  LET p == viewer[v].pending
               r == stream[p]
           IN /\ p \in 1 .. Len(stream) /\ r \in Records /\ Allowed(Before(p), r)
              /\ r.kind = "Input" => r.at = DueAt(p)
              /\ Stands(viewer[v], Before(p), DueAt(p), r.kind)
              /\ Before(p + 1) = Leads(r) /\ DueAt(p + 1) = Due(r)
<1> DEFINE p == viewer[v].pending
           r == stream[p]
<1>1. p \in 1 .. Len(stream) /\ viewer[v].cursor # 0 /\ NextRecord(viewer[v]) = p BY Numbered
<1>2. r \in Records BY <1>1, StreamFields
<1>3. Allowed(Before(p), r) /\ (r.kind = "Input" => r.at = DueAt(p)) BY <1>1 DEF PlayInv, Course
<1>4. InStep(viewer[v]) /\ InHand(viewer[v]) = r.kind BY DEF PlayInv, AllInStep, InHand
<1>5. Stands(viewer[v], Before(p), DueAt(p), r.kind) BY <1>1, <1>4 DEF InStep
<1>6. Before(p + 1) = Leads(r) /\ DueAt(p + 1) = Due(r)
  <2>1. p \in Nat /\ p > 0 /\ r = stream[p] BY <1>1
  <2> HIDE DEF p, r
  <2>2. p + 1 # 1 /\ p + 1 - 1 = p BY <2>1
  <2> QED BY <2>1, <2>2 DEF Before, DueAt
<1> QED BY <1>1, <1>2, <1>3, <1>5, <1>6

\* Without the record in hand the next one comes next.
LEMMA OneMore ==
    ASSUME NEW x, NEW y, y.pending # 0, x.pending = 0,
           x.cursor = y.cursor, x.net = y.net, x.buffer = y.buffer,
           y.cursor \in Nat, Len(y.net) \in Nat, Len(y.buffer) \in Nat
    PROVE  NextRecord(x) = NextRecord(y) + 1
<1> DEFINE a == Len(y.net)
           b == Len(y.buffer)
           c == y.cursor
<1>1. NextRecord(x) = c - a - b - 0 /\ NextRecord(y) = c - a - b - 1 BY DEF NextRecord
<1>2. c \in Nat /\ a \in Nat /\ b \in Nat OBVIOUS
<1> HIDE DEF a, b, c
<1>3. c - a - b - 0 = c - a - b - 1 + 1 BY <1>2
<1> QED BY <1>1, <1>3

\* The record in hand has been used: the game stands where the players stood after it.
LEMMA UsedPlays ==
    ASSUME SInv, PlayInv, NEW v \in Viewers, viewer[v].pending # 0,
           NEW x \in ViewerStates, Becomes(v, x), x.valid,
           x.pending = 0, x.cursor = viewer[v].cursor, x.net = viewer[v].net, x.buffer = viewer[v].buffer,
           Stands(x, Leads(stream[viewer[v].pending]), Due(stream[viewer[v].pending]), "")
    PROVE  PlayInv'
<1> DEFINE y == viewer[v]
           p == y.pending
<1>1. y.cursor # 0 /\ NextRecord(y) = p /\ p \in 1 .. Len(stream) BY Numbered
<1>2. Before(p + 1) = Leads(stream[p]) /\ DueAt(p + 1) = Due(stream[p]) BY Holding
<1>3. y.cursor \in Nat /\ Len(y.net) \in Nat /\ Len(y.buffer) \in Nat BY ViewerFields
<1>4. NextRecord(x) = p + 1
  <2>1. NextRecord(x) = NextRecord(y) + 1 BY <1>3, OneMore
  <2> QED BY <1>1, <2>1
<1>5. InHand(x) = "" BY DEF InHand
<1>6. Stands(x, Before(p + 1), DueAt(p + 1), "") BY <1>2
<1> HIDE DEF p, y
<1>7. InStep(x)
  <2>1. x.cursor # 0 BY <1>1 DEF y
  <2> QED BY <1>4, <1>5, <1>6, <2>1 DEF InStep
<1> QED BY <1>7, OneInStep

\* The game goes on by itself with the record in hand.
LEMMA HeldPlays ==
    ASSUME SInv, PlayInv, NEW v \in Viewers, viewer[v].cursor # 0, NEW x, Becomes(v, x),
           x.valid \/ SentAway(x, Before(NextRecord(viewer[v]))),
           x.pending = viewer[v].pending, x.cursor = viewer[v].cursor,
           x.net = viewer[v].net, x.buffer = viewer[v].buffer,
           ASSUME Stands(viewer[v], Before(NextRecord(viewer[v])), DueAt(NextRecord(viewer[v])),
                         InHand(viewer[v]))
           PROVE  Stands(x, Before(NextRecord(viewer[v])), DueAt(NextRecord(viewer[v])),
                         InHand(viewer[v]))
    PROVE  PlayInv'
<1> DEFINE y == viewer[v]
<1>1. InStep(y) BY DEF PlayInv, AllInStep
<1>2. NextRecord(x) = NextRecord(y) /\ InHand(x) = InHand(y) BY DEF NextRecord, InHand
<1>3. Stands(y, Before(NextRecord(y)), DueAt(NextRecord(y)), InHand(y)) BY <1>1 DEF InStep
<1>4. Stands(x, Before(NextRecord(y)), DueAt(NextRecord(y)), InHand(y)) BY <1>3
<1>5. InStep(x) BY <1>2, <1>4 DEF InStep
<1> QED BY <1>5, OneInStep

LEMMA AcceptPlays == ASSUME SInv, PlayInv, NEW v \in Viewers, Accept(v) PROVE PlayInv'
<1> DEFINE x == [viewer[v] EXCEPT !.conn = "open"]
<1>1. Becomes(v, x) BY DEF Accept, Becomes
<1>2. viewer[v] \in ViewerStates BY ViewerFields
<1>3. /\ x.valid = viewer[v].valid /\ x.cursor = viewer[v].cursor /\ x.phase = viewer[v].phase
      /\ x.ending = viewer[v].ending /\ x.net = viewer[v].net /\ x.buffer = viewer[v].buffer
      /\ x.pending = viewer[v].pending /\ x.stage = viewer[v].stage /\ x.retrying = viewer[v].retrying
      /\ x.target = viewer[v].target /\ x.next = viewer[v].next /\ x.intro = viewer[v].intro
      /\ x.over = viewer[v].over
  BY <1>2 DEF ViewerStates
<1>4. InStep(viewer[v]) BY DEF PlayInv, AllInStep
<1> HIDE DEF x
<1>5. InStep(x) BY <1>3, <1>4 DEF InStep, SentAway, NextRecord, InHand, Stands, BeforeSelection, BeforeStart
<1> QED BY <1>1, <1>5, OneInStep

LEMMA ClosePlays == ASSUME SInv, PlayInv, NEW v \in Viewers, CutOff(v) \/ Close(v) PROVE PlayInv'
<1>1. Becomes(v, Closed) BY DEF CutOff, Close, Becomes
<1>2. Closed.valid /\ Closed.cursor = 0 /\ Closed.phase = "select" /\ ~Closed.ending BY DEF Closed, Away
<1>3. InStep(Closed) BY <1>2 DEF InStep
<1> QED BY <1>1, <1>3, OneInStep

\* What is handed on keeps the number of the record that comes next.
LEMMA ReceivePlays == ASSUME SInv, PlayInv, NEW v \in Viewers, Receive(v) PROVE PlayInv'
<1> DEFINE y == viewer[v]
           x == [y EXCEPT !.net = Tail(@), !.buffer = Append(@, Head(y.net))]
<1>1. y.net # <<>> /\ Becomes(v, x) /\ y.valid BY DEF Receive, Watches
<1>2. y \in ViewerStates /\ y.net \in Seq(Nat) /\ y.buffer \in Seq(Nat) /\ y.cursor \in Nat BY ViewerFields
<1>3. /\ x.net = Tail(y.net) /\ x.buffer = Append(y.buffer, Head(y.net))
      /\ x.valid = y.valid /\ x.cursor = y.cursor /\ x.phase = y.phase
      /\ x.ending = y.ending /\ x.pending = y.pending /\ x.stage = y.stage /\ x.retrying = y.retrying
      /\ x.target = y.target /\ x.next = y.next /\ x.intro = y.intro /\ x.over = y.over
  BY <1>2 DEF ViewerStates
<1>4. InStep(y) BY DEF PlayInv, AllInStep
<1>5. y.cursor # 0
  BY <1>1, Numbered
<1> HIDE DEF x, y
<1>6. Len(x.net) = Len(y.net) - 1 /\ Len(x.buffer) = Len(y.buffer) + 1
      /\ Len(y.net) \in Nat /\ Len(y.buffer) \in Nat
  BY <1>1, <1>2, <1>3
<1>7. NextRecord(x) = NextRecord(y)
  <2>1. x.cursor - Len(x.net) - Len(x.buffer) = y.cursor - Len(y.net) - Len(y.buffer)
    <3> DEFINE a == Len(x.net)
               b == Len(x.buffer)
               d == Len(y.net)
               e == Len(y.buffer)
               c == y.cursor
    <3>1. a = d - 1 /\ b = e + 1 /\ d \in Nat /\ e \in Nat /\ c \in Nat /\ x.cursor = c
      BY <1>2, <1>3, <1>6
    <3> HIDE DEF a, b, c, d, e
    <3>2. c - a - b = c - d - e BY <3>1
    <3> QED BY <3>1, <3>2 DEF a, b, c, d, e
  <2> QED BY <1>3, <2>1 DEF NextRecord
<1>8. InHand(x) = InHand(y) BY <1>3 DEF InHand
<1>9. ASSUME NEW at, NEW due, NEW kind, Stands(y, at, due, kind) PROVE Stands(x, at, due, kind)
  BY <1>3, <1>9 DEF Stands, BeforeSelection, BeforeStart
<1>10. InStep(x) BY <1>1, <1>3, <1>4, <1>5, <1>7, <1>8, <1>9 DEF InStep
<1> QED BY <1>1, <1>10, OneInStep

\* A record taken from the buffer is the one that came next.
LEMMA TakePlays == ASSUME SInv, PlayInv, NEW v \in Viewers, Take(v) PROVE PlayInv'
<1> DEFINE y == viewer[v]
           x == [y EXCEPT !.pending = Head(y.buffer), !.buffer = Tail(@)]
<1>1. /\ y.pending = 0 /\ y.buffer # <<>> /\ Becomes(v, x) /\ y.phase # "loading"
      /\ ~(y.retrying /\ y.phase = "menu") /\ ~(y.ending /\ y.phase = "battle") /\ y.valid
  BY DEF Take, Watches
<1>2. /\ y \in ViewerStates /\ y.net \in Seq(Nat) /\ y.buffer \in Seq(Nat) /\ y.cursor \in Nat
      /\ Len(y.net) \in Nat /\ Line(y)
  BY ViewerFields
<1>3. /\ x.net = y.net /\ x.buffer = Tail(y.buffer) /\ x.pending = Head(y.buffer)
      /\ x.valid = y.valid /\ x.cursor = y.cursor /\ x.phase = y.phase
      /\ x.ending = y.ending /\ x.stage = y.stage /\ x.retrying = y.retrying
      /\ x.target = y.target /\ x.next = y.next /\ x.intro = y.intro /\ x.over = y.over
  BY <1>2 DEF ViewerStates
<1>4. InStep(y) BY DEF PlayInv, AllInStep
<1>5. y.cursor # 0 BY <1>1, Numbered
<1> HIDE DEF x, y
<1>6. /\ Len(x.buffer) = Len(y.buffer) - 1 /\ Len(y.buffer) \in Nat /\ Len(y.buffer) >= 1
      /\ Head(y.buffer) = y.buffer[1]
  BY <1>1, <1>2, <1>3
<1>7. Head(y.buffer) = y.cursor - 1 - Len(y.net) - Len(y.buffer) + 1 /\ y.cursor - Len(y.net) - Len(y.buffer) >= 1
  <2>1. 1 \in 1 .. Len(y.buffer) BY <1>6
  <2> QED BY <1>5, <1>6, <2>1, <1>2 DEF Line, LineOf
<1>8. NextRecord(x) = NextRecord(y) /\ x.pending # 0
  <2> DEFINE b == Len(y.buffer)
             a == Len(y.net)
             c == y.cursor
             h == Head(y.buffer)
  <2>1. NextRecord(y) = c - a - b - 0 /\ NextRecord(x) = c - a - Len(x.buffer) - (IF h = 0 THEN 0 ELSE 1)
    BY <1>1, <1>3 DEF NextRecord
  <2>2. a \in Nat /\ b \in Nat /\ c \in Nat /\ h = c - 1 - a - b + 1 /\ c - a - b >= 1 /\ Len(x.buffer) = b - 1
    BY <1>2, <1>6, <1>7
  <2>3. h = x.pending BY <1>3
  <2> HIDE DEF a, b, c, h
  <2>4. h # 0 /\ c - a - b - 0 = c - a - (b - 1) - 1 BY <2>2
  <2> QED BY <2>1, <2>2, <2>3, <2>4
<1>9. InHand(y) = "" BY <1>1 DEF InHand
<1>10. ASSUME NEW at, NEW due, NEW kind, Stands(y, at, due, "") PROVE Stands(x, at, due, kind)
  BY <1>1, <1>3, <1>10 DEF Stands, BeforeSelection, BeforeStart
<1>11. Stands(y, Before(NextRecord(y)), DueAt(NextRecord(y)), "") BY <1>4, <1>5, <1>9 DEF InStep
<1>12. InStep(x) BY <1>1, <1>3, <1>4, <1>5, <1>8, <1>10, <1>11 DEF InStep
<1> QED BY <1>1, <1>12, OneInStep

\* Who is served for the first time begins where a match can be watched from.
LEMMA ServePlays == ASSUME SInv, PlayInv, NEW v \in Viewers, Serve(v) PROVE PlayInv'
<1> DEFINE y == viewer[v]
           c == Cursor(v)
<1>1. PICK n \in 1 .. Batch :
        /\ \A i \in 0 .. n - 1 : Held(c + i)
        /\ viewer' = [viewer EXCEPT ![v].cursor = c + n,
                                    ![v].net = @ \o [i \in 1 .. n |-> archive.slots[(c + i - 1) % Archived]]]
  BY DEF Serve
<1> DEFINE more == [i \in 1 .. n |-> archive.slots[(c + i - 1) % Archived]]
           x == [y EXCEPT !.cursor = c + n, !.net = @ \o more]
<1>2. /\ y \in ViewerStates /\ y.cursor \in Nat /\ y.net \in Seq(Nat) /\ y.buffer \in Seq(Nat)
      /\ Len(y.net) \in Nat /\ Len(y.buffer) \in Nat
      /\ archive.head \in Nat /\ archive.start \in Nat /\ archive.slots \in [0 .. Archived - 1 -> Nat]
  BY ViewerFields
<1>3. n \in Nat /\ n >= 1 BY Sizes
<1>4. Becomes(v, x)
  <2>1. UNCHANGED <<stream, scene, running, queue, archive>> BY DEF Serve
  <2>2. viewer \in [Viewers -> ViewerStates] BY DEF SInv, TypeOK, ViewerType
  <2> QED BY <1>1, <2>1, <2>2 DEF Becomes, ViewerStates
<1>5. c \in Nat /\ c # 0 /\ (y.cursor # 0 => c = y.cursor) /\ (y.cursor = 0 => c = archive.start)
  <2>1. 0 \in 0 .. n - 1 BY <1>3
  <2>2. Held(c + 0) BY <1>1, <2>1
  <2>3. c \in Nat BY <1>2 DEF Cursor, Join
  <2>4. c # 0 BY <2>2, <2>3 DEF Held
  <2> QED BY <2>3, <2>4 DEF Cursor, Join
<1>6. more \in Seq(Nat) /\ Len(more) = n
  <2>1. ASSUME NEW i \in 1 .. n PROVE archive.slots[(c + i - 1) % Archived] \in Nat
    <3>1. c + i - 1 \in Nat BY <1>3, <1>5
    <3>2. (c + i - 1) % Archived \in 0 .. Archived - 1 BY <3>1, Sizes, Place
    <3> QED BY <1>2, <3>2
  <2> QED BY <1>3, <2>1
<1>7. /\ x.cursor = c + n /\ x.net = y.net \o more /\ x.buffer = y.buffer /\ x.pending = y.pending
      /\ x.valid = y.valid /\ x.phase = y.phase
      /\ x.ending = y.ending /\ x.stage = y.stage /\ x.retrying = y.retrying
      /\ x.target = y.target /\ x.next = y.next /\ x.intro = y.intro /\ x.over = y.over
  BY <1>2 DEF ViewerStates
<1>8. InStep(y) BY DEF PlayInv, AllInStep
<1>9. y.cursor = 0 => y.net = <<>> /\ y.buffer = <<>> /\ y.pending = 0 BY Numbered
<1>10. Starts /\ Course BY DEF PlayInv
<1> HIDE DEF c, y, more, x
<1>11. Len(x.net) = Len(y.net) + n
  <2> DEFINE net == y.net
  <2>1. net \in Seq(Nat) BY <1>2
  <2> HIDE DEF net
  <2>2. Len(net \o more) = Len(net) + Len(more) BY <1>6, <2>1
  <2> QED BY <1>6, <1>7, <2>2 DEF net
<1>12. x.cursor # 0 BY <1>3, <1>5, <1>7
<1>13. NextRecord(x) = c - Len(y.net) - Len(y.buffer) - (IF y.pending = 0 THEN 0 ELSE 1)
  <2> DEFINE a == Len(y.net)
             b == Len(y.buffer)
             d == IF y.pending = 0 THEN 0 ELSE 1
  <2>1. NextRecord(x) = (c + n) - (a + n) - b - d BY <1>7, <1>11 DEF NextRecord
  <2>2. a \in Nat /\ b \in Nat /\ d \in Nat BY <1>2
  <2> HIDE DEF a, b, d
  <2>3. (c + n) - (a + n) - b - d = c - a - b - d BY <1>3, <1>5, <2>2
  <2> QED BY <2>1, <2>3 DEF a, b, d
<1>14. InHand(x) = InHand(y) BY <1>7 DEF InHand
<1>15. CASE y.cursor # 0
  <2>1. NextRecord(x) = NextRecord(y) BY <1>5, <1>13, <1>15 DEF NextRecord
  <2>2. ASSUME NEW at, NEW due, NEW kind, Stands(y, at, due, kind) PROVE Stands(x, at, due, kind)
    BY <1>7, <2>2 DEF Stands, BeforeSelection, BeforeStart
  <2>3. InStep(x) BY <1>7, <1>8, <1>12, <1>14, <1>15, <2>1, <2>2 DEF InStep, SentAway
  <2> QED BY <1>4, <2>3, OneInStep
<1>16. CASE y.cursor = 0
  <2>1. NextRecord(x) = c
    <3>1. Len(y.net) = 0 /\ Len(y.buffer) = 0 /\ y.pending = 0 BY <1>9, <1>16
    <3> QED BY <1>5, <1>13, <3>1
  <2>2. c = archive.start /\ c < archive.head /\ Begins(c) BY <1>5, <1>10, <1>16 DEF Starts
  <2>3. c \in 1 .. Len(stream) BY <1>5, <2>2, StreamFields
  <2>4. Allowed(Before(c), stream[c]) BY <1>10, <2>3 DEF Course
  <2>5. Before(c) \in {"select", "selecting", "selected"} BY <2>2, <2>4 DEF Allowed, Begins
  <2>6. x.valid /\ x.phase = "select" /\ ~x.ending BY <1>7, <1>8, <1>16 DEF InStep
  <2>7. \A due, kind : Stands(x, Before(c), due, kind) BY <2>5, <2>6 DEF Stands, BeforeSelection, BeforeStart
  <2>8. InStep(x) BY <1>12, <2>1, <2>6, <2>7 DEF InStep
  <2> QED BY <1>4, <2>8, OneInStep
<1> QED BY <1>15, <1>16

-----------------------------------------------------------------------------
(* The playback. *)

LEMMA UsedFields ==
    ASSUME SInv, NEW v \in Viewers
    PROVE  /\ Used(v).valid = viewer[v].valid /\ Used(v).phase = viewer[v].phase
           /\ Used(v).ending = viewer[v].ending /\ Used(v).stage = viewer[v].stage
           /\ Used(v).retrying = viewer[v].retrying /\ Used(v).target = viewer[v].target
           /\ Used(v).next = viewer[v].next /\ Used(v).intro = viewer[v].intro
           /\ Used(v).over = viewer[v].over
BY ViewerFields DEF Used, ViewerStates

LEMMA UnusableFields ==
    ASSUME SInv, NEW v \in Viewers
    PROVE  /\ Unusable(v).phase = viewer[v].phase /\ Unusable(v).ending = viewer[v].ending
           /\ Unusable(v).stage = viewer[v].stage /\ Unusable(v).retrying = viewer[v].retrying
           /\ Unusable(v).target = viewer[v].target /\ Unusable(v).next = viewer[v].next
           /\ Unusable(v).intro = viewer[v].intro /\ Unusable(v).over = viewer[v].over
BY ViewerFields DEF Unusable, ViewerStates

\* A game that is sent away stands where it stood.
LEMMA UnusablePlays ==
    ASSUME SInv, PlayInv, NEW v \in Viewers, viewer[v].cursor # 0, Becomes(v, Unusable(v)),
           SentAway(viewer[v], Before(NextRecord(viewer[v])))
    PROVE  PlayInv'
<1> SUFFICES ASSUME NEW y, y = viewer[v], NEW x, x = Unusable(v) PROVE PlayInv'
  OBVIOUS
<1>1. /\ x.pending = y.pending /\ x.cursor = y.cursor /\ x.net = y.net /\ x.buffer = y.buffer
      /\ x.phase = y.phase /\ x.ending = y.ending /\ x.stage = y.stage /\ x.retrying = y.retrying
      /\ x.target = y.target /\ x.next = y.next /\ x.intro = y.intro /\ x.over = y.over
  BY UnusableFits, UnusableFields
<1>2. SentAway(x, Before(NextRecord(y))) BY <1>1 DEF SentAway
<1>3. ASSUME NEW at, NEW due, NEW kind, Stands(y, at, due, kind) PROVE Stands(x, at, due, kind)
  BY <1>1, <1>3 DEF Stands, BeforeSelection, BeforeStart
<1> QED BY <1>1, <1>2, <1>3, HeldPlays

\* Nothing has come in the battle for too long.
LEMMA GiveUpPlays == ASSUME SInv, PlayInv, NEW v \in Viewers, GiveUp(v) PROVE PlayInv'
<1>1. /\ viewer[v].phase = "battle" /\ ~viewer[v].ending /\ viewer[v].pending = 0
      /\ viewer[v].buffer = <<>> /\ Becomes(v, Unusable(v))
  BY DEF GiveUp
<1>2. viewer[v].cursor # 0 BY <1>1 DEF PlayInv, AllInStep, InStep
<1>3. SentAway(viewer[v], Before(NextRecord(viewer[v]))) BY <1>1 DEF SentAway
<1> QED BY <1>1, <1>2, <1>3, UnusablePlays

LEMMA SelectingPlays == ASSUME SInv, PlayInv, NEW v \in Viewers, PlaySelecting(v) PROVE PlayInv'
<1> SUFFICES ASSUME NEW y, y = viewer[v], NEW r, r = stream[y.pending], NEW at, at = Before(y.pending),
                    NEW due, due = DueAt(y.pending), NEW x, x = Used(v)
             PROVE  PlayInv'
  OBVIOUS
<1>1. y.valid /\ y.pending # 0 /\ r.kind = "Selecting" /\ Becomes(v, x)
      /\ (y.phase = "select" \/ (y.stage /\ y.phase = "menu"))
  BY DEF PlaySelecting, Pending, Watches
<1>2. Allowed(at, r) /\ Stands(y, at, due, r.kind) BY <1>1, Holding
<1>3. at = "select" /\ Leads(r) = "selecting" BY <1>1, <1>2 DEF Allowed, Leads
<1>4. /\ x.valid /\ x.phase = y.phase /\ x.ending = y.ending /\ x.stage = y.stage
      /\ x.retrying = y.retrying /\ x.target = y.target
  BY UsedFields, <1>1
<1>5. Stands(x, Leads(r), Due(r), "")
  <2>1. BeforeSelection(y, "Selecting") BY <1>1, <1>2, <1>3 DEF Stands
  <2>2. BeforeSelection(x, "") BY <1>4, <2>1 DEF BeforeSelection
  <2> QED BY <1>3, <2>2 DEF Stands
<1> QED BY <1>1, <1>4, <1>5, UsedFits, UsedPlays

LEMMA SelectionPlays == ASSUME SInv, PlayInv, NEW v \in Viewers, PlaySelection(v) PROVE PlayInv'
<1> SUFFICES ASSUME NEW y, y = viewer[v], NEW r, r = stream[y.pending], NEW at, at = Before(y.pending),
                    NEW due, due = DueAt(y.pending)
             PROVE  PlayInv'
  OBVIOUS
<1>1. y.valid /\ y.pending # 0 /\ r.kind = "Selection" BY DEF PlaySelection, Pending, Watches
<1>2. Allowed(at, r) /\ Stands(y, at, due, r.kind) BY <1>1, Holding
<1>3. at \in {"select", "selecting"} /\ Leads(r) = "selected" BY <1>1, <1>2 DEF Allowed, Leads
<1>4. BeforeSelection(y, "Selection") BY <1>1, <1>2, <1>3 DEF Stands
<1>5. ASSUME y.stage, y.phase = "menu", ~y.retrying, Becomes(v, [y EXCEPT !.retrying = TRUE])
      PROVE  PlayInv'
  <2> SUFFICES ASSUME NEW x, x = [y EXCEPT !.retrying = TRUE] PROVE PlayInv'
    OBVIOUS
  <2>1. y \in ViewerStates BY ViewerFields
  <2>2. /\ x.valid = y.valid /\ x.phase = y.phase /\ x.ending = y.ending /\ x.stage = y.stage
        /\ x.retrying = TRUE /\ x.target = y.target /\ x.pending = y.pending /\ x.cursor = y.cursor
        /\ x.net = y.net /\ x.buffer = y.buffer
    BY <2>1 DEF ViewerStates
  <2>3. y.target = "stage" BY <1>4, <1>5 DEF BeforeSelection
  <2>4. BeforeSelection(x, "Selection") BY <1>5, <2>2, <2>3 DEF BeforeSelection
  <2>5. Stands(x, at, due, r.kind) BY <1>1, <1>3, <2>4 DEF Stands
  <2>6. NextRecord(y) = y.pending /\ y.cursor # 0 BY <1>1, Numbered
  <2>7. InHand(y) = r.kind BY <1>1 DEF InHand
  <2>8. Becomes(v, x) BY <1>5
  <2>9. x.valid BY <2>2, <1>1
  <2> QED BY <2>2, <2>5, <2>6, <2>7, <2>8, <2>9, HeldPlays
<1>6. ASSUME y.phase = "battle", Becomes(v, Used(v)) PROVE PlayInv'
  <2> SUFFICES ASSUME NEW x, x = Used(v) PROVE PlayInv'
    OBVIOUS
  <2>1. x.valid /\ x.phase = y.phase /\ x.ending = y.ending BY UsedFields, <1>1
  <2>2. ~y.ending BY <1>4, <1>6 DEF BeforeSelection
  <2>3. Stands(x, Leads(r), Due(r), "") BY <1>3, <1>6, <2>1, <2>2 DEF Stands, BeforeStart
  <2> QED BY <1>1, <1>6, <2>1, <2>3, UsedFits, UsedPlays
<1> QED BY <1>5, <1>6 DEF PlaySelection

LEMMA StartPlays == ASSUME SInv, PlayInv, NEW v \in Viewers, PlayStart(v) PROVE PlayInv'
<1> SUFFICES ASSUME NEW y, y = viewer[v], NEW r, r = stream[y.pending], NEW at, at = Before(y.pending),
                    NEW due, due = DueAt(y.pending),
                    NEW x, x = [Used(v) EXCEPT !.next = At(v), !.retrying = FALSE, !.ending = FALSE,
                                               !.over = FALSE, !.intro = FALSE]
             PROVE  PlayInv'
  OBVIOUS
<1>1. y.valid /\ y.pending # 0 /\ r.kind = "Start" /\ y.phase = "battle" /\ Becomes(v, x) BY DEF PlayStart, Pending, Watches
<1>2. At(v) \in Places /\ At(v) = r.at BY <1>1, PendingRecord DEF At
<1>3. Leads(r) = "round" /\ Due(r) = r.at BY <1>1 DEF Leads, Due
<1>4. /\ x \in ViewerStates /\ x.pending = 0 /\ x.cursor = y.cursor
      /\ x.net = y.net /\ x.buffer = y.buffer
      /\ x.valid = Used(v).valid /\ x.phase = Used(v).phase /\ x.next = r.at
      /\ x.retrying = FALSE /\ x.ending = FALSE
  BY <1>2, UsedFits DEF ViewerStates
<1>5. x.valid /\ x.phase = "battle" BY <1>1, <1>4, UsedFields
<1>6. Stands(x, Leads(r), Due(r), "") BY <1>3, <1>4, <1>5 DEF Stands
<1> QED BY <1>1, <1>4, <1>5, <1>6, UsedPlays

LEMMA EpochPlays == ASSUME SInv, PlayInv, NEW v \in Viewers, PlayEpoch(v) PROVE PlayInv'
<1> SUFFICES ASSUME NEW y, y = viewer[v], NEW r, r = stream[y.pending], NEW at, at = Before(y.pending),
                    NEW due, due = DueAt(y.pending),
                    NEW x, x = [Used(v) EXCEPT !.next = At(v), !.intro = FALSE]
             PROVE  PlayInv'
  OBVIOUS
<1>1. y.valid /\ y.pending # 0 /\ r.kind = "Epoch" BY DEF PlayEpoch, Pending, Watches
<1>2. Allowed(at, r) /\ Stands(y, at, due, r.kind) BY <1>1, Holding
<1>3. at = "next round" /\ Leads(r) = "round" /\ Due(r) = r.at BY <1>1, <1>2 DEF Allowed, Leads, Due
<1>4. y.phase = "battle" /\ ~y.ending /\ ~y.retrying /\ y.intro BY <1>2, <1>3 DEF Stands
<1>5. Becomes(v, x) BY <1>4 DEF PlayEpoch
<1>6. At(v) \in Places /\ At(v) = r.at BY <1>1, PendingRecord DEF At
<1>7. /\ x \in ViewerStates /\ x.pending = 0 /\ x.cursor = y.cursor
      /\ x.net = y.net /\ x.buffer = y.buffer
      /\ x.valid = Used(v).valid /\ x.phase = Used(v).phase /\ x.next = r.at
      /\ x.retrying = Used(v).retrying /\ x.ending = Used(v).ending
  BY <1>6, UsedFits DEF ViewerStates
<1>8. x.valid /\ x.phase = "battle" /\ ~x.ending /\ ~x.retrying BY <1>4, <1>7, UsedFields, <1>1
<1>9. Stands(x, Leads(r), Due(r), "") BY <1>3, <1>7, <1>8 DEF Stands
<1> QED BY <1>1, <1>5, <1>7, <1>8, <1>9, UsedPlays

LEMMA ResultPlays == ASSUME SInv, PlayInv, NEW v \in Viewers, PlayResult(v) PROVE PlayInv'
<1> SUFFICES ASSUME NEW y, y = viewer[v], NEW r, r = stream[y.pending], NEW at, at = Before(y.pending),
                    NEW due, due = DueAt(y.pending), NEW x, x = [Used(v) EXCEPT !.ending = TRUE]
             PROVE  PlayInv'
  OBVIOUS
<1>1. y.valid /\ y.pending # 0 /\ r.kind = "Result" /\ Becomes(v, x) BY DEF PlayResult, Pending, Watches
<1>2. Allowed(at, r) /\ Stands(y, at, due, r.kind) BY <1>1, Holding
<1>3. at = "over" /\ Leads(r) = "menu" BY <1>1, <1>2 DEF Allowed, Leads
<1>4. y.phase \in {"battle", "menu"} /\ ~y.retrying /\ y.over BY <1>2, <1>3 DEF Stands
<1>5. /\ x \in ViewerStates /\ x.pending = 0 /\ x.cursor = y.cursor
      /\ x.net = y.net /\ x.buffer = y.buffer
      /\ x.valid = Used(v).valid /\ x.phase = Used(v).phase
      /\ x.retrying = Used(v).retrying /\ x.ending = TRUE /\ x.over = Used(v).over
  BY UsedFits DEF ViewerStates
<1>6. x.valid /\ x.phase \in {"battle", "menu"} /\ ~x.retrying /\ x.over
  BY <1>4, <1>5, UsedFields, <1>1
<1>7. Stands(x, Leads(r), Due(r), "") BY <1>3, <1>5, <1>6 DEF Stands
<1> QED BY <1>1, <1>5, <1>6, <1>7, UsedPlays

LEMMA RetryPlays == ASSUME SInv, PlayInv, NEW v \in Viewers, PlayRetry(v) PROVE PlayInv'
<1> SUFFICES ASSUME NEW y, y = viewer[v], NEW r, r = stream[y.pending], NEW at, at = Before(y.pending),
                    NEW due, due = DueAt(y.pending), NEW z, z = Used(v)
             PROVE  PlayInv'
  OBVIOUS
<1>a. PICK stage \in BOOLEAN : stage = (r.data = "stage") OBVIOUS
<1>b. PICK again \in BOOLEAN : again = (r.data # "stage") OBVIOUS
<1>c. PICK x : x = [z EXCEPT !.target = r.data, !.stage = stage, !.retrying = again] OBVIOUS
<1>1. y.valid /\ y.pending # 0 /\ r.kind = "Retry" /\ y.phase = "menu" BY DEF PlayRetry, Pending, Watches
<1>2. Becomes(v, x) BY <1>a, <1>b, <1>c DEF PlayRetry, Data
<1>3. Allowed(at, r) BY <1>1, Holding
<1>4. /\ r.data \in {"select", "once", "stage"}
      /\ Leads(r) = IF r.data = "once" THEN "selected" ELSE "select"
  BY <1>1, <1>3 DEF Allowed, Leads
<1>5. r.data \in Contents /\ z \in ViewerStates BY <1>4, UsedFits DEF Contents
<1>6. /\ x \in ViewerStates /\ x.pending = z.pending /\ x.cursor = z.cursor
      /\ x.net = z.net /\ x.buffer = z.buffer
      /\ x.valid = z.valid /\ x.phase = z.phase
      /\ x.retrying = again /\ x.target = r.data /\ x.stage = stage
  BY <1>5, <1>c DEF ViewerStates
<1>7. x.valid /\ x.phase = "menu" BY <1>1, <1>6, UsedFields
<1>8. Stands(x, Leads(r), Due(r), "")
  <2>1. CASE r.data = "once"
    <3>1. BeforeStart(x, "") BY <1>a, <1>b, <1>6, <1>7, <2>1 DEF BeforeStart
    <3> QED BY <1>4, <2>1, <3>1 DEF Stands
  <2>2. CASE r.data = "select"
    <3>1. BeforeSelection(x, "") BY <1>a, <1>b, <1>6, <1>7, <2>2 DEF BeforeSelection
    <3> QED BY <1>4, <2>2, <3>1 DEF Stands
  <2>3. CASE r.data = "stage"
    <3>1. BeforeSelection(x, "") BY <1>a, <1>b, <1>6, <1>7, <2>3 DEF BeforeSelection
    <3> QED BY <1>4, <2>3, <3>1 DEF Stands
  <2> QED BY <1>4, <2>1, <2>2, <2>3
<1>9. x.pending = 0 /\ x.cursor = y.cursor /\ x.net = y.net /\ x.buffer = y.buffer BY <1>6, UsedFits
<1> QED BY <1>1, <1>2, <1>6, <1>7, <1>8, <1>9, UsedPlays

LEMMA FedFits ==
    ASSUME NEW z \in ViewerStates, NEW phase \in {"select", "loading", "battle", "menu"},
           NEW next \in Places, NEW intro \in BOOLEAN, NEW over \in BOOLEAN, NEW retrying \in BOOLEAN
    PROVE  [z EXCEPT !.next = next, !.phase = phase, !.intro = intro, !.over = over,
                     !.retrying = retrying] \in ViewerStates
BY DEF ViewerStates

\* The game is in the battle, at the frame of the input in hand, and goes where the
\* players' game went.
LEMMA InputPlays == ASSUME SInv, PlayInv, NEW v \in Viewers, PlayInput(v) PROVE PlayInv'
<1> SUFFICES ASSUME NEW y, y = viewer[v], NEW r, r = stream[y.pending], NEW at, at = Before(y.pending),
                    NEW due, due = DueAt(y.pending)
             PROVE  PlayInv'
  OBVIOUS
<1>1. y.valid /\ y.pending # 0 /\ r.kind = "Input" BY DEF PlayInput, Pending, Watches
<1>2. Allowed(at, r) /\ r.at = due /\ Stands(y, at, due, r.kind) BY <1>1, Holding
<1>3. \/ at = "round" /\ r.data \in {"on", "round", "closing"}
      \/ at = "closing" /\ r.data = "match"
  BY <1>1, <1>2 DEF Allowed
<1>0. CASE y.phase = "menu"
  <2>1. at = "closing" BY <1>0, <1>2, <1>3 DEF Stands
  <2>2. y.cursor # 0 /\ NextRecord(y) = y.pending BY <1>1, Numbered
  <2>3. SentAway(y, Before(NextRecord(y))) BY <1>0, <1>1, <2>1, <2>2 DEF SentAway
  <2>4. Becomes(v, Unusable(v)) BY <1>0 DEF PlayInput
  <2> QED BY <2>2, <2>3, <2>4, UnusablePlays
<1> SUFFICES ASSUME y.phase # "menu" PROVE PlayInv'
  BY <1>0
<1>4. y.phase = "battle" /\ ~y.ending /\ ~y.retrying /\ y.next = r.at BY <1>2, <1>3 DEF Stands
<1>5. At(v) = r.at /\ Data(v) = r.data BY DEF At, Data
<1>6. PICK phase \in (IF r.data \in {"closing", "match"} THEN {"battle", "menu"} ELSE {"battle"}) :
        Becomes(v, [Used(v) EXCEPT !.next[3] = @ + 1, !.phase = phase,
                                   !.intro = (r.data = "round"), !.over = (r.data = "match"),
                                   !.retrying = @ /\ phase = "battle"])
  BY <1>4, <1>5 DEF PlayInput
<1> SUFFICES ASSUME NEW z, z = Used(v) PROVE PlayInv'
  OBVIOUS
<1>a. PICK intro \in BOOLEAN : intro = (r.data = "round") OBVIOUS
<1>b. PICK over \in BOOLEAN : over = (r.data = "match") OBVIOUS
<1>c. PICK retrying \in BOOLEAN : retrying = (z.retrying /\ phase = "battle") OBVIOUS
<1>d. PICK next : next = [z.next EXCEPT ![3] = @ + 1] OBVIOUS
<1>e. PICK x : x = [z EXCEPT !.next = next, !.phase = phase, !.intro = intro, !.over = over,
                             !.retrying = retrying]
  OBVIOUS
<1>7. z \in ViewerStates /\ z.next = r.at BY <1>4, UsedFits, UsedFields
<1>8. Becomes(v, x)
  <2>1. [z EXCEPT !.next[3] = @ + 1, !.phase = phase,
                  !.intro = (r.data = "round"), !.over = (r.data = "match"),
                  !.retrying = @ /\ phase = "battle"] = x
    BY <1>7, <1>a, <1>b, <1>c, <1>d, <1>e DEF ViewerStates
  <2> QED BY <1>6, <2>1
<1>9. next = Due(r) BY <1>1, <1>7, <1>d DEF Due
<1>10. next \in Places
  <2>1. z.next \in Places BY <1>7 DEF ViewerStates
  <2> QED BY <1>d, <2>1 DEF Places
<1>11. phase \in {"battle", "menu"} /\ (phase = "battle" \/ r.data \in {"closing", "match"}) BY <1>6
<1>13. /\ x \in ViewerStates /\ x.pending = z.pending /\ x.cursor = z.cursor
       /\ x.net = z.net /\ x.buffer = z.buffer /\ x.valid = z.valid /\ x.ending = z.ending
       /\ x.next = next /\ x.phase = phase /\ x.intro = intro /\ x.over = over
       /\ x.retrying = retrying
  <2>1. z \in ViewerStates /\ next \in Places BY <1>7, <1>10
  <2>2. phase \in {"select", "loading", "battle", "menu"} BY <1>11
  <2>3. x \in ViewerStates BY <2>1, <2>2, <1>e, FedFits
  <2>4. /\ x.pending = z.pending /\ x.cursor = z.cursor
        /\ x.net = z.net /\ x.buffer = z.buffer /\ x.valid = z.valid /\ x.ending = z.ending
    BY <2>1, <1>e DEF ViewerStates
  <2>5. x.next = next /\ x.phase = phase /\ x.intro = intro /\ x.over = over /\ x.retrying = retrying
    BY <2>1, <1>e DEF ViewerStates
  <2> QED BY <2>3, <2>4, <2>5
<1>14. x.valid /\ ~x.ending /\ ~x.retrying
  <2>1. z.valid /\ ~z.ending /\ ~z.retrying BY <1>4, UsedFields, <1>1
  <2> QED BY <1>13, <1>c, <2>1
<1>15. Stands(x, Leads(r), Due(r), "")
  <2>1. CASE r.data = "on"
    <3>1. Leads(r) = "round" BY <1>1, <2>1 DEF Leads
    <3>2. x.phase = "battle" BY <1>11, <1>13, <2>1
    <3> QED BY <1>9, <1>13, <1>14, <3>1, <3>2 DEF Stands
  <2>2. CASE r.data = "round"
    <3>1. Leads(r) = "next round" BY <1>1, <2>2 DEF Leads
    <3>2. x.phase = "battle" /\ x.intro BY <1>11, <1>13, <1>a, <2>2
    <3> QED BY <1>14, <3>1, <3>2 DEF Stands
  <2>4. CASE r.data = "closing"
    <3>1. Leads(r) = "closing" BY <1>1, <2>4 DEF Leads
    <3>2. x.phase \in {"battle", "menu"} /\ x.next = Due(r) BY <1>9, <1>11, <1>13
    <3> QED BY <1>14, <3>1, <3>2 DEF Stands
  <2>3. CASE r.data = "match"
    <3>1. Leads(r) = "over" BY <1>1, <2>3 DEF Leads
    <3>2. x.phase \in {"battle", "menu"} /\ x.over BY <1>11, <1>13, <1>b, <2>3
    <3> QED BY <1>14, <3>1, <3>2 DEF Stands
  <2> QED BY <1>3, <2>1, <2>2, <2>3, <2>4
<1>16. x.pending = 0 /\ x.cursor = y.cursor /\ x.net = y.net /\ x.buffer = y.buffer
  BY <1>13, UsedFits
<1> QED BY <1>1, <1>8, <1>13, <1>14, <1>15, <1>16, UsedPlays

LEMMA EntersFields ==
    ASSUME SInv, NEW v \in Viewers, NEW phase \in {"select", "loading", "battle", "menu"},
           NEW x, x = Enters(v, phase)
    PROVE  /\ x.valid = viewer[v].valid /\ x.phase = phase /\ x.target = viewer[v].target
           /\ (x.ending <=> viewer[v].ending /\ phase \in {"battle", "menu"})
           /\ (x.retrying <=> viewer[v].retrying /\ phase # "menu")
           /\ (x.stage <=> viewer[v].stage /\ phase # "battle")
           /\ (x.over <=> viewer[v].over /\ phase # "battle")
           /\ x.next = viewer[v].next /\ x.intro = viewer[v].intro
BY ViewerFields DEF Enters, ViewerStates

\* Where a game stands that is in one of its scenes and in step.
LEMMA Phases ==
    ASSUME NEW y, NEW at, NEW due, NEW kind, Stands(y, at, due, kind),
           at \in {"select", "selecting", "selected", "round", "next round", "closing", "over", "menu"}
    PROVE  /\ y.phase = "select" => at \in {"select", "selecting", "selected"} /\ ~y.ending
           /\ y.phase = "loading" =>
                 \/ at \in {"select", "selecting"} /\ kind = "Selection" /\ ~y.ending
                 \/ at = "selected" /\ ~y.ending
           /\ y.phase = "battle" /\ y.ending => at = "menu" /\ y.over /\ ~y.retrying
           /\ y.phase = "menu" /\ y.retrying =>
                 \/ at \in {"select", "selecting"} /\ y.target = "select" /\ kind = ""
                 \/ at \in {"select", "selecting"} /\ y.target = "stage" /\ kind = "Selection"
                 \/ at = "selected" /\ y.target = "once" /\ kind = ""
BY DEF Stands, BeforeSelection, BeforeStart

LEMMA Known ==
  ASSUME NEW r, NEW at, Allowed(at, r)
  PROVE Leads(r) \in
    {"select", "selecting", "selected", "round", "next round", "closing", "over", "menu"}
BY DEF Allowed, Leads

\* What the game does by itself, it does where the players did it.
LEMMA GamePlays == ASSUME SInv, PlayInv, NEW v \in Viewers, GameGoesOn(v) PROVE PlayInv'
<1> SUFFICES ASSUME NEW y, y = viewer[v], NEW n, n = NextRecord(y), NEW kind, kind = InHand(y),
                    NEW at, at = Before(n), NEW due, due = DueAt(n)
             PROVE  PlayInv'
  OBVIOUS
<1>1. y.valid /\ InStep(y) BY DEF GameGoesOn, Watches, PlayInv, AllInStep
<1>2. y.cursor # 0
  <2> SUFFICES ASSUME y.cursor = 0 PROVE FALSE
    OBVIOUS
  <2>1. y.phase = "select" /\ ~y.ending /\ y.pending = 0 BY <1>1, Numbered DEF InStep
  <2> QED BY <2>1 DEF GameGoesOn, RunsOn, Pending
<1>3. Stands(y, at, due, kind) BY <1>1, <1>2 DEF InStep
<1>4. n \in 1 .. Len(stream) + 1 /\ Len(stream) \in Nat BY <1>2, Numbered, StreamFields
<1>5. at \in {"select", "selecting", "selected", "round", "next round", "closing", "over", "menu"}
  <2>1. CASE n = 1 BY <2>1 DEF Before
  <2>2. CASE n # 1
    <3>1. n - 1 \in 1 .. Len(stream) BY <1>4, <2>2
    <3>2. Allowed(Before(n - 1), stream[n - 1]) BY <3>1 DEF PlayInv, Course
    <3>3. at = Leads(stream[n - 1]) BY <2>2 DEF Before
    <3> QED BY <3>2, <3>3, Known
  <2> QED BY <2>1, <2>2
<1>6. ASSUME NEW k, Pending(v, k) PROVE kind = k /\ y.pending # 0 BY <1>6 DEF Pending, InHand
<1>7. y.pending # 0 => Allowed(at, stream[y.pending]) /\ kind = stream[y.pending].kind
  BY Holding, Numbered DEF InHand
<1>8. ASSUME NEW phase \in {"select", "loading", "battle", "menu"}, NEW x, x = Enters(v, phase),
             Becomes(v, x), Stands(x, at, due, kind)
      PROVE  PlayInv'
  <2>1. x.valid BY <1>1, <1>8, EntersFields
  <2>2. x.pending = y.pending /\ x.cursor = y.cursor /\ x.net = y.net /\ x.buffer = y.buffer
    BY <1>8, EntersFits
  <2> QED BY <1>2, <1>8, <2>1, <2>2, HeldPlays
<1>9. ASSUME y.phase = "select", Pending(v, "Selection") \/ Pending(v, "Start"), Becomes(v, Enters(v, "loading"))
      PROVE  PlayInv'
  <2> SUFFICES ASSUME NEW x, x = Enters(v, "loading") PROVE PlayInv'
    OBVIOUS
  <2>1. x.phase = "loading" /\ ~x.ending BY EntersFields
  <2>2. (at \in {"select", "selecting"} /\ kind = "Selection") \/ at = "selected"
    <3>1. y.pending # 0 /\ (kind = "Selection" \/ kind = "Start") BY <1>6, <1>9
    <3> QED BY <1>7, <3>1 DEF Allowed
  <2>3. Stands(x, at, due, kind) BY <2>1, <2>2 DEF Stands, BeforeSelection, BeforeStart
  <2> QED BY <1>8, <1>9, <2>3
<1>10. ASSUME y.phase = "loading", Becomes(v, Enters(v, "battle")) PROVE PlayInv'
  <2> SUFFICES ASSUME NEW x, x = Enters(v, "battle") PROVE PlayInv'
    OBVIOUS
  <2>1. \/ at \in {"select", "selecting"} /\ kind = "Selection" /\ ~y.ending
        \/ at = "selected" /\ ~y.ending
    BY <1>3, <1>5, <1>10, Phases
  <2>2. x.phase = "battle" /\ ~x.ending BY <2>1, EntersFields
  <2>3. Stands(x, at, due, kind) BY <2>1, <2>2 DEF Stands, BeforeSelection, BeforeStart
  <2> QED BY <1>8, <1>10, <2>3
<1>11. RunsOn(v) => y.over /\ at = "menu" /\ ~y.retrying /\ y.ending
  <2> SUFFICES ASSUME RunsOn(v) PROVE y.over /\ at = "menu" /\ ~y.retrying /\ y.ending
    OBVIOUS
  <2>1. y.phase = "battle" /\ (y.ending \/ Pending(v, "Retry") \/ Pending(v, "Selecting"))
    BY DEF RunsOn
  <2>2. CASE y.ending BY <1>3, <1>5, <2>1, <2>2, Phases
  <2>3. CASE Pending(v, "Retry")
    <3>0. y.pending # 0 /\ kind = "Retry" BY <1>6, <2>3
    <3>1. at = "menu" BY <1>7, <3>0 DEF Allowed
    <3> QED BY <1>3, <3>1 DEF Stands
  <2>4. CASE Pending(v, "Selecting")
    <3>0. y.pending # 0 /\ kind = "Selecting" BY <1>6, <2>4
    <3>1. at = "select" /\ kind = "Selecting" BY <1>7, <3>0 DEF Allowed
    <3>2. BeforeSelection(y, kind) BY <1>3, <3>1 DEF Stands
    <3> QED BY <2>1, <3>1, <3>2 DEF BeforeSelection
  <2> QED BY <2>1, <2>2, <2>3, <2>4
<1>12. ASSUME RunsOn(v), Becomes(v, Enters(v, "menu")) PROVE PlayInv'
  <2> SUFFICES ASSUME NEW x, x = Enters(v, "menu") PROVE PlayInv'
    OBVIOUS
  <2>1. y.over /\ at = "menu" /\ ~y.retrying /\ y.ending BY <1>11, <1>12
  <2>2. x.phase = "menu" /\ x.ending /\ ~x.retrying /\ x.over BY <2>1, EntersFields
  <2>3. Stands(x, at, due, kind) BY <2>1, <2>2 DEF Stands
  <2> QED BY <1>8, <1>12, <2>3
<1>13. ASSUME y.phase = "menu", y.retrying, y.target = "select", Becomes(v, Enters(v, "select")) PROVE PlayInv'
  <2> SUFFICES ASSUME NEW x, x = Enters(v, "select") PROVE PlayInv'
    OBVIOUS
  <2>1. at \in {"select", "selecting"} BY <1>3, <1>5, <1>13, Phases
  <2>2. x.phase = "select" /\ ~x.ending BY EntersFields
  <2>3. Stands(x, at, due, kind) BY <2>1, <2>2 DEF Stands, BeforeSelection
  <2> QED BY <1>8, <1>13, <2>3
<1>14. ASSUME y.phase = "menu", y.retrying, y.target # "select", Becomes(v, Enters(v, "loading")) PROVE PlayInv'
  <2> SUFFICES ASSUME NEW x, x = Enters(v, "loading") PROVE PlayInv'
    OBVIOUS
  <2>1. (at \in {"select", "selecting"} /\ kind = "Selection") \/ at = "selected"
    BY <1>3, <1>5, <1>14, Phases
  <2>2. x.phase = "loading" /\ ~x.ending BY EntersFields
  <2>3. Stands(x, at, due, kind) BY <2>1, <2>2 DEF Stands, BeforeSelection, BeforeStart
  <2> QED BY <1>8, <1>14, <2>3
<1> QED BY <1>9, <1>10, <1>11, <1>12, <1>13, <1>14 DEF GameGoesOn

LEMMA StepPlays == ASSUME SInv, PlayInv, [Next]_vars PROVE PlayInv'
<1>1. CASE Players BY <1>1, PlayersPlay
<1>2. CASE Collect BY <1>2, CollectPlays
<1>3. ASSUME NEW v \in Viewers,
             \/ Accept(v) \/ Serve(v) \/ CutOff(v) \/ Close(v)
             \/ Receive(v) \/ Playback(v) \/ GiveUp(v)
      PROVE  PlayInv'
  <2>6. CASE GiveUp(v) BY <2>6, GiveUpPlays
  <2>1. CASE Accept(v) BY <2>1, AcceptPlays
  <2>2. CASE Serve(v) BY <2>2, ServePlays
  <2>3. CASE CutOff(v) \/ Close(v) BY <2>3, ClosePlays
  <2>4. CASE Receive(v) BY <2>4, ReceivePlays
  <2>5. CASE Playback(v)
    BY <2>5, TakePlays, SelectingPlays, SelectionPlays, StartPlays, EpochPlays, InputPlays,
       ResultPlays, RetryPlays, GamePlays DEF Playback
  <2> QED BY <1>3, <2>1, <2>2, <2>3, <2>4, <2>5, <2>6
<1>4. CASE UNCHANGED vars
  BY <1>4 DEF vars, PlayInv, Course, Starts, Begins, AllInStep, InStep, SentAway, Before, DueAt, NextRecord, InHand
<1> QED BY <1>1, <1>2, <1>3, <1>4 DEF Next

\* The game of a spectator can use the record that comes, for every course of the match,
\* wherever a spectator joins it and however far its game lags behind: it is sent away only
\* when nothing has come in the battle, or when it has ended the match before the players.
THEOREM SpectatorsCanPlay == Spec => []SentAwayForCause
<1>1. Init => SInv /\ PlayInv BY InitKeeps, InitPlays
<1>2. SInv /\ PlayInv /\ [Next]_vars => (SInv /\ PlayInv)' BY StepKeeps, StepPlays
<1>3. SInv /\ PlayInv => SentAwayForCause
  <2> SUFFICES ASSUME SInv, PlayInv, NEW v \in Viewers, ~viewer[v].valid, ~Starved(v)
               PROVE  EndedEarly(v)
    BY DEF SentAwayForCause
  <2> SUFFICES ASSUME NEW y, y = viewer[v] PROVE EndedEarly(v)
    OBVIOUS
  <2>1. y.cursor # 0 /\ SentAway(y, Before(NextRecord(y)))
    BY DEF PlayInv, AllInStep, InStep
  <2>2. y.phase = "menu" /\ y.pending # 0 /\ Before(NextRecord(y)) = "closing"
    BY <2>1 DEF SentAway, Starved
  <2>3. Before(y.pending) = "closing" BY <2>2, Numbered
  <2> SUFFICES ASSUME NEW r, r = stream[y.pending], NEW due, due = DueAt(y.pending) PROVE EndedEarly(v)
    OBVIOUS
  <2>4. /\ Allowed("closing", r) /\ (r.kind = "Input" => r.at = due)
        /\ Stands(y, "closing", due, r.kind)
    BY <2>2, <2>3, Holding
  <2>5. r.kind = "Input" /\ r.data = "match" BY <2>4 DEF Allowed
  <2>6. y.next = r.at BY <2>4, <2>5 DEF Stands
  <2> QED BY <2>2, <2>5, <2>6 DEF EndedEarly, Data, At
<1> QED BY <1>1, <1>2, <1>3, PTL DEF Spec
=============================================================================
