----------------------------- MODULE EpochBarrier -----------------------------
(***************************************************************************)
(* How two sides go from one epoch of a session to the next.  A round of   *)
(* battle is an epoch both enter by a barrier, after the old epoch has     *)
(* been drained, with the random number generator of the host; the         *)
(* character selection and the rematch menu are epochs of their own that   *)
(* each side enters by itself and leaves when it knows that the peer is in *)
(* the same menu.                                                          *)
(*                                                                         *)
(* Modelled are SceneRunner::Step at an epoch boundary, FrameSequence, and *)
(* the fields of SyncCodec's packets by which the sides follow each other. *)
(* What is agreed upon in a menu, the common start of a round's clocks and *)
(* prediction within a round are the subject of other modules: here a      *)
(* frame is played when the peer's input for it is there.  The input clock *)
(* goes on while a side waits for such an input, so that it may have       *)
(* captured far more than it has played.  Epochs are numbered from 1, the  *)
(* base of an epoch is Stride times its number.                            *)
(***************************************************************************)
EXTENDS Integers, Sequences, FiniteSets

CONSTANTS
    Phases,     \* the kind of each epoch: "Select", "Round" or "Retry"
    Menus,      \* the kinds that are independent menus
    Frames,     \* bound: frames in an epoch that is played
    Late,       \* frames a side may stay longer in a round before a rematch
    Lookahead,  \* the agreed D
    Window,     \* the inputs in a packet, ten in the code
    Backlog,    \* bound: inputs captured while the game waits
    Reused,     \* bound: places of a round's end that a menu's inputs take
    InFlight    \* bound: packets under way at a time

ASSUME ConstantsAssumption ==
    /\ Phases \in Seq({"Select", "Round", "Retry"}) /\ Phases # <<>>
    /\ Menus \subseteq {"Select", "Retry"}
    /\ Frames \in Nat /\ Late \in Nat /\ Backlog \in Nat /\ InFlight \in Nat
    /\ Window \in Nat \ {0} /\ Reused \in 0 .. Window
    \* A round is longer than the frames written ahead.
    /\ Lookahead \in 0 .. Frames - 1

Host == "host"
Client == "client"
Sides == {Host, Client}
Other(s) == IF s = Host THEN Client ELSE Host
Epochs == 1 .. Len(Phases)

VARIABLES
    pc,         \* pc[s]: what the game thread of s is doing
    epoch,      \* epoch[s]: FrameSequence::_epoch
    next,       \* next[s]: the last frame played in the epoch, _next - _base - 1
    head,       \* head[s]: the last input captured, of the round begun last
    end,        \* end[s]: the length of a round before a rematch, as s sees it
    token,      \* token[s]: the epoch of localPhaseToken
    consumed,   \* consumed[s]: consumedFrame
    previous,   \* previous[s]: retryPreviousFrame
    tail,       \* tail[s]: how many inputs up to previous[s] the ring still holds
    menu,       \* menu[s][k]: the epoch of localSelection, localRetry
    seed,       \* the host's localSeedEpoch
    peer,       \* peer[s]: what s has received from the other side
    inputs,     \* inputs[s][e]: the inputs of the other side for epoch e that s holds
    net         \* the packets under way

\* What the network thread receives and sends.
wire == <<peer, inputs, net>>

vars == <<pc, epoch, next, head, end, token, consumed, previous, tail, menu, seed, wire>>

Stride == Frames + Late + Lookahead + Backlog + 2
Base(e) == e * Stride
EpochOf(f) == f \div Stride

Higher(a, b) == IF a > b THEN a ELSE b
Lower(a, b) == IF a < b THEN a ELSE b
Independent(e) == Phases[e] \in Menus

Nothing == [token |-> 0, consumed |-> 0, seed |-> 0,
            menu |-> [k \in {"Select", "Retry"} |-> 0]]

Init ==
    /\ pc = [s \in Sides |-> "Leave"]
    /\ epoch = [s \in Sides |-> 0]
    /\ next = [s \in Sides |-> 0]
    /\ head = [s \in Sides |-> 0]
    /\ end \in [Sides -> Frames .. Frames + Late]
    /\ token = [s \in Sides |-> 0]
    /\ consumed = [s \in Sides |-> 0]
    /\ previous = [s \in Sides |-> 0]
    /\ tail = [s \in Sides |-> 0]
    /\ menu = [s \in Sides |-> Nothing.menu]
    /\ seed = 0
    /\ peer = [s \in Sides |-> Nothing]
    /\ inputs = [s \in Sides |-> [e \in Epochs |-> {}]]
    /\ net = {}

-----------------------------------------------------------------------------
(* The game thread leaves an epoch. *)

PeerInMenu(s) == peer[s].menu[Phases[epoch[s]]] = epoch[s]

\* A menu is left by agreement, which takes at least the news that the peer is
\* in the same menu.
LeaveMenu(s) ==
    /\ pc[s] = "Menu"
    /\ PeerInMenu(s)
    /\ pc' = [pc EXCEPT ![s] = "Leave"]
    /\ UNCHANGED <<epoch, next, head, end, token, consumed, previous, tail, menu, seed, wire>>

\* The length of the epoch.  Before a rematch the end of the battle may take
\* one side a frame longer than the other.
End(s) ==
    IF epoch[s] < Len(Phases) /\ Phases[epoch[s] + 1] = "Retry" THEN end[s] ELSE Frames

LeaveRound(s) ==
    /\ pc[s] = "Play"
    /\ next[s] = End(s)
    /\ pc' = [pc EXCEPT ![s] = "Leave"]
    /\ UNCHANGED <<epoch, next, head, end, token, consumed, previous, tail, menu, seed, wire>>

-----------------------------------------------------------------------------
(* The game thread enters an epoch. *)

\* PeerEnteredNextPhase
PeerEnteredNextPhase(s) == epoch[s] > 0 /\ peer[s].token = epoch[s] + 1

\* Mistake: the next epoch is begun without waiting for the peer.
NotDrained(s) == TRUE

\* The peer has played every frame this side has, or has gone on to the rematch.
Drained(s) ==
    \/ consumed[s] = 0
    \/ peer[s].consumed >= consumed[s]
    \/ Phases[epoch[s] + 1] = "Retry" /\ PeerEnteredNextPhase(s)

\* Inputs of the epochs to come are kept; those of the epoch left are never read
\* again, and forgotten here.
Kept(s) == [e \in Epochs |-> IF e > epoch[s] THEN inputs[s][e] ELSE {}]

\* Mistake: the host reads its generator and does not name the epoch.
KeepsOldSeed(s) == seed

\* The host captures its generator for the epoch it begins.
SeedOf(s) == IF s = Host THEN epoch[s] + 1 ELSE seed

\* A boundary with a barrier: everything but the token is set.
Begin(s) ==
    /\ pc[s] = "Leave"
    /\ epoch[s] < Len(Phases) /\ ~Independent(epoch[s] + 1)
    /\ Drained(s)
    /\ epoch' = [epoch EXCEPT ![s] = @ + 1]
    /\ next' = [next EXCEPT ![s] = 0]
    /\ head' = [head EXCEPT ![s] = Lookahead]
    /\ inputs' = [inputs EXCEPT ![s] = Kept(s)]
    /\ seed' = SeedOf(s)
    /\ pc' = [pc EXCEPT ![s] = "Begun"]
    /\ UNCHANGED <<end, token, consumed, previous, tail, menu, peer, net>>

\* A menu is entered without a barrier; what the peer may still need of the
\* round before a rematch is remembered.
BeginMenu(s) ==
    /\ pc[s] = "Leave"
    /\ epoch[s] < Len(Phases) /\ Independent(epoch[s] + 1)
    /\ LET e == epoch[s] + 1
           k == Phases[e]
       IN /\ epoch' = [epoch EXCEPT ![s] = e]
          /\ next' = [next EXCEPT ![s] = 0]
          /\ previous' = IF k = "Retry" THEN [previous EXCEPT ![s] = consumed[s]] ELSE previous
          /\ tail' = IF k = "Retry" THEN [tail EXCEPT ![s] = Window] ELSE tail
          /\ menu' = [menu EXCEPT ![s][k] = e]
          /\ consumed' = [consumed EXCEPT ![s] = Base(e)]
    /\ inputs' = [inputs EXCEPT ![s] = Kept(s)]
    /\ pc' = [pc EXCEPT ![s] = "Begun"]
    /\ UNCHANGED <<head, end, token, seed, peer, net>>

Publish(s) ==
    /\ pc[s] = "Begun"
    /\ token' = [token EXCEPT ![s] = epoch[s]]
    /\ pc' = [pc EXCEPT ![s] = IF Independent(epoch[s]) THEN "Menu" ELSE "Barrier"]
    /\ UNCHANGED <<epoch, next, head, end, consumed, previous, tail, menu, seed, wire>>

\* Mistake: a peer that is still in an older epoch opens the barrier.
BarrierOpensEarly(s) == peer[s].token > 0

BarrierOpen(s) == peer[s].token = epoch[s]

\* The peer has begun the same epoch.  One that is ahead is taken for a
\* violation of the protocol.
LookAtBarrier(s) ==
    /\ pc[s] = "Barrier"
    /\ BarrierOpen(s) \/ peer[s].token > epoch[s]
    /\ pc' = [pc EXCEPT ![s] =
                 IF peer[s].token > epoch[s] THEN "Failed"
                 ELSE IF s = Host THEN "Play" ELSE "Seed"]
    /\ UNCHANGED <<epoch, next, head, end, token, consumed, previous, tail, menu, seed, wire>>

\* The client takes over the host's generator.
TakeSeed ==
    /\ pc[Client] = "Seed"
    /\ peer[Client].seed = epoch[Client]
    /\ pc' = [pc EXCEPT ![Client] = "Play"]
    /\ UNCHANGED <<epoch, next, head, end, token, consumed, previous, tail, menu, seed, wire>>

-----------------------------------------------------------------------------
(* Play. *)

\* The input clock runs from the barrier to the end of the round, whether the game
\* plays or waits.
Capture(s) ==
    /\ pc[s] = "Play"
    /\ head[s] < next[s] + 1 + Lookahead + Backlog
    /\ head' = [head EXCEPT ![s] = @ + 1]
    /\ UNCHANGED <<pc, epoch, next, end, token, consumed, previous, tail, menu, seed, wire>>

\* Mistake: a frame is played on a prediction to the end of the round.
AlwaysInput(s) == TRUE

HasInput(s) == next[s] + 1 \in inputs[s][epoch[s]]

Play(s) ==
    /\ pc[s] = "Play"
    /\ next[s] < End(s)
    /\ head[s] >= next[s] + 1 + Lookahead
    /\ HasInput(s)
    /\ next' = [next EXCEPT ![s] = @ + 1]
    /\ consumed' = [consumed EXCEPT ![s] = Base(epoch[s]) + next[s] + 1]
    /\ UNCHANGED <<pc, epoch, head, end, token, previous, tail, menu, seed, wire>>

\* It runs in the rematch menu, too, and the inputs captured there take the places of
\* the round's last ones in the ring, the oldest of them first.
Reuse(s) ==
    /\ pc[s] = "Menu" /\ Phases[epoch[s]] = "Retry"
    /\ tail[s] > Window - Reused
    /\ tail' = [tail EXCEPT ![s] = @ - 1]
    /\ UNCHANGED <<pc, epoch, next, head, end, token, consumed, previous, menu, seed, wire>>

-----------------------------------------------------------------------------
(* The network thread. *)

\* The n inputs up to frame last.
UpTo(last, n) == {f \in 1 .. last : f > last - n}

\* RepairWindowEnd: no further than the window behind what the peer has played.
RepairEnd(s) ==
    LET played == peer[s].consumed
        ack == IF EpochOf(played) = token[s] THEN played % Stride ELSE 0
    IN Lower(head[s], ack + Window)

\* The rematch menu sends the end of the round to a peer that is not there yet.
SendsTail(s) ==
    Phases[token[s]] = "Retry" /\ peer[s].token < token[s] /\ previous[s] > 0

\* The frames a packet carries inputs of: the newest, or those from the first
\* one the peer has not played.  When a round has begun and its token is not
\* published yet there are only newest ones, since the old round is drained.
Inputs(s, newest) ==
    IF token[s] > 0 /\ Independent(token[s])
    THEN IF SendsTail(s)
         THEN [epoch |-> EpochOf(previous[s]), frames |-> UpTo(previous[s] % Stride, tail[s])]
         ELSE [epoch |-> token[s], frames |-> {}]
    ELSE IF pc[s] = "Begun" /\ ~Independent(epoch[s])
    THEN [epoch |-> epoch[s], frames |-> IF newest THEN UpTo(head[s], Window) ELSE {}]
    ELSE [epoch |-> Higher(token[s], 1),
          frames |-> UpTo(IF newest THEN head[s] ELSE RepairEnd(s), Window)]

Packet(s, newest) ==
    [from |-> s, token |-> token[s], consumed |-> consumed[s],
     seed |-> IF s = Host THEN seed ELSE 0, menu |-> menu[s], inputs |-> Inputs(s, newest)]

\* Packets are sent all the time, and any of those under way may be lost.
Send(s, newest) ==
    LET m == Packet(s, newest)
    IN /\ m \notin net
       /\ \E kept \in SUBSET net :
             /\ Cardinality(kept \cup {m}) <= InFlight
             /\ net' = kept \cup {m}
       /\ UNCHANGED <<pc, epoch, next, head, end, token, consumed, previous, tail, menu, seed>>
       /\ UNCHANGED <<peer, inputs>>

NewerToken(s, m) == Higher(peer[s].token, m.token)

\* ProcessReceivedPacket: everything received only grows.
Receive(s, m) ==
    /\ m.from = Other(s)
    /\ LET p == peer[s]
       IN peer' = [peer EXCEPT ![s] =
             [token |-> NewerToken(s, m),
              consumed |-> Higher(p.consumed, m.consumed),
              seed |-> IF s = Client /\ m.seed > 0 /\ m.seed = m.token
                       THEN Higher(p.seed, m.seed) ELSE p.seed,
              menu |-> [k \in DOMAIN p.menu |-> Higher(p.menu[k], m.menu[k])]]]
    /\ inputs' = IF m.inputs.epoch >= epoch[s]
                 THEN [inputs EXCEPT ![s][m.inputs.epoch] = @ \cup m.inputs.frames] ELSE inputs
    /\ net' \in {net, net \ {m}}
    /\ UNCHANGED <<pc, epoch, next, head, end, token, consumed, previous, tail, menu, seed>>

-----------------------------------------------------------------------------
GameThread(s) ==
    \/ LeaveMenu(s)
    \/ LeaveRound(s)
    \/ Begin(s)
    \/ BeginMenu(s)
    \/ Publish(s)
    \/ LookAtBarrier(s)
    \/ s = Client /\ TakeSeed
    \/ Play(s)

Next ==
    \E s \in Sides :
        \/ GameThread(s)
        \/ Capture(s)
        \/ Reuse(s)
        \/ \E newest \in BOOLEAN : Send(s, newest)
        \/ \E m \in net : Receive(s, m)

Spec == Init /\ [][Next]_vars

\* Both sides stay alive: their threads run, and a packet that is built again
\* and again, with the inputs the peer needs next, arrives in the end.
FairSpec ==
    /\ Spec
    /\ \A s \in Sides :
          /\ WF_vars(GameThread(s))
          /\ WF_vars(Capture(s))
          /\ WF_vars(Send(s, FALSE))
          /\ SF_vars(\E m \in net : m = Packet(Other(s), FALSE) /\ Receive(s, m))

-----------------------------------------------------------------------------
(* Properties. *)

\* Type invariant.
TypeOK ==
    /\ pc \in [Sides -> {"Leave", "Menu", "Begun", "Barrier", "Seed", "Play", "Failed"}]
    /\ epoch \in [Sides -> 0 .. Len(Phases)]
    /\ next \in [Sides -> 0 .. Frames + Late]
    /\ head \in [Sides -> 0 .. Stride - 1]
    /\ end \in [Sides -> Frames .. Frames + Late]
    /\ token \in [Sides -> 0 .. Len(Phases)]
    /\ \A s \in Sides : {consumed[s], previous[s], peer[s].consumed} \subseteq Nat
    /\ tail \in [Sides -> 0 .. Window]
    /\ seed \in 0 .. Len(Phases)
    /\ \A s \in Sides :
          pc[s] \in {"Play", "Seed", "Barrier", "Menu"} => token[s] = epoch[s]
    /\ pc[Host] \in {"Play", "Barrier"} => seed = epoch[Host]

\* An input of epoch e that s has captured, or may capture before it leaves the epoch,
\* and that its packets carry, or will when the peer comes to it.
StillComes(s, e, f) ==
    \/ epoch[s] < e
    \/ epoch[s] = e /\ pc[s] \in {"Begun", "Barrier", "Seed", "Play"}
    \/ token[s] = e /\ (epoch[s] > e => Independent(epoch[s])) /\ f <= head[s]
    \/ /\ token[s] > e /\ SendsTail(s)
       /\ Inputs(s, FALSE).epoch = e /\ f \in Inputs(s, FALSE).frames
    \/ \E m \in net : m.from = s /\ m.inputs.epoch = e /\ f \in m.inputs.frames

\* s waits, or will before the end of its round, for an input that is lost and that
\* the other side sends no more.
Stranded(s) ==
    /\ pc[s] = "Play"
    /\ \E f \in next[s] + 1 .. End(s) :
          f \notin inputs[s][epoch[s]] /\ ~StillComes(Other(s), epoch[s], f)

\* Whatever a side still needs to play its round to the end has arrived, or the
\* peer goes on sending it: nobody leaves an epoch and takes along an input the
\* other one waits for.
NobodyStranded == \A s \in Sides : ~Stranded(s)

\* The rematch follows the round s plays, and the other side ends that round earlier, or
\* is in the menu and holds only inputs that begin after the next frame of s.
LeftBehind(s) ==
    LET o == Other(s)
    IN /\ epoch[s] < Len(Phases) /\ Phases[epoch[s] + 1] = "Retry"
       /\ \/ end[o] < end[s]
          \/ epoch[o] = epoch[s] + 1 /\ next[s] + tail[o] < end[o]

\* Nobody takes along an input the other one waits for into the next round, and into
\* the rematch menu only if the other one is further behind than what is still sent
\* there, or ends later.
StrandedByRematchOnly == \A s \in Sides : Stranded(s) => LeftBehind(s)

\* A side plays a round only after the peer has come to it, and the two are
\* never further apart than neighbouring epochs.
EnteredTogether ==
    \A s \in Sides :
        /\ pc[s] \in {"Seed", "Play"} => token[Other(s)] >= epoch[s]
        /\ epoch[s] <= epoch[Other(s)] + 1

\* Two sides that follow the protocol never take each other for one that
\* violates it, however late a packet of an older or a newer epoch arrives.
NoFalseAlarm == \A s \in Sides : pc[s] # "Failed"

\* While both sides are alive both get through all epochs, unless one is stranded.
EverybodyArrives ==
    <>[](\/ \A s \in Sides : epoch[s] = Len(Phases) /\ pc[s] = "Leave"
         \/ \E s \in Sides : Stranded(s))
=============================================================================
