---------------------------- MODULE InputExchange ----------------------------
(***************************************************************************)
(* The exchange of inputs between the two sides of a session within one    *)
(* epoch: the input thread captures a side's own inputs into a ring, the   *)
(* network thread sends windows of them again and again and stores what it *)
(* receives, the game thread simulates and confirms frames and thereby     *)
(* acknowledges the peer's inputs.                                         *)
(*                                                                         *)
(* Modelled are MatchInputBuffer, the capture loop of InputTimeline, the   *)
(* sending side of NetplaySession, the input fields of SyncCodec's packets *)
(* and the progress of SceneRunner.  Packets are lost, duplicated and      *)
(* reordered.  Frames are counted from the base of the epoch; an input is  *)
(* told by its frame alone, the ring slot it is read from by its tag.      *)
(***************************************************************************)
EXTENDS Integers, FiniteSets

CONSTANTS
    Last,       \* bound: frames 1..Last are captured
    InFlight,   \* bound: packets under way at a time
    Slots,      \* RING_SIZE, 600 in the code
    Backlog,    \* captured frames that may wait for the game: RING_SIZE - 32
    Window,     \* inputs in a packet, 10 in the code
    Delay,      \* the agreed D: frames written ahead with neutral input
    Limit,      \* frames the game may be ahead of the confirmed one
    Skew        \* how far the input clock of one side runs ahead of the other's

ASSUME ConstantsAssumption ==
    /\ Last \in Nat /\ InFlight \in Nat
    /\ Slots \in Nat \ {0} /\ Window \in 1 .. Slots
    /\ Backlog \in Nat /\ Delay \in Nat /\ Delay < Backlog /\ Delay <= Last
    /\ Limit \in Nat \ {0} /\ Skew \in Nat

\* What makes the rings large enough.  With 600 slots, a backlog of 568 and 20
\* frames of prediction the clocks may be 13 frames apart.
ASSUME RingAssumption == Backlog + Limit + Skew <= Slots + 1

Host == "host"
Client == "client"
Sides == {Host, Client}
Other(p) == IF p = Host THEN Client ELSE Host

Lower(a, b) == IF a < b THEN a ELSE b
Higher(a, b) == IF a > b THEN a ELSE b

VARIABLES
    head,       \* head[p]: the newest frame p has captured, _writeHead
    overflow,   \* overflow[p]: InputTimeline::overflow_
    applied,    \* applied[p]: the last frame p has simulated
    consumed,   \* consumed[p]: SharedSyncState::consumedFrame
    ring,       \* ring[p][s]: the frame of the peer's input in slot s, 0 if none
    ack,        \* ack[p]: SharedSyncState::peerConsumedFrame
    net         \* the packets under way

vars == <<head, overflow, applied, consumed, ring, ack, net>>

Packets == [from : Sides, frames : SUBSET (1 .. Last), consumed : 0 .. Last]

Init ==
    /\ head = [p \in Sides |-> Delay]
    /\ overflow = [p \in Sides |-> FALSE]
    /\ applied = [p \in Sides |-> 0]
    /\ consumed = [p \in Sides |-> 0]
    /\ ring = [p \in Sides |-> [s \in 0 .. Slots - 1 |-> 0]]
    /\ ack = [p \in Sides |-> 0]
    /\ net = {}

-----------------------------------------------------------------------------
(* The rings. *)

Slot(f) == f % Slots

\* TryGetLocalInput: a frame stays until the one that is Slots later is written.
HasLocal(p, f) == f > 0 /\ f <= head[p] /\ f > head[p] - Slots

\* TryGetRemoteInput
HasRemote(p, f) == f > 0 /\ ring[p][Slot(f)] = f

\* Mistake: what arrives last keeps the slot.
LastArrivedStays(r, frames) ==
    [s \in 0 .. Slots - 1 |->
        IF \E f \in frames : Slot(f) = s THEN CHOOSE f \in frames : Slot(f) = s ELSE r[s]]

\* ConfirmRemote for every frame of a packet: the newer frame keeps the slot.
Stores(r, frames) ==
    [s \in 0 .. Slots - 1 |->
        IF \E f \in frames : Slot(f) = s /\ f > r[s]
        THEN CHOOSE f \in frames : Slot(f) = s /\ f > r[s]
        ELSE r[s]]

-----------------------------------------------------------------------------
(* The input thread. *)

\* Mistake: the input clock is stopped by a full ring only.
StopsWhenFull(p) == head[p] + 1 - applied[p] >= Slots

\* The game is so far behind that the next capture could overwrite an input
\* somebody needs.
Exhausted(p) == head[p] + 1 - applied[p] >= Backlog

Capture(p) ==
    /\ ~overflow[p]
    /\ head[p] < Last
    /\ head[p] + 1 - head[Other(p)] <= Skew
    /\ IF Exhausted(p)
       THEN overflow' = [overflow EXCEPT ![p] = TRUE] /\ UNCHANGED head
       ELSE head' = [head EXCEPT ![p] = @ + 1] /\ UNCHANGED overflow
    /\ UNCHANGED <<applied, consumed, ring, ack, net>>

-----------------------------------------------------------------------------
(* The network thread. *)

\* Mistake: the second window ends where the first one does.
NewestOnly(p) == head[p]

\* RepairWindowEnd: the window that begins after the acknowledged frame.
RepairWindowEnd(p) == Lower(head[p], ack[p] + Window)

\* BuildPacket with the window that ends with frame end
Packet(p, end) ==
    [from |-> p,
     frames |-> {f \in (end - Window + 1) .. end : HasLocal(p, f)},
     consumed |-> consumed[p]]

\* SendInputPackets: the newest window, and the repair window when it is
\* another one.
Outgoing(p) == {Packet(p, head[p]), Packet(p, RepairWindowEnd(p))}

\* A side sends when it has captured, when it has been acknowledged, and every
\* few ticks anyway.  Any of what it sends may be lost.
Send(p) ==
    /\ \E sent \in SUBSET Outgoing(p) :
          /\ sent \ net # {}
          /\ Cardinality(net \cup sent) <= InFlight
          /\ net' = net \cup sent
    /\ UNCHANGED <<head, overflow, applied, consumed, ring, ack>>

\* An acknowledgement never goes back.
Acknowledged(p, m) == Higher(ack[p], m.consumed)

\* A packet may arrive again.
Receive(p, m) ==
    /\ m.from = Other(p)
    /\ ring' = [ring EXCEPT ![p] = Stores(ring[p], m.frames)]
    /\ ack' = [ack EXCEPT ![p] = Acknowledged(p, m)]
    /\ net' \in {net, net \ {m}}
    /\ UNCHANGED <<head, overflow, applied, consumed>>

Lose(m) ==
    /\ net' = net \ {m}
    /\ UNCHANGED <<head, overflow, applied, consumed, ring, ack>>

-----------------------------------------------------------------------------
(* The game thread. *)

\* The frame after the last simulated one may be fed with a predicted input.
Room(p) == applied[p] + 1 - consumed[p] <= Limit

\* The next frame is simulated; without rollback Limit is 1, and the input of
\* the frame must be there.
Simulate(p) ==
    /\ ~overflow[p]
    /\ HasLocal(p, applied[p] + 1)
    /\ head[p] >= applied[p] + 1 + Delay
    /\ Room(p)
    /\ Limit = 1 => HasRemote(p, applied[p] + 1)
    /\ applied' = [applied EXCEPT ![p] = @ + 1]
    /\ UNCHANGED <<head, overflow, consumed, ring, ack, net>>

\* The oldest unconfirmed frame is confirmed and, at the next frame, published.
Confirm(p) ==
    /\ consumed[p] < applied[p]
    /\ HasLocal(p, consumed[p] + 1)
    /\ HasRemote(p, consumed[p] + 1)
    /\ consumed' = [consumed EXCEPT ![p] = @ + 1]
    /\ UNCHANGED <<head, overflow, applied, ring, ack, net>>

Next ==
    \/ \E p \in Sides :
          \/ Capture(p)
          \/ Send(p)
          \/ \E m \in net : Receive(p, m)
          \/ Simulate(p)
          \/ Confirm(p)
    \/ \E m \in net : Lose(m)

Spec == Init /\ [][Next]_vars

\* A packet that tells its receiver something new.
Delivers(p, m) ==
    Receive(p, m) /\ (ring'[p] # ring[p] \/ ack'[p] # ack[p])

\* Both sides are alive: their threads run, each resends its two windows, what
\* is resent for ever arrives in the end, and nothing stays under way for ever.
\* That a clock overflows while the game waits is possible and never counted on.
FairSpec ==
    /\ Spec
    /\ \A p \in Sides :
          /\ WF_vars(~Exhausted(p) /\ Capture(p))
          /\ WF_vars(Simulate(p))
          /\ WF_vars(Confirm(p))
          /\ SF_vars(Send(p) /\ Packet(p, RepairWindowEnd(p)) \in net')
          /\ SF_vars(\E m \in net : Delivers(p, m))
    /\ WF_vars(\E m \in net : Lose(m))

-----------------------------------------------------------------------------
(* Properties. *)

\* Type invariant.
TypeOK ==
    /\ head \in [Sides -> 0 .. Last]
    /\ overflow \in [Sides -> BOOLEAN]
    /\ applied \in [Sides -> 0 .. Last]
    /\ consumed \in [Sides -> 0 .. Last]
    /\ ring \in [Sides -> [0 .. Slots - 1 -> 0 .. Last]]
    /\ \A p \in Sides, s \in 0 .. Slots - 1 : ring[p][s] # 0 => Slot(ring[p][s]) = s
    /\ ack \in [Sides -> 0 .. Last]
    /\ net \subseteq Packets

\* An input that has been captured stays in the ring until the peer has
\* confirmed the frame it belongs to, so it can always be sent again, however
\* many packets are lost.
NeededInputKept ==
    \A p \in Sides :
        \A f \in consumed[Other(p)] + 1 .. head[p] : HasLocal(p, f)

\* An input received stays in the ring until its frame is confirmed: nothing
\* that arrives later, newer or older, takes its slot.
ReceivedInputKept ==
    [][\A p \in Sides : \A f \in consumed[p] + 1 .. Last :
          HasRemote(p, f) => HasRemote(p, f)']_vars

\* A side takes as acknowledged only what the peer has confirmed: the repair
\* window never skips an input the peer still waits for.
AckHonest ==
    \A p \in Sides : ack[p] <= consumed[Other(p)] /\ consumed[Other(p)] <= head[p]

\* While both sides are alive every frame is confirmed on both sides, unless a
\* side has had to stop its input clock: no lost packet leaves the two waiting
\* for each other.
EveryInputConfirmed ==
    <>(\/ \A p \in Sides : consumed[p] = Last - Delay
       \/ \E p \in Sides : overflow[p])
=============================================================================
