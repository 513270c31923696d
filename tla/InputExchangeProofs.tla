------------------------- MODULE InputExchangeProofs -------------------------
(***************************************************************************)
(* Proofs about InputExchange, for every ring size, backlog, packet        *)
(* window, delay, prediction limit and skew that RingAssumption admits.    *)
(*                                                                         *)
(* That a ring slot is free when it is written again follows from a chain  *)
(* of distances: captured - simulated < Backlog, simulated - confirmed <=  *)
(* Limit, and the two captures are at most Skew apart.  IInv states that   *)
(* chain and what packets and acknowledgements under way can be.           *)
(***************************************************************************)
EXTENDS InputExchange, TLAPS

\* What one side has confirmed, simulated and captured, in this order, and how
\* far apart the three can be.
Apart(p) ==
    /\ consumed[p] <= applied[p]
    /\ applied[p] <= consumed[p] + Limit
    /\ applied[p] + Delay <= head[p]
    /\ head[p] < applied[p] + Backlog
    /\ head[p] <= head[Other(p)] + Skew

Distances == \A p \in Sides : Apart(p)

\* Nothing received, acknowledged or under way is ahead of its origin.
NothingInvented ==
    /\ \A p \in Sides :
          /\ ack[p] <= consumed[Other(p)]
          /\ consumed[p] <= head[Other(p)]
          /\ \A s \in 0 .. Slots - 1 : ring[p][s] <= head[Other(p)]
    /\ \A m \in net :
          /\ m.consumed <= consumed[m.from]
          /\ \A f \in m.frames : f <= head[m.from]

IInv == TypeOK /\ Distances /\ NothingInvented

\* The constants are numbers.
LEMMA Constants ==
    /\ Last \in Nat /\ Slots \in Nat /\ Slots > 0 /\ Backlog \in Nat /\ Delay \in Nat
    /\ Delay < Backlog /\ Delay <= Last /\ Limit \in Nat /\ Skew \in Nat
BY ConstantsAssumption

\* The two sides.
LEMMA Opposite ==
    ASSUME NEW p \in Sides
    PROVE  /\ Other(p) \in Sides /\ Other(p) # p /\ Other(Other(p)) = p
           /\ \A q \in Sides : q = p \/ q = Other(p)
BY DEF Host, Client, Sides, Other

\* The counters of a side are numbers.
LEMMA Counters ==
    ASSUME TypeOK, NEW p \in Sides
    PROVE  head[p] \in 0 .. Last /\ applied[p] \in 0 .. Last /\ consumed[p] \in 0 .. Last /\ ack[p] \in 0 .. Last
BY DEF TypeOK

-----------------------------------------------------------------------------
(* The rings. *)

\* Euclidean division.
LEMMA DivMod ==
    ASSUME NEW f \in Nat, NEW n \in Nat, n > 0
    PROVE  f \div n \in Int /\ f % n \in 0 .. n - 1 /\ f = n * (f \div n) + (f % n)
OBVIOUS

LEMMA Distributes == ASSUME NEW a \in Int, NEW b \in Int, NEW n \in Int PROVE n * b - n * a = n * (b - a)
OBVIOUS

\* A positive multiple of n is at least n.
LEMMA PositiveMultiple ==
    ASSUME NEW q \in Int, NEW n \in Nat, n > 0, n * q > 0
    PROVE  n * q >= n
<1>1. q >= 1
    OBVIOUS
<1>. QED BY <1>1

\* Two numbers with the same remainder are a divisor apart.
LEMMA RemaindersApart ==
    ASSUME NEW f \in Nat, NEW g \in Nat, NEW n \in Nat, n > 0, f < g, f % n = g % n
    PROVE  f + n <= g
<1>. DEFINE a == f \div n
            b == g \div n
            x == n * a
            y == n * b
            z == f % n
<1>1. a \in Int /\ b \in Int /\ x \in Int /\ y \in Int /\ z \in Int
    BY DivMod
<1>2. f = x + z /\ g = y + z
    BY DivMod
<1>3. y - x = n * (b - a)
    BY <1>1, Distributes
<1>. HIDE DEF a, b, x, y, z
<1>4. g - f = n * (b - a)
    BY <1>1, <1>2, <1>3
<1>5. b - a \in Int /\ n * (b - a) > 0
    BY <1>1, <1>4
<1>6. n * (b - a) >= n
    BY <1>5, PositiveMultiple
<1>. QED BY <1>4, <1>6

\* Every frame has a slot.
LEMMA SlotType == ASSUME NEW f \in Nat PROVE Slot(f) \in 0 .. Slots - 1
BY Constants, DivMod DEF Slot

\* Two frames that share a slot are a ring apart.
LEMMA SlotsApart ==
    ASSUME NEW f \in Nat, NEW g \in Nat, f < g, Slot(f) = Slot(g)
    PROVE  f + Slots <= g
BY Constants, RemaindersApart DEF Slot

\* A ring in which the inputs of a packet have been stored is a ring, and holds
\* in every slot what it held before or a newer frame of the packet.
LEMMA StoresRing ==
    ASSUME NEW r \in [0 .. Slots - 1 -> 0 .. Last], NEW frames \in SUBSET (1 .. Last)
    PROVE  /\ Stores(r, frames) \in [0 .. Slots - 1 -> 0 .. Last]
           /\ \A s \in 0 .. Slots - 1 :
                 \/ Stores(r, frames)[s] = r[s]
                 \/ /\ Stores(r, frames)[s] \in frames
                    /\ Slot(Stores(r, frames)[s]) = s
                    /\ Stores(r, frames)[s] > r[s]
<1>1. ASSUME NEW s \in 0 .. Slots - 1
      PROVE  \/ Stores(r, frames)[s] = r[s]
             \/ /\ Stores(r, frames)[s] \in frames
                /\ Slot(Stores(r, frames)[s]) = s
                /\ Stores(r, frames)[s] > r[s]
    <2>1. CASE \E f \in frames : Slot(f) = s /\ f > r[s]
        <3>1. Stores(r, frames)[s] = CHOOSE f \in frames : Slot(f) = s /\ f > r[s]
            BY <2>1 DEF Stores
        <3>. QED BY <2>1, <3>1
    <2>2. CASE ~\E f \in frames : Slot(f) = s /\ f > r[s]
        BY <2>2 DEF Stores
    <2>. QED BY <2>1, <2>2
<1>2. Stores(r, frames) = [s \in 0 .. Slots - 1 |-> Stores(r, frames)[s]]
    BY DEF Stores
<1>3. ASSUME NEW s \in 0 .. Slots - 1 PROVE Stores(r, frames)[s] \in 0 .. Last
    <2>1. r[s] \in 0 .. Last /\ \A f \in frames : f \in 0 .. Last
        OBVIOUS
    <2>. QED BY <1>1, <2>1
<1>. QED BY <1>1, <1>2, <1>3

-----------------------------------------------------------------------------
(* One lemma per action: it preserves the inductive invariant. *)

LEMMA InitHolds == Init => IInv
<1>. SUFFICES ASSUME Init PROVE IInv
    OBVIOUS
<1>1. TypeOK
    BY Constants DEF Init, TypeOK, Packets
<1>2. Distances
    BY Constants, Opposite DEF Init, Distances, Apart
<1>3. NothingInvented
    BY Constants, Opposite DEF Init, NothingInvented
<1>. QED BY <1>1, <1>2, <1>3 DEF IInv

LEMMA CaptureKeeps ==
    ASSUME NEW p \in Sides, IInv, Capture(p)
    PROVE  IInv'
<1>1. UNCHANGED <<applied, consumed, ring, ack, net>>
    BY DEF Capture
<1>2. TypeOK /\ Distances /\ NothingInvented
    BY DEF IInv
<1>3. CASE Exhausted(p)
    <2>1. head' = head /\ overflow' = [overflow EXCEPT ![p] = TRUE]
        BY <1>3 DEF Capture
    <2>2. TypeOK'
        BY <1>1, <1>2, <2>1 DEF TypeOK
    <2>. QED BY <1>1, <1>2, <2>1, <2>2 DEF IInv, Distances, Apart, NothingInvented
<1>4. CASE ~Exhausted(p)
    <2>1. head' = [head EXCEPT ![p] = @ + 1] /\ overflow' = overflow
        BY <1>4 DEF Capture
    <2>2. /\ head \in [Sides -> 0 .. Last]
          /\ \A q \in Sides : applied[q] \in Nat /\ consumed[q] \in Nat
        BY <1>2, Constants, Counters DEF TypeOK
    <2>3. \A q \in Sides : head'[q] = IF q = p THEN head[q] + 1 ELSE head[q]
        BY <2>1, <2>2
    <2>4. head[p] < Last /\ head[p] + 1 - head[Other(p)] <= Skew /\ ~(head[p] + 1 - applied[p] >= Backlog)
        BY <1>4 DEF Capture, Exhausted
    <2>5. \A q \in Sides : head[q] \in Nat /\ head'[q] \in Nat /\ head[q] <= head'[q]
        BY <2>2, <2>3, Constants
    <2>6. TypeOK'
        <3>1. head' \in [Sides -> 0 .. Last]
            BY <2>1, <2>2, <2>4, Constants
        <3>. QED BY <1>1, <1>2, <2>1, <3>1 DEF TypeOK
    <2>7. Distances'
        <3>. SUFFICES ASSUME NEW q \in Sides PROVE Apart(q)'
            BY DEF Distances
        <3>1. Apart(q) /\ Other(q) \in Sides /\ Other(p) \in Sides /\ Other(p) # p
            BY <1>2, Opposite DEF Distances
        <3>2. CASE q = p
            BY <1>1, <2>2, <2>3, <2>4, <2>5, <3>1, <3>2, Constants DEF Apart
        <3>3. CASE q # p
            BY <1>1, <2>2, <2>3, <2>5, <3>1, <3>3, Constants DEF Apart
        <3>. QED BY <3>2, <3>3
    <2>8. NothingInvented'
        <3>1. ASSUME NEW q \in Sides, NEW f \in Int, f <= head[q] PROVE f <= head'[q]
            BY <2>5, <3>1
        <3>2. ASSUME NEW q \in Sides, NEW s \in 0 .. Slots - 1 PROVE ring[q][s] <= head'[Other(q)]
            <4>1. ring[q] \in [0 .. Slots - 1 -> 0 .. Last]
                BY <1>2 DEF TypeOK
            <4>2. ring[q][s] \in Int
                BY <4>1, Constants
            <4>3. ring[q][s] <= head[Other(q)] /\ Other(q) \in Sides
                BY <1>2, Opposite DEF NothingInvented
            <4>. QED BY <3>1, <4>2, <4>3
        <3>3. ASSUME NEW m \in net, NEW f \in m.frames PROVE f <= head'[m.from]
            <4>1. f \in Int /\ m.from \in Sides /\ f <= head[m.from]
                BY <1>2 DEF TypeOK, NothingInvented, Packets
            <4>. QED BY <3>1, <4>1
        <3>4. ASSUME NEW q \in Sides PROVE consumed[q] <= head'[Other(q)]
            <4>1. consumed[q] \in Int /\ consumed[q] <= head[Other(q)] /\ Other(q) \in Sides
                BY <1>2, <2>2, Opposite DEF NothingInvented
            <4>. QED BY <3>1, <4>1
        <3>. QED BY <1>1, <1>2, <3>2, <3>3, <3>4 DEF NothingInvented
    <2>. QED BY <2>6, <2>7, <2>8 DEF IInv
<1>. QED BY <1>3, <1>4

\* Whatever window a packet is built for, it holds captured inputs and the
\* confirmed frame of its sender.
LEMMA PacketHonest ==
    ASSUME NEW p \in Sides, IInv, NEW end
    PROVE  /\ Packet(p, end) \in Packets
           /\ Packet(p, end).from = p
           /\ Packet(p, end).consumed = consumed[p]
           /\ \A f \in Packet(p, end).frames : f <= head[p]
<1>1. \A f \in Packet(p, end).frames : HasLocal(p, f) /\ f \in (end - Window + 1) .. end
    BY DEF Packet
<1>2. \A f \in Packet(p, end).frames : f \in 1 .. Last /\ f <= head[p]
    BY <1>1, Constants DEF HasLocal, IInv, TypeOK
<1>. QED BY <1>2 DEF Packet, Packets, IInv, TypeOK

LEMMA SendKeeps ==
    ASSUME NEW p \in Sides, IInv, Send(p)
    PROVE  IInv'
<1>1. UNCHANGED <<head, overflow, applied, consumed, ring, ack>>
    BY DEF Send
<1>2. PICK sent \in SUBSET Outgoing(p) : net' = net \cup sent
    BY DEF Send
<1>3. ASSUME NEW m \in sent
      PROVE  m \in Packets /\ m.consumed <= consumed[m.from] /\ \A f \in m.frames : f <= head[m.from]
    <2>1. PICK end : m = Packet(p, end)
        BY DEF Outgoing
    <2>2. m \in Packets /\ m.from = p /\ m.consumed = consumed[p] /\ \A f \in m.frames : f <= head[p]
        BY <2>1, PacketHonest
    <2>3. consumed[p] \in Nat
        BY Constants, Counters DEF IInv
    <2>. QED BY <2>2, <2>3
<1>4. TypeOK'
    BY <1>1, <1>2, <1>3 DEF IInv, TypeOK
<1>5. Distances'
    BY <1>1 DEF IInv, Distances, Apart
<1>6. NothingInvented'
    BY <1>1, <1>2, <1>3 DEF IInv, NothingInvented
<1>. QED BY <1>4, <1>5, <1>6 DEF IInv

LEMMA ReceiveKeeps ==
    ASSUME NEW p \in Sides, NEW m \in net, IInv, Receive(p, m)
    PROVE  IInv'
<1>. DEFINE new == Stores(ring[p], m.frames)
<1>1. UNCHANGED <<head, overflow, applied, consumed>> /\ net' \subseteq net
    BY DEF Receive
<1>2. m \in Packets /\ m.from = Other(p)
    BY DEF IInv, TypeOK, Receive
<1>3. ring[p] \in [0 .. Slots - 1 -> 0 .. Last] /\ m.frames \in SUBSET (1 .. Last)
    BY <1>2 DEF IInv, TypeOK, Packets
<1>4. ring' = [ring EXCEPT ![p] = new]
    BY DEF Receive
<1>5. /\ new \in [0 .. Slots - 1 -> 0 .. Last]
      /\ \A s \in 0 .. Slots - 1 :
            \/ new[s] = ring[p][s]
            \/ new[s] \in m.frames /\ Slot(new[s]) = s
    BY <1>3, StoresRing
<1>6. ack' = [ack EXCEPT ![p] = Higher(ack[p], m.consumed)]
    BY DEF Receive, Acknowledged
<1>. HIDE DEF new
<1>7. m.consumed \in 0 .. Last /\ m.consumed <= consumed[Other(p)]
    BY <1>2 DEF IInv, NothingInvented, Packets
<1>8. \A s \in 0 .. Slots - 1 : new[s] <= head[Other(p)]
    BY <1>2, <1>5 DEF IInv, NothingInvented
<1>9. TypeOK'
    <2>1. ring' \in [Sides -> [0 .. Slots - 1 -> 0 .. Last]]
        BY <1>4, <1>5 DEF IInv, TypeOK
    <2>2. \A q \in Sides, s \in 0 .. Slots - 1 : ring'[q][s] # 0 => Slot(ring'[q][s]) = s
        <3>. SUFFICES ASSUME NEW q \in Sides, NEW s \in 0 .. Slots - 1, ring'[q][s] # 0
                      PROVE  Slot(ring'[q][s]) = s
            OBVIOUS
        <3>1. CASE q = p
            BY <1>4, <1>5, <3>1 DEF IInv, TypeOK
        <3>2. CASE q # p
            BY <1>4, <3>2 DEF IInv, TypeOK
        <3>. QED BY <3>1, <3>2
    <2>3. ack' \in [Sides -> 0 .. Last]
        BY <1>6, <1>7 DEF IInv, TypeOK, Higher
    <2>. QED BY <1>1, <2>1, <2>2, <2>3 DEF IInv, TypeOK
<1>10. Distances'
    BY <1>1 DEF IInv, Distances, Apart
<1>11. NothingInvented'
    <2>1. \A q \in Sides : ack'[q] <= consumed[Other(q)]
        BY <1>6, <1>7 DEF IInv, TypeOK, NothingInvented, Higher
    <2>2. \A q \in Sides, s \in 0 .. Slots - 1 : ring'[q][s] <= head[Other(q)]
        <3>. SUFFICES ASSUME NEW q \in Sides, NEW s \in 0 .. Slots - 1
                      PROVE  ring'[q][s] <= head[Other(q)]
            OBVIOUS
        <3>1. CASE q = p
            BY <1>4, <1>8, <3>1 DEF IInv, TypeOK
        <3>2. CASE q # p
            BY <1>4, <3>2 DEF IInv, TypeOK, NothingInvented
        <3>. QED BY <3>1, <3>2
    <2>. QED BY <1>1, <2>1, <2>2 DEF IInv, NothingInvented
<1>. QED BY <1>9, <1>10, <1>11 DEF IInv

LEMMA LoseKeeps ==
    ASSUME NEW m \in net, IInv, Lose(m)
    PROVE  IInv'
BY DEF IInv, TypeOK, Distances, Apart, NothingInvented, Lose

LEMMA SimulateKeeps ==
    ASSUME NEW p \in Sides, IInv, Simulate(p)
    PROVE  IInv'
<1>1. UNCHANGED <<head, overflow, consumed, ring, ack, net>>
    BY DEF Simulate
<1>2. TypeOK /\ Distances /\ NothingInvented
    BY DEF IInv
<1>3. applied' = [applied EXCEPT ![p] = @ + 1]
    BY DEF Simulate
<1>4. head[p] >= applied[p] + 1 + Delay /\ applied[p] + 1 - consumed[p] <= Limit
    BY DEF Simulate, Room
<1>5. applied \in [Sides -> 0 .. Last] /\ \A q \in Sides : head[q] \in 0 .. Last /\ consumed[q] \in Nat
    BY <1>2, Constants, Counters DEF TypeOK
<1>6. \A q \in Sides : applied'[q] = IF q = p THEN applied[q] + 1 ELSE applied[q]
    BY <1>3, <1>5
<1>7. TypeOK'
    <2>1. applied[p] + 1 \in 0 .. Last
        BY <1>4, <1>5, Constants
    <2>2. applied' \in [Sides -> 0 .. Last]
        BY <1>3, <1>5, <2>1
    <2>. QED BY <1>1, <1>2, <2>2 DEF TypeOK
<1>8. Distances'
    <2>. SUFFICES ASSUME NEW q \in Sides PROVE Apart(q)'
        BY DEF Distances
    <2>1. Apart(q)
        BY <1>2 DEF Distances
    <2>2. applied[q] \in Nat /\ head[q] \in Nat /\ consumed[q] \in Nat
        BY <1>5, Constants
    <2>3. CASE q = p
        BY <1>1, <1>4, <1>6, <2>1, <2>2, <2>3, Constants DEF Apart
    <2>4. CASE q # p
        BY <1>1, <1>6, <2>1, <2>4 DEF Apart
    <2>. QED BY <2>3, <2>4
<1>9. NothingInvented'
    BY <1>1, <1>2 DEF NothingInvented
<1>. QED BY <1>7, <1>8, <1>9 DEF IInv

LEMMA ConfirmKeeps ==
    ASSUME NEW p \in Sides, IInv, Confirm(p)
    PROVE  IInv'
<1>1. UNCHANGED <<head, overflow, applied, ring, ack, net>>
    BY DEF Confirm
<1>2. TypeOK /\ Distances /\ NothingInvented
    BY DEF IInv
<1>3. consumed' = [consumed EXCEPT ![p] = @ + 1] /\ consumed[p] < applied[p]
    BY DEF Confirm
<1>4. consumed \in [Sides -> 0 .. Last] /\ \A q \in Sides : applied[q] \in 0 .. Last
    BY <1>2, Constants, Counters DEF TypeOK
<1>5. \A q \in Sides : consumed'[q] = IF q = p THEN consumed[q] + 1 ELSE consumed[q]
    BY <1>3, <1>4
<1>6. \A q \in Sides : consumed[q] \in Nat /\ consumed'[q] \in Nat /\ consumed[q] <= consumed'[q]
    BY <1>4, <1>5, Constants
<1>7. consumed[p] + 1 <= head[Other(p)]
    \* It is in the ring, and the ring holds only what the peer has captured.
    <2>1. ring[p][Slot(consumed[p] + 1)] = consumed[p] + 1
        BY DEF Confirm, HasRemote
    <2>2. Slot(consumed[p] + 1) \in 0 .. Slots - 1
        BY <1>6, SlotType
    <2>. QED BY <1>2, <2>1, <2>2 DEF NothingInvented
<1>8. TypeOK'
    <2>1. consumed[p] + 1 \in 0 .. Last
        BY <1>3, <1>4, Constants
    <2>2. consumed' \in [Sides -> 0 .. Last]
        BY <1>3, <1>4, <2>1
    <2>. QED BY <1>1, <1>2, <2>2 DEF TypeOK
<1>9. Distances'
    <2>. SUFFICES ASSUME NEW q \in Sides PROVE Apart(q)'
        BY DEF Distances
    <2>1. Apart(q)
        BY <1>2 DEF Distances
    <2>2. applied[q] \in Nat /\ consumed[q] \in Nat
        BY <1>4, Constants
    <2>3. CASE q = p
        BY <1>1, <1>3, <1>5, <2>1, <2>2, <2>3, Constants DEF Apart
    <2>4. CASE q # p
        BY <1>1, <1>5, <2>1, <2>4 DEF Apart
    <2>. QED BY <2>3, <2>4
<1>10. NothingInvented'
    <2>1. ASSUME NEW q \in Sides PROVE consumed'[q] <= head[Other(q)]
        BY <1>2, <1>5, <1>7 DEF NothingInvented
    <2>2. ASSUME NEW q \in Sides PROVE ack[q] <= consumed'[Other(q)]
        <3>1. ack[q] \in Nat /\ Other(q) \in Sides /\ ack[q] <= consumed[Other(q)]
            BY <1>2, Constants, Counters, Opposite DEF NothingInvented
        <3>. QED BY <1>6, <3>1
    <2>3. ASSUME NEW m \in net PROVE m.consumed <= consumed'[m.from]
        <3>1. m.consumed \in Nat /\ m.from \in Sides /\ m.consumed <= consumed[m.from]
            BY <1>2, Constants DEF TypeOK, NothingInvented, Packets
        <3>. QED BY <1>6, <3>1
    <2>. QED BY <1>1, <1>2, <2>1, <2>2, <2>3 DEF NothingInvented
<1>. QED BY <1>8, <1>9, <1>10 DEF IInv

LEMMA NextKeeps == IInv /\ [Next]_vars => IInv'
<1>. SUFFICES ASSUME IInv, [Next]_vars PROVE IInv'
    OBVIOUS
<1>1. ASSUME NEW p \in Sides,
             \/ Capture(p) \/ Send(p) \/ Simulate(p) \/ Confirm(p)
             \/ \E m \in net : Receive(p, m)
      PROVE  IInv'
    BY <1>1, CaptureKeeps, SendKeeps, SimulateKeeps, ConfirmKeeps, ReceiveKeeps
<1>2. CASE \E m \in net : Lose(m)
    BY <1>2, LoseKeeps
<1>3. CASE UNCHANGED vars
    BY <1>3 DEF IInv, TypeOK, Distances, Apart, NothingInvented, vars
<1>. QED BY <1>1, <1>2, <1>3 DEF Next

-----------------------------------------------------------------------------
(* The theorems. *)

\* The chain of distances and the honesty of all that is under way hold always.
THEOREM Invariant == Spec => []IInv
BY InitHolds, NextKeeps, PTL DEF Spec

\* Type correctness of frames, rings, acknowledgements and packets.
THEOREM TypeCorrect == Spec => []TypeOK
<1>1. IInv => TypeOK
    BY DEF IInv
<1>. QED BY Invariant, <1>1, PTL

\* A side's clock is at most a ring ahead of the peer's confirmed frame.
LEMMA WithinRing ==
    ASSUME IInv, NEW p \in Sides
    PROVE  head[p] - consumed[Other(p)] <= Slots
<1>. DEFINE q == Other(p)
<1>1. q \in Sides
    BY Opposite
<1>2. Apart(p) /\ Apart(q)
    BY <1>1 DEF IInv, Distances
<1>3. head[p] <= head[q] + Skew /\ head[q] < applied[q] + Backlog /\ applied[q] <= consumed[q] + Limit
    BY <1>2 DEF Apart
<1>4. head[p] \in Nat /\ head[q] \in Nat /\ applied[q] \in Nat /\ consumed[q] \in Nat
    BY <1>1, Constants, Counters DEF IInv
<1>. HIDE DEF q
<1>5. head[p] - consumed[q] <= Slots
    BY <1>3, <1>4, RingAssumption, Constants
<1>. QED BY <1>5 DEF q

\* An input stays in its sender's ring until the peer has confirmed its frame
\* (WriteLocal never overwrites an input that may have to be sent again).
THEOREM NeededInputIsKept == Spec => []NeededInputKept
<1>1. IInv => NeededInputKept
    <2>. SUFFICES ASSUME IInv, NEW p \in Sides, NEW f \in consumed[Other(p)] + 1 .. head[p]
                  PROVE  HasLocal(p, f)
        BY DEF NeededInputKept
    <2>1. head[p] - consumed[Other(p)] <= Slots
        BY WithinRing
    <2>2. consumed[Other(p)] \in Nat /\ head[p] \in Nat
        BY Constants, Counters, Opposite DEF IInv
    <2>. QED BY <2>1, <2>2, Constants DEF HasLocal
<1>. QED BY Invariant, <1>1, PTL

\* An acknowledgement is never ahead of what the peer has confirmed, nor that of
\* what there is to confirm.
THEOREM AckIsHonest == Spec => []AckHonest
<1>1. IInv => AckHonest
    BY Opposite DEF IInv, NothingInvented, AckHonest
<1>. QED BY Invariant, <1>1, PTL

\* An input stays in its receiver's ring until its frame is confirmed
\* (ConfirmRemote never gives its slot to another frame).
THEOREM ReceivedInputIsKept == Spec => ReceivedInputKept
<1>. DEFINE Keeps == \A p \in Sides : \A f \in consumed[p] + 1 .. Last :
                        HasRemote(p, f) => HasRemote(p, f)'
<1>1. ASSUME IInv, NEW p \in Sides, NEW m \in net, Receive(p, m) PROVE Keeps
    <2>. SUFFICES ASSUME NEW q \in Sides, NEW f \in consumed[q] + 1 .. Last, HasRemote(q, f)
                  PROVE  HasRemote(q, f)'
        OBVIOUS
    <2>1. CASE q # p
        BY <1>1, <2>1 DEF Receive, HasRemote, IInv, TypeOK
    <2>2. CASE q = p
        <3>. DEFINE s == Slot(f)
                    new == Stores(ring[p], m.frames)
        <3>1. f \in Nat /\ s \in 0 .. Slots - 1
            BY <1>1, SlotType DEF IInv, TypeOK
        <3>2. m \in Packets /\ m.from = Other(p)
            BY <1>1 DEF Receive, IInv, TypeOK
        <3>3. \/ new[s] = ring[p][s]
              \/ new[s] \in m.frames /\ Slot(new[s]) = s /\ new[s] > ring[p][s]
            <4>1. ring[p] \in [0 .. Slots - 1 -> 0 .. Last] /\ m.frames \in SUBSET (1 .. Last)
                BY <1>1, <3>2 DEF IInv, TypeOK, Packets
            <4>. HIDE DEF s
            <4>. QED BY <3>1, <4>1, StoresRing
        <3>4. ring'[p] = new /\ ring[p][s] = f
            BY <1>1, <2>2 DEF Receive, HasRemote, IInv, TypeOK
        <3>. HIDE DEF new
        <3>5. ~(new[s] \in m.frames /\ Slot(new[s]) = s /\ new[s] > ring[p][s])
            <4>. SUFFICES ASSUME new[s] \in m.frames, Slot(new[s]) = s, new[s] > f
                          PROVE  FALSE
                BY <3>4
            <4>1. new[s] \in Nat /\ new[s] <= head[Other(p)]
                BY <1>1, <3>2 DEF IInv, NothingInvented, Packets
            <4>2. f + Slots <= new[s]
                BY <3>1, <4>1, SlotsApart
            <4>3. head[Other(p)] - consumed[p] <= Slots
                BY <1>1, Opposite, WithinRing
            <4>4. head[Other(p)] \in Nat /\ consumed[p] \in Nat /\ f > consumed[p]
                BY <1>1, <2>2, Constants, Counters, Opposite DEF IInv
            <4>. QED BY <3>1, <4>1, <4>2, <4>3, <4>4, Constants
        <3>. QED BY <2>2, <3>3, <3>4, <3>5 DEF HasRemote
    <2>. QED BY <2>1, <2>2
<1>2. ASSUME UNCHANGED ring PROVE Keeps
    BY <1>2 DEF HasRemote
<1>3. IInv /\ [Next]_vars => [Keeps]_vars
    BY <1>1, <1>2 DEF Next, Capture, Send, Simulate, Confirm, Lose, vars
<1>. QED BY Invariant, <1>3, PTL DEF Spec, ReceivedInputKept
=============================================================================
