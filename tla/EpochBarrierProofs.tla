-------------------------- MODULE EpochBarrierProofs --------------------------
(***************************************************************************)
(* Proofs about EpochBarrier, for any session, any number of frames and    *)
(* any packets under way.                                                  *)
(*                                                                         *)
(* What a side has received of the other is old but never wrong, since all *)
(* that is sent only grows (Heard, Told).  Therefore who has left an epoch *)
(* knows that the other side is in it at least, and the two are never more *)
(* than one epoch apart.  What is true of a side that is behind (Apart)    *)
(* hangs on how the other one left: no round is left without the inputs of *)
(* all its frames, and these exist only once their origin is through the   *)
(* barrier.                                                                *)
(***************************************************************************)
EXTENDS EpochBarrier, TLAPS

Kinds == {"Select", "Retry"}

\* s is in an epoch that is played.
Plays(s) == epoch[s] > 0 /\ ~Independent(epoch[s])

\* The last frame of epoch e as s sees it, and where s is when it leaves e.
EndAt(s, e) == IF e < Len(Phases) /\ Phases[e + 1] = "Retry" THEN end[s] ELSE Frames
Passed(s, e) == IF e = 0 \/ Independent(e) THEN Base(e) ELSE Base(e) + EndAt(s, e)

Typed ==
    /\ pc \in [Sides -> {"Leave", "Menu", "Begun", "Barrier", "Seed", "Play"}]
    /\ epoch \in [Sides -> 0 .. Len(Phases)]
    /\ next \in [Sides -> 0 .. Frames + Late]
    /\ head \in [Sides -> 0 .. Stride - 1]
    /\ end \in [Sides -> Frames .. Frames + Late]
    /\ token \in [Sides -> 0 .. Len(Phases)]
    /\ consumed \in [Sides -> Nat] /\ previous \in [Sides -> Nat] /\ tail \in [Sides -> 0 .. Window]
    /\ menu \in [Sides -> [Kinds -> 0 .. Len(Phases)]]
    /\ seed \in 0 .. Len(Phases)

Received == [token : Nat, consumed : Nat, seed : Nat, menu : [Kinds -> Nat]]
Packets ==
    [from : Sides, token : Nat, consumed : Nat, seed : Nat, menu : [Kinds -> Nat],
     inputs : [epoch : Epochs, frames : SUBSET Nat]]

Wired ==
    /\ peer \in [Sides -> Received] /\ inputs \in [Sides -> [Epochs -> SUBSET Nat]]
    /\ net \subseteq Packets

\* How the fields of one side fit each other.
Place(s) ==
    /\ token[s] = IF pc[s] = "Begun" THEN epoch[s] - 1 ELSE epoch[s]
    /\ epoch[s] = 0 => pc[s] = "Leave"
    /\ pc[s] \in {"Barrier", "Seed", "Play"} => Plays(s)
    /\ pc[s] = "Menu" => ~Plays(s)
    /\ ~Plays(s) \/ pc[s] \in {"Begun", "Barrier", "Seed"} => next[s] = 0
    /\ \A k \in Kinds : menu[s][k] <= epoch[s]
    /\ s = Host /\ pc[s] \in {"Begun", "Barrier", "Play"} /\ Plays(s) => seed = epoch[s]

\* A side has captured what it has played, the frames written ahead and what its clock
\* has added while the game waited, and nothing before the first round.
Captured(s) ==
    /\ epoch[s] <= 1 /\ ~Plays(s) => head[s] = 0
    /\ Plays(s) =>
          /\ next[s] <= End(s)
          /\ head[s] \in next[s] + Lookahead .. next[s] + Lookahead + 1 + Backlog
          /\ pc[s] \in {"Begun", "Barrier", "Seed"} => head[s] = Lookahead
          /\ pc[s] = "Leave" => next[s] = End(s)

\* consumed is the last frame played, of this epoch or of those before.
Counted(s) ==
    consumed[s] =
        IF Plays(s) /\ next[s] = 0 THEN Passed(s, epoch[s] - 1) ELSE Base(epoch[s]) + next[s]

\* What is remembered in a rematch menu is the end of the round before it, and the ring
\* holds what the menu's inputs have left of it.
Remembered(s) ==
    /\ previous[s] > 0 =>
          \E e \in Epochs : \E n \in 0 .. Stride - 1 : e < epoch[s] /\ previous[s] = Base(e) + n
    /\ epoch[s] > 0 /\ ~Plays(s) /\ Phases[epoch[s]] = "Retry" =>
          previous[s] = Passed(s, epoch[s] - 1) /\ tail[s] >= Window - Reused

\* Inputs of epoch e that o has sent: of an epoch it has come to, and of the round it is
\* in those it has captured.
Real(o, e, F) ==
    F # {} => e <= epoch[o] /\ (e = epoch[o] => Plays(o) /\ F \subseteq 1 .. head[o])

\* What s has received has been true of the other side, and that side has only
\* gone on since.
Heard(s) ==
    LET o == Other(s)
    IN /\ peer[s].token <= token[o] /\ peer[s].consumed <= consumed[o]
       /\ \A k \in Kinds : peer[s].menu[k] <= menu[o][k]
       /\ \A e \in Epochs : Real(o, e, inputs[s][e])

\* The same of a packet.
Told(m) ==
    /\ m.token <= token[m.from] /\ m.consumed <= consumed[m.from]
    /\ \A k \in Kinds : m.menu[k] <= menu[m.from][k]
    /\ Real(m.from, m.inputs.epoch, m.inputs.frames)

\* What s has waited for before it came where it is.
Waited(s) ==
    /\ pc[s] \in {"Seed", "Play"} \/ (pc[s] = "Leave" /\ Plays(s)) => peer[s].token >= epoch[s]
    /\ Plays(s) => 1 .. next[s] \subseteq inputs[s][epoch[s]]
    /\ pc[s] = "Leave" /\ epoch[s] > 0 /\ ~Plays(s) => peer[s].menu[Phases[epoch[s]]] >= epoch[s]

\* s is ahead of o by one epoch at most.  It has left a round only when o was
\* through its barrier and had captured all inputs s needed, takes its own ones of
\* that round along to the rematch menu, and has come to the next round only when o
\* had played this one to the end.
Apart(s, o) ==
    /\ epoch[s] <= epoch[o] + 1
    /\ epoch[s] > epoch[o] /\ Plays(o) =>
          /\ pc[o] \in {"Play", "Leave"}
          /\ head[o] >= EndAt(s, epoch[o])
          /\ ~Plays(s) => head[s] >= EndAt(s, epoch[o])
          /\ Plays(s) => consumed[o] >= Passed(s, epoch[o])

Own(s) == Place(s) /\ Captured(s) /\ Counted(s) /\ Remembered(s) /\ Waited(s)

BarrierInv ==
    /\ Typed /\ Wired
    /\ \A s \in Sides : Own(s) /\ Heard(s) /\ Apart(s, Other(s))
    /\ \A m \in net : Told(m)

-----------------------------------------------------------------------------
(* Frames *)

LEMMA Sizes ==
    /\ Frames \in Nat /\ Late \in Nat /\ Lookahead \in Nat /\ Backlog \in Nat /\ Stride \in Nat
    /\ Window \in Nat /\ Window > 0 /\ Reused \in 0 .. Window
    /\ Lookahead < Frames /\ Frames + Late + Lookahead + Backlog + 2 = Stride
BY ConstantsAssumption DEF Stride

LEMMA Kind ==
    /\ Len(Phases) \in Nat \ {0} /\ Epochs = 1 .. Len(Phases) /\ 1 \in Epochs
    /\ \A e \in Epochs : Phases[e] \in {"Select", "Round", "Retry"}
    /\ \A e \in Epochs : Independent(e) => Phases[e] \in Kinds
BY ConstantsAssumption DEF Epochs, Independent, Kinds

LEMMA Bases ==
    \A e \in Nat : Base(e) \in Nat /\ Base(e + 1) = Base(e) + Stride
<1> SUFFICES ASSUME NEW e \in Nat PROVE Base(e) \in Nat /\ Base(e + 1) = Base(e) + Stride
    OBVIOUS
<1>1. Stride \in Nat
    BY Sizes
<1> HIDE DEF Stride
<1>2. e * Stride \in Nat /\ (e + 1) * Stride = e * Stride + Stride
    BY <1>1
<1> QED
    BY <1>2 DEF Base

LEMMA BaseZero == Base(0) = 0
BY Sizes DEF Base

\* A frame determines its epoch and its place in it.
LEMMA DivMod ==
    ASSUME NEW e \in Nat, NEW m \in Nat, NEW n \in 0 .. m - 1
    PROVE  (e * m + n) \div m = e /\ (e * m + n) % m = n
<1>1. e * m + n \in Nat /\ m > 0
    OBVIOUS
<1>2. (e * m + n) \div m \in Int /\ (e * m + n) % m \in 0 .. m - 1
      /\ e * m + n = m * ((e * m + n) \div m) + ((e * m + n) % m)
    BY <1>1
<1> DEFINE q == (e * m + n) \div m
           r == (e * m + n) % m
<1>3. q \in Int /\ r \in 0 .. m - 1 /\ e * m + n = m * q + r
    BY <1>2
<1> HIDE DEF q, r
<1>4. q = e
    <2>1. CASE q >= e + 1
        <3>1. m * q >= m * e + m
            BY <2>1, <1>3, <1>1
        <3> QED
            BY <3>1, <1>3
    <2>2. CASE q <= e - 1
        <3>1. m * q <= m * e - m
            BY <2>2, <1>3, <1>1
        <3> QED
            BY <3>1, <1>3
    <2> QED
        BY <2>1, <2>2, <1>3
<1>5. r = n
    BY <1>3, <1>4
<1> QED
    BY <1>4, <1>5 DEF q, r

LEMMA Decomposed ==
    ASSUME NEW e \in Epochs, NEW n \in 0 .. Stride - 1
    PROVE  EpochOf(Base(e) + n) = e /\ (Base(e) + n) % Stride = n
BY DivMod, Sizes, Kind DEF EpochOf, Base

LEMMA TwoSides ==
    \A s \in Sides : Other(s) \in Sides /\ Other(s) # s /\ Other(Other(s)) = s
                    /\ \A t \in Sides : t # s => t = Other(s)
BY DEF Sides, Other, Host, Client

\* What has been passed lies before the next epoch.
LEMMA Passes ==
    ASSUME Typed, NEW s \in Sides, NEW e \in 0 .. Len(Phases)
    PROVE  /\ Passed(s, e) \in Nat /\ Base(e) \in Nat /\ Base(e + 1) \in Nat
           /\ Base(e) <= Passed(s, e) /\ Passed(s, e) < Base(e + 1)
           /\ EndAt(s, e) \in Frames .. Frames + Late
<1>1. EndAt(s, e) \in Frames .. Frames + Late
    BY Sizes DEF EndAt, Typed
<1>2. e \in Nat /\ Base(e) \in Nat /\ Base(e + 1) = Base(e) + Stride
    BY Bases, Kind
<1> QED
    BY <1>1, <1>2, Sizes DEF Passed

-----------------------------------------------------------------------------
(* The initial state *)

LEMMA BarrierInit == Init => BarrierInv
<1> SUFFICES ASSUME Init PROVE BarrierInv
    OBVIOUS
<1> USE DEF Init
<1>1. Nothing \in Received /\ Nothing.menu \in [Kinds -> 0 .. Len(Phases)]
    BY Kind DEF Nothing, Received, Kinds
<1>2. Typed
    BY <1>1, Sizes, Kind DEF Typed
<1>3. Wired
    BY <1>1 DEF Wired
<1>4. \A s \in Sides : Own(s)
    <2> SUFFICES ASSUME NEW s \in Sides PROVE Own(s)
        OBVIOUS
    <2>1. ~Plays(s) /\ epoch[s] = 0 /\ pc[s] = "Leave" /\ next[s] = 0 /\ token[s] = 0 /\ head[s] = 0
        BY DEF Plays
    <2>2. \A k \in Kinds : menu[s][k] = 0
        BY DEF Nothing, Kinds
    <2> QED
        BY <2>1, <2>2, BaseZero DEF Own, Place, Captured, Counted, Remembered, Waited
<1>5. \A s \in Sides : Heard(s) /\ Apart(s, Other(s))
    BY TwoSides DEF Heard, Real, Apart, Nothing, Kinds, Plays
<1> QED
    BY <1>2, <1>3, <1>4, <1>5 DEF BarrierInv

-----------------------------------------------------------------------------
(* What a step keeps *)

LEMMA Numbers ==
    ASSUME Typed, NEW t \in Sides
    PROVE  /\ epoch[t] \in 0 .. Len(Phases) /\ epoch[t] \in Nat /\ token[t] \in Nat /\ next[t] \in Nat
           /\ consumed[t] \in Nat /\ previous[t] \in Nat /\ end[t] \in Nat /\ head[t] \in Nat
           /\ \A k \in Kinds : menu[t][k] \in Nat
<1>1. Frames \in Nat /\ Stride \in Nat /\ Late \in Nat /\ Len(Phases) \in Nat
    BY Sizes, Kind
<1>2. epoch[t] \in 0 .. Len(Phases) /\ token[t] \in 0 .. Len(Phases) /\ next[t] \in 0 .. Frames + Late
      /\ consumed[t] \in Nat /\ previous[t] \in Nat /\ end[t] \in Frames .. Frames + Late
      /\ head[t] \in 0 .. Stride - 1
    BY DEF Typed
<1>3. \A k \in Kinds : menu[t][k] \in 0 .. Len(Phases)
    BY DEF Typed
<1> HIDE DEF Stride
<1> QED
    BY <1>1, <1>2, <1>3

\* The same after a step.
LEMMA NumbersNext ==
    ASSUME Typed', NEW t \in Sides
    PROVE  /\ epoch'[t] \in 0 .. Len(Phases) /\ epoch'[t] \in Nat /\ token'[t] \in Nat /\ next'[t] \in Nat
           /\ consumed'[t] \in Nat /\ previous'[t] \in Nat /\ head'[t] \in Nat
           /\ \A k \in Kinds : menu'[t][k] \in Nat
<1>1. Frames \in Nat /\ Stride \in Nat /\ Late \in Nat /\ Len(Phases) \in Nat
    BY Sizes, Kind
<1>2. epoch'[t] \in 0 .. Len(Phases) /\ token'[t] \in 0 .. Len(Phases) /\ next'[t] \in 0 .. Frames + Late
      /\ consumed'[t] \in Nat /\ previous'[t] \in Nat /\ head'[t] \in 0 .. Stride - 1
    BY DEF Typed
<1>3. \A k \in Kinds : menu'[t][k] \in 0 .. Len(Phases)
    BY DEF Typed
<1> HIDE DEF Stride
<1> QED
    BY <1>1, <1>2, <1>3

\* Nothing of side t changes.
Stays(t) ==
    /\ pc'[t] = pc[t] /\ epoch'[t] = epoch[t] /\ next'[t] = next[t] /\ head'[t] = head[t]
    /\ token'[t] = token[t] /\ consumed'[t] = consumed[t] /\ previous'[t] = previous[t]
    /\ tail'[t] = tail[t] /\ menu'[t] = menu[t] /\ inputs'[t] = inputs[t]

\* A step of s within its epoch, or to the next one.
Further(s) ==
    \/ epoch'[s] = epoch[s] /\ head[s] <= head'[s]
    \/ epoch'[s] = epoch[s] + 1

\* A step of the game thread of s, which only adds to what the other side may hear.
Moves(s) ==
    /\ \A t \in Sides : t # s => Stays(t)
    /\ s # Host => seed' = seed
    /\ UNCHANGED <<end, peer, net>>
    /\ inputs' \in [Sides -> [Epochs -> SUBSET Nat]]
    /\ \A e \in Epochs : inputs'[s][e] \in {{}, inputs[s][e]}
    /\ token[s] <= token'[s] /\ consumed[s] <= consumed'[s]
    /\ \A k \in Kinds : menu[s][k] <= menu'[s][k]
    /\ Further(s)

LEMMA OtherKeepsOwn ==
    ASSUME NEW s \in Sides, Moves(s), NEW t \in Sides, t # s, Own(t)
    PROVE  Own(t)'
<1>1. Stays(t) /\ end' = end /\ peer' = peer /\ (t = Host => seed' = seed)
    BY DEF Moves, Sides, Host, Client
<1>2. Plays(t)' <=> Plays(t)
    BY <1>1 DEF Plays, Stays
<1>3. Place(t)'
    BY <1>1, <1>2 DEF Own, Place, Stays
<1>4. Captured(t)'
    BY <1>1, <1>2 DEF Own, Captured, Stays, End
<1>5. \A e : Passed(t, e)' = Passed(t, e)
    BY <1>1 DEF Passed, EndAt
<1>6. Counted(t)' /\ Remembered(t)'
    BY <1>1, <1>2, <1>5 DEF Own, Counted, Remembered, Stays
<1>7. Waited(t)'
    BY <1>1, <1>2 DEF Own, Waited, Stays
<1> QED
    BY <1>3, <1>4, <1>6, <1>7 DEF Own

LEMMA Grows ==
    ASSUME Typed, Typed', NEW s \in Sides, Moves(s), NEW t \in Sides
    PROVE  /\ token[t] <= token'[t] /\ consumed[t] <= consumed'[t]
           /\ \A k \in Kinds : menu[t][k] <= menu'[t][k]
           /\ Further(t)
<1>1. CASE t = s
    BY <1>1 DEF Moves
<1>2. CASE t # s
    <2>1. /\ token'[t] = token[t] /\ consumed'[t] = consumed[t] /\ menu'[t] = menu[t]
          /\ head'[t] = head[t] /\ epoch'[t] = epoch[t]
        BY <1>2 DEF Moves, Stays
    <2> QED
        BY <2>1, Numbers DEF Further
<1> QED
    BY <1>1, <1>2

\* Inputs once sent stay real.
LEMMA RealKept ==
    ASSUME Typed, Typed', NEW t \in Sides, Further(t), NEW e \in Epochs, NEW F, Real(t, e, F)
    PROVE  Real(t, e, F)'
<1> SUFFICES ASSUME F # {} PROVE e <= epoch'[t] /\ (e = epoch'[t] => Plays(t)' /\ F \subseteq 1 .. head'[t])
    BY DEF Real
<1>1. e <= epoch[t] /\ (e = epoch[t] => Plays(t) /\ F \subseteq 1 .. head[t])
    BY DEF Real
<1>2. epoch[t] \in Nat /\ head[t] \in Nat /\ head'[t] \in Nat /\ e \in Nat
    BY Numbers, NumbersNext, Kind
<1>3. CASE epoch'[t] = epoch[t] /\ head[t] <= head'[t]
    <2>1. Plays(t)' <=> Plays(t)
        BY <1>3 DEF Plays
    <2>2. 1 .. head[t] \subseteq 1 .. head'[t]
        BY <1>2, <1>3
    <2> QED
        BY <1>1, <1>3, <2>1, <2>2
<1>4. CASE epoch'[t] = epoch[t] + 1
    BY <1>1, <1>2, <1>4
<1> QED
    BY <1>3, <1>4 DEF Further

LEMMA MovesKeepKnown ==
    ASSUME BarrierInv, NEW s \in Sides, Moves(s), Typed'
    PROVE  Wired' /\ (\A t \in Sides : Heard(t)') /\ \A m \in net' : Told(m)'
<1>0. Typed
    BY DEF BarrierInv
<1>1. /\ \A t \in Sides : /\ token[t] <= token'[t] /\ consumed[t] <= consumed'[t]
                          /\ \A k \in Kinds : menu[t][k] <= menu'[t][k]
                          /\ Further(t)
      /\ peer' = peer /\ net' = net
    BY <1>0, Grows DEF Moves
<1>2. /\ \A t \in Sides : token[t] \in Nat /\ token'[t] \in Nat /\ consumed[t] \in Nat /\ consumed'[t] \in Nat
      /\ \A t \in Sides : \A k \in Kinds : menu[t][k] \in Nat /\ menu'[t][k] \in Nat
    BY <1>0, Numbers, NumbersNext
<1>3. Wired
    BY DEF BarrierInv
<1>4. ASSUME NEW t \in Sides PROVE Heard(t)'
    <2>1. /\ peer[t].token \in Nat /\ peer[t].consumed \in Nat
          /\ \A k \in Kinds : peer[t].menu[k] \in Nat
        BY <1>3 DEF Wired, Received
    <2>2. Other(t) \in Sides /\ Heard(t)
        BY TwoSides DEF BarrierInv
    <2> DEFINE o == Other(t)
    <2>3. /\ peer[t].token <= token[o] /\ peer[t].consumed <= consumed[o]
          /\ \A k \in Kinds : peer[t].menu[k] <= menu[o][k]
          /\ \A e \in Epochs : Real(o, e, inputs[t][e])
        BY <2>2 DEF Heard
    <2>4. o \in Sides
        BY <2>2
    <2> HIDE DEF o
    <2>5. /\ peer'[t].token <= token'[o] /\ peer'[t].consumed <= consumed'[o]
          /\ \A k \in Kinds : peer'[t].menu[k] <= menu'[o][k]
        BY <1>1, <1>2, <2>1, <2>3, <2>4
    <2>6. ASSUME NEW e \in Epochs PROVE Real(o, e, inputs[t][e])'
        <3>1. inputs'[t][e] \in {{}, inputs[t][e]}
            BY DEF Moves, Stays
        <3>2. CASE inputs'[t][e] = {}
            BY <3>2 DEF Real
        <3>3. PICK F : F = inputs[t][e]
            OBVIOUS
        <3>4. CASE inputs'[t][e] = F
            <4>1. Real(o, e, F)
                BY <2>3, <3>3
            <4>2. Further(o)
                BY <1>1, <2>4
            <4>3. Real(o, e, F)'
                BY <1>0, <2>4, <4>1, <4>2, RealKept
            <4> QED
                BY <3>4, <4>3 DEF Real
        <3> QED
            BY <3>1, <3>2, <3>3, <3>4
    <2> QED
        BY <2>5, <2>6 DEF Heard, o
<1>5. ASSUME NEW m \in net PROVE Told(m)'
    <2>1. /\ m.from \in Sides /\ m.token \in Nat /\ m.consumed \in Nat
          /\ \A k \in Kinds : m.menu[k] \in Nat
          /\ m.inputs.epoch \in Epochs
        BY <1>3 DEF Wired, Packets
    <2>2. Told(m)
        BY DEF BarrierInv
    <2>3. PICK t \in Sides, e \in Epochs : t = m.from /\ e = m.inputs.epoch
        BY <2>1
    <2>5. PICK F : F = m.inputs.frames
        OBVIOUS
    <2>4. Real(t, e, F)'
        <3>1. Real(t, e, F) /\ Further(t)
            BY <1>1, <2>2, <2>3, <2>5 DEF Told
        <3> QED
            BY <1>0, <3>1, RealKept
    <2> QED
        BY <1>1, <1>2, <2>1, <2>2, <2>3, <2>4, <2>5 DEF Told
<1> QED
    BY <1>1, <1>3, <1>4, <1>5 DEF Wired, Moves

\* How far the sides are apart, by a step within an epoch.
LEMMA MovesKeepApart ==
    ASSUME BarrierInv, NEW s \in Sides, Moves(s), Typed', epoch'[s] = epoch[s],
           pc[s] \in {"Play", "Leave"} => pc'[s] \in {"Play", "Leave"}
    PROVE  \A t \in Sides : Apart(t, Other(t))'
<1> SUFFICES ASSUME NEW t \in Sides PROVE Apart(t, Other(t))'
    OBVIOUS
<1> DEFINE o == Other(t)
<1>1. o \in Sides /\ t # o /\ Apart(t, o) /\ (s = t \/ s = o)
    BY TwoSides DEF BarrierInv
<1>0. Typed
    BY DEF BarrierInv
<1> HIDE DEF o
<1>2. epoch'[t] = epoch[t] /\ epoch'[o] = epoch[o] /\ end' = end
    BY <1>1 DEF Moves, Stays
<1>3. (Plays(t)' <=> Plays(t)) /\ (Plays(o)' <=> Plays(o))
    BY <1>2 DEF Plays
<1>4. pc[o] \in {"Play", "Leave"} => pc'[o] \in {"Play", "Leave"}
    BY <1>1 DEF Moves, Stays
<1>5. /\ consumed[o] \in Nat /\ consumed'[o] \in Nat /\ consumed[o] <= consumed'[o]
      /\ head[t] \in Nat /\ head'[t] \in Nat /\ head[t] <= head'[t]
      /\ head[o] \in Nat /\ head'[o] \in Nat /\ head[o] <= head'[o]
    <2>1. \A u \in Sides : head[u] <= head'[u]
        <3>1. head[s] <= head'[s]
            BY <1>0, Numbers DEF Moves, Further
        <3>2. \A u \in Sides : u # s => head'[u] = head[u]
            BY DEF Moves, Stays
        <3> QED
            BY <1>0, <3>1, <3>2, Numbers
    <2> QED
        BY <1>0, <1>1, <2>1, Numbers, NumbersNext, Grows
<1>6. \A e : Passed(t, e)' = Passed(t, e) /\ EndAt(t, e)' = EndAt(t, e)
    BY <1>2 DEF Passed, EndAt
<1>7. /\ epoch[o] \in 0 .. Len(Phases) /\ Passed(t, epoch[o]) \in Nat
      /\ EndAt(t, epoch[o]) \in Nat
    <2>1. epoch[o] \in 0 .. Len(Phases)
        BY <1>0, <1>1, Numbers
    <2>2. Passed(t, epoch[o]) \in Nat /\ EndAt(t, epoch[o]) \in Frames .. Frames + Late
        BY <1>0, <2>1, Passes
    <2> QED
        BY <2>1, <2>2, Sizes
<1>8. Plays(o) => epoch[o] \in Epochs
    BY <1>7, Kind DEF Plays
<1>9. Passed(t, epoch[o])' = Passed(t, epoch[o]) /\ EndAt(t, epoch[o])' = EndAt(t, epoch[o])
    BY <1>2 DEF Passed, EndAt
<1>10. ASSUME epoch[t] > epoch[o], Plays(o)
       PROVE  /\ pc'[o] \in {"Play", "Leave"}
              /\ head'[o] >= EndAt(t, epoch[o])
              /\ ~Plays(t) => head'[t] >= EndAt(t, epoch[o])
              /\ Plays(t) => consumed'[o] >= Passed(t, epoch[o])
    <2>1. /\ pc[o] \in {"Play", "Leave"}
          /\ head[o] >= EndAt(t, epoch[o])
          /\ ~Plays(t) => head[t] >= EndAt(t, epoch[o])
          /\ Plays(t) => consumed[o] >= Passed(t, epoch[o])
        BY <1>1, <1>10 DEF Apart
    <2> QED
        BY <1>4, <1>5, <1>7, <2>1
<1>11. epoch[t] <= epoch[o] + 1
    BY <1>1 DEF Apart
<1>12. Apart(t, o)'
    BY <1>2, <1>3, <1>9, <1>10, <1>11 DEF Apart
<1> QED
    BY <1>12 DEF o


LEMMA MoveCloses ==
    ASSUME BarrierInv, NEW s \in Sides, Moves(s), Typed', Own(s)', \A t \in Sides : Apart(t, Other(t))'
    PROVE  BarrierInv'
<1>1. \A t \in Sides : Own(t)'
    <2> SUFFICES ASSUME NEW t \in Sides PROVE Own(t)'
        OBVIOUS
    <2>1. Own(t)
        BY DEF BarrierInv
    <2> QED
        BY <2>1, OtherKeepsOwn
<1> QED
    BY <1>1, MovesKeepKnown DEF BarrierInv

-----------------------------------------------------------------------------
(* Within an epoch *)

othersVars ==
    <<epoch, next, head, end, token, consumed, previous, tail, menu, seed, peer, inputs, net>>

\* The game thread only goes on.
LEMMA Goes ==
    ASSUME BarrierInv, NEW s \in Sides, NEW x \in {"Leave", "Seed", "Play"},
           pc' = [pc EXCEPT ![s] = x], UNCHANGED othersVars, pc[s] # "Begun",
           x \in {"Seed", "Play"} => Plays(s) /\ peer[s].token >= epoch[s],
           x = "Seed" => pc[s] = "Barrier" /\ s # Host,
           x = "Play" => pc[s] \in {"Barrier", "Seed"} /\ (s = Host => pc[s] = "Barrier"),
           x = "Leave" /\ Plays(s) => next[s] = End(s) /\ peer[s].token >= epoch[s],
           x = "Leave" /\ ~Plays(s) => peer[s].menu[Phases[epoch[s]]] >= epoch[s],
           pc[s] \in {"Play", "Leave"} => x \in {"Play", "Leave"}
    PROVE  BarrierInv'
<1>0. Typed /\ Own(s)
    BY DEF BarrierInv
<1>1. UNCHANGED <<epoch, next, head, end, token, consumed, previous, tail, menu, seed, peer, inputs, net>>
    BY DEF othersVars
<1>2. pc'[s] = x /\ \A t \in Sides : t # s => pc'[t] = pc[t]
    BY <1>0 DEF Typed
<1>3. Typed'
    BY <1>0, <1>1 DEF Typed
<1>4. Moves(s)
    BY <1>0, <1>1, <1>2, Numbers DEF Moves, Stays, Further, BarrierInv, Wired
<1>5. (Plays(s)' <=> Plays(s)) /\ End(s)' = End(s)
    BY <1>1 DEF Plays, End
<1>6. Place(s)'
    BY <1>0, <1>1, <1>2, <1>5 DEF Own, Place
<1>7. Captured(s)'
    BY <1>0, <1>1, <1>2, <1>5 DEF Own, Captured
<1>8. Counted(s)' /\ Remembered(s)'
    <2>1. Passed(s, epoch[s] - 1)' = Passed(s, epoch[s] - 1)
        BY <1>1 DEF Passed, EndAt
    <2> QED
        BY <1>0, <1>1, <1>5, <2>1 DEF Own, Counted, Remembered
<1>9. Waited(s)'
    BY <1>0, <1>1, <1>2, <1>5 DEF Own, Waited
<1>10. Own(s)'
    BY <1>6, <1>7, <1>8, <1>9 DEF Own
<1>11. \A t \in Sides : Apart(t, Other(t))'
    BY <1>1, <1>2, <1>3, <1>4, MovesKeepApart
<1> QED
    BY <1>3, <1>4, <1>10, <1>11, MoveCloses

\* No packet of a side that is further ahead is possible at the barrier.
LEMMA NoneAhead ==
    ASSUME BarrierInv, NEW s \in Sides, pc[s] = "Barrier"
    PROVE  peer[s].token <= epoch[s]
<1> DEFINE o == Other(s)
<1>0. Typed /\ Own(s) /\ Own(o) /\ Heard(s) /\ Apart(o, s) /\ o \in Sides
    BY TwoSides DEF BarrierInv
<1>1. peer[s].token <= token[o] /\ token[o] <= epoch[o]
    BY <1>0, Numbers DEF Own, Place, Heard
<1>2. epoch[o] <= epoch[s]
    BY <1>0, Numbers DEF Own, Place, Apart
<1>3. peer[s].token \in Nat
    BY DEF BarrierInv, Wired, Received
<1> HIDE DEF o
<1> QED
    BY <1>0, <1>1, <1>2, <1>3, Numbers

LEMMA GoesOn ==
    ASSUME BarrierInv, NEW s \in Sides,
           LeaveMenu(s) \/ LeaveRound(s) \/ LookAtBarrier(s) \/ (s = Client /\ TakeSeed)
    PROVE  BarrierInv'
<1>0. Typed /\ Own(s)
    BY DEF BarrierInv
<1>1. CASE LeaveMenu(s)
    <2>1. pc[s] = "Menu" /\ ~Plays(s) /\ epoch[s] > 0
        BY <1>0, <1>1, Numbers DEF LeaveMenu, Own, Place
    <2>2. epoch[s] \in Nat
        BY <1>0, Numbers
    <2>3. peer[s].menu[Phases[epoch[s]]] >= epoch[s]
        BY <1>1, <2>2 DEF LeaveMenu, PeerInMenu
    <2> QED
        BY <1>1, <2>1, <2>3, Goes DEF LeaveMenu, othersVars, wire
<1>2. CASE LeaveRound(s)
    <2>1. pc[s] = "Play" /\ Plays(s) /\ next[s] = End(s) /\ peer[s].token >= epoch[s]
        BY <1>0, <1>2 DEF LeaveRound, Own, Place, Waited
    <2> QED
        BY <1>2, <2>1, Goes DEF LeaveRound, othersVars, wire
<1>3. CASE LookAtBarrier(s)
    <2>1. pc[s] = "Barrier" /\ Plays(s) /\ peer[s].token <= epoch[s]
        BY <1>0, <1>3, NoneAhead DEF LookAtBarrier, Own, Place
    <2>2. peer[s].token \in Nat /\ epoch[s] \in Nat
        BY <1>0, Numbers DEF BarrierInv, Wired, Received
    <2>3. peer[s].token = epoch[s]
        BY <1>3, <2>1, <2>2 DEF LookAtBarrier, BarrierOpen
    <2> DEFINE x == IF s = Host THEN "Play" ELSE "Seed"
    <2>4. pc' = [pc EXCEPT ![s] = x] /\ UNCHANGED othersVars
        <3>1. ~(peer[s].token > epoch[s])
            BY <2>2, <2>3
        <3> QED
            BY <1>3, <3>1, Zenon DEF LookAtBarrier, othersVars, wire
    <2>5. peer[s].token >= epoch[s]
        BY <2>2, <2>3
    <2>6. x \in {"Leave", "Seed", "Play"} /\ x # "Leave" /\ (x = "Seed" => s # Host)
        OBVIOUS
    <2> HIDE DEF x
    <2> QED
        BY <2>1, <2>4, <2>5, <2>6, Goes
<1>4. CASE s = Client /\ TakeSeed
    <2>1. pc[s] = "Seed" /\ Plays(s) /\ peer[s].token >= epoch[s] /\ s # Host
        BY <1>0, <1>4 DEF TakeSeed, Own, Place, Waited, Host, Client
    <2> QED
        BY <1>4, <2>1, Goes DEF TakeSeed, othersVars, wire
<1> QED
    BY <1>1, <1>2, <1>3, <1>4

LEMMA Publishes == ASSUME BarrierInv, NEW s \in Sides, Publish(s) PROVE BarrierInv'
<1>0. Typed /\ Own(s)
    BY DEF BarrierInv
<1> DEFINE x == IF Independent(epoch[s]) THEN "Menu" ELSE "Barrier"
<1>1. /\ pc[s] = "Begun" /\ token' = [token EXCEPT ![s] = epoch[s]] /\ pc' = [pc EXCEPT ![s] = x]
      /\ UNCHANGED <<epoch, next, head, end, consumed, previous, tail, menu, seed, peer, inputs, net>>
    BY DEF Publish, wire
<1>2. x \in {"Menu", "Barrier"} /\ epoch[s] \in 0 .. Len(Phases) /\ epoch[s] # 0
    BY <1>0, <1>1, Numbers DEF Own, Place
<1>3. x = "Barrier" <=> Plays(s)
    BY <1>2, Kind DEF Plays
<1> HIDE DEF x
<1>4. /\ pc'[s] = x /\ token'[s] = epoch[s]
      /\ \A t \in Sides : t # s => pc'[t] = pc[t] /\ token'[t] = token[t]
    BY <1>0, <1>1 DEF Typed
<1>5. Typed'
    BY <1>0, <1>1, <1>2 DEF Typed
<1>6. token[s] = epoch[s] - 1
    BY <1>0, <1>1 DEF Own, Place
<1>7. Moves(s)
    BY <1>0, <1>1, <1>4, <1>6, Numbers DEF Moves, Stays, Further, BarrierInv, Wired
<1>8. (Plays(s)' <=> Plays(s)) /\ End(s)' = End(s)
    BY <1>1 DEF Plays, End
<1>9. Place(s)'
    BY <1>0, <1>1, <1>2, <1>3, <1>4, <1>8 DEF Own, Place
<1>10. Captured(s)'
    BY <1>0, <1>1, <1>2, <1>4, <1>8 DEF Own, Captured
<1>11. Counted(s)' /\ Remembered(s)'
    <2>1. Passed(s, epoch[s] - 1)' = Passed(s, epoch[s] - 1)
        BY <1>1 DEF Passed, EndAt
    <2> QED
        BY <1>0, <1>1, <1>8, <2>1 DEF Own, Counted, Remembered
<1>12. Waited(s)'
    BY <1>0, <1>1, <1>2, <1>4, <1>8 DEF Own, Waited
<1>13. Own(s)'
    BY <1>9, <1>10, <1>11, <1>12 DEF Own
<1>14. \A t \in Sides : Apart(t, Other(t))'
    BY <1>1, <1>5, <1>7, MovesKeepApart
<1> QED
    BY <1>5, <1>7, <1>13, <1>14, MoveCloses

LEMMA Captures == ASSUME BarrierInv, NEW s \in Sides, Capture(s) PROVE BarrierInv'
<1>0. Typed /\ Own(s)
    BY DEF BarrierInv
<1> DEFINE e == epoch[s]
           h == head[s] + 1
<1>1. /\ pc[s] = "Play" /\ head[s] < next[s] + 1 + Lookahead + Backlog
      /\ head' = [head EXCEPT ![s] = h]
      /\ UNCHANGED <<pc, epoch, next, end, token, consumed, previous, tail, menu, seed, peer, inputs, net>>
    BY DEF Capture, wire
<1>2. Plays(s) /\ e \in Epochs
    BY <1>0, <1>1, Numbers, Kind DEF Own, Place, Plays
<1>3. head[s] \in Nat /\ next[s] \in 0 .. Frames + Late
    BY <1>0, Numbers DEF Typed
<1>4. h \in 0 .. Stride - 1 /\ h \in next[s] + Lookahead .. next[s] + Lookahead + 1 + Backlog /\ head[s] <= h
    <2>1. head[s] \in next[s] + Lookahead .. next[s] + Lookahead + 1 + Backlog
        BY <1>0, <1>2 DEF Own, Captured
    <2> QED
        BY <1>1, <1>3, <2>1, Sizes
<1> HIDE DEF h
<1>5. head'[s] = h /\ \A t \in Sides : t # s => head'[t] = head[t]
    BY <1>0, <1>1 DEF Typed
<1>6. Typed'
    BY <1>0, <1>1, <1>4 DEF Typed
<1>8. Moves(s)
    BY <1>0, <1>1, <1>4, <1>5, Numbers DEF Moves, Stays, Further, BarrierInv, Wired
<1>9. (Plays(s)' <=> Plays(s)) /\ End(s)' = End(s)
    BY <1>1 DEF Plays, End
<1>10. Place(s)'
    BY <1>0, <1>1, <1>9 DEF Own, Place
<1>11. Captured(s)'
    <2>1. next[s] <= End(s)
        BY <1>0, <1>2 DEF Own, Captured
    <2> QED
        BY <1>1, <1>2, <1>4, <1>5, <1>9, <2>1 DEF Captured
<1>12. Counted(s)' /\ Remembered(s)'
    <2>1. Passed(s, epoch[s] - 1)' = Passed(s, epoch[s] - 1)
        BY <1>1 DEF Passed, EndAt
    <2> QED
        BY <1>0, <1>1, <1>9, <2>1 DEF Own, Counted, Remembered
<1>14. Waited(s)'
    BY <1>0, <1>1, <1>9 DEF Own, Waited
<1>15. Own(s)'
    BY <1>10, <1>11, <1>12, <1>14 DEF Own
<1>16. \A t \in Sides : Apart(t, Other(t))'
    BY <1>1, <1>6, <1>8, MovesKeepApart
<1> QED
    BY <1>6, <1>8, <1>15, <1>16, MoveCloses

\* The menu's inputs take no more places than they may.
LEMMA Reuses == ASSUME BarrierInv, NEW s \in Sides, Reuse(s) PROVE BarrierInv'
<1>0. Typed /\ Own(s)
    BY DEF BarrierInv
<1> DEFINE n == tail[s] - 1
<1>1. /\ pc[s] = "Menu" /\ tail[s] > Window - Reused /\ tail' = [tail EXCEPT ![s] = n]
      /\ UNCHANGED <<pc, epoch, next, head, end, token, consumed, previous, menu, seed, peer, inputs, net>>
    BY DEF Reuse, wire
<1>2. n \in 0 .. Window /\ n >= Window - Reused
    <2>1. tail[s] \in 0 .. Window
        BY <1>0 DEF Typed
    <2> QED
        BY <1>1, <2>1, Sizes
<1> HIDE DEF n
<1>3. tail'[s] = n /\ \A t \in Sides : t # s => tail'[t] = tail[t]
    BY <1>0, <1>1 DEF Typed
<1>4. Typed'
    BY <1>0, <1>1, <1>2 DEF Typed
<1>5. Moves(s)
    BY <1>0, <1>1, <1>3, Numbers DEF Moves, Stays, Further, BarrierInv, Wired
<1>6. (Plays(s)' <=> Plays(s)) /\ End(s)' = End(s)
    BY <1>1 DEF Plays, End
<1>7. Place(s)' /\ Captured(s)'
    BY <1>0, <1>1, <1>6 DEF Own, Place, Captured
<1>8. Counted(s)' /\ Remembered(s)'
    <2>1. Passed(s, epoch[s] - 1)' = Passed(s, epoch[s] - 1)
        BY <1>1 DEF Passed, EndAt
    <2> QED
        BY <1>0, <1>1, <1>2, <1>3, <1>6, <2>1 DEF Own, Counted, Remembered
<1>9. Waited(s)'
    BY <1>0, <1>1, <1>6 DEF Own, Waited
<1>10. Own(s)'
    BY <1>7, <1>8, <1>9 DEF Own
<1>11. \A t \in Sides : Apart(t, Other(t))'
    BY <1>1, <1>4, <1>5, MovesKeepApart
<1> QED
    BY <1>4, <1>5, <1>10, <1>11, MoveCloses

\* A side counts no further than where it is.
LEMMA CountedHere ==
    ASSUME BarrierInv, NEW s \in Sides
    PROVE  /\ Base(epoch[s]) \in Nat /\ consumed[s] <= Base(epoch[s]) + next[s]
           /\ epoch[s] > 0 => consumed[s] < Base(epoch[s]) \/ consumed[s] = Base(epoch[s]) + next[s]
<1>0. Typed /\ Counted(s) /\ epoch[s] \in 0 .. Len(Phases) /\ next[s] \in Nat /\ Place(s)
    BY Numbers DEF BarrierInv, Own
<1>1. Base(epoch[s]) \in Nat
    BY <1>0, Passes
<1>2. CASE Plays(s) /\ next[s] = 0
    <2>1. epoch[s] - 1 \in 0 .. Len(Phases) /\ epoch[s] - 1 + 1 = epoch[s]
        BY <1>0, <1>2 DEF Plays
    <2>2. Passed(s, epoch[s] - 1) < Base(epoch[s] - 1 + 1) /\ Passed(s, epoch[s] - 1) \in Nat
        BY <1>0, <2>1, Passes
    <2>3. consumed[s] < Base(epoch[s]) /\ consumed[s] \in Nat
        BY <1>0, <1>2, <2>1, <2>2 DEF Counted
    <2> QED
        BY <1>0, <1>1, <2>3
<1>3. CASE ~(Plays(s) /\ next[s] = 0)
    BY <1>0, <1>1, <1>3 DEF Counted
<1> QED
    BY <1>2, <1>3

LEMMA PlaysOn == ASSUME BarrierInv, NEW s \in Sides, Play(s) PROVE BarrierInv'
<1>0. Typed /\ Own(s) /\ Wired
    BY DEF BarrierInv
<1> DEFINE e == epoch[s]
           n == next[s] + 1
           c == Base(e) + next[s] + 1
<1>1. /\ pc[s] = "Play" /\ next[s] < End(s) /\ head[s] >= next[s] + 1 + Lookahead
      /\ n \in inputs[s][e]
      /\ next' = [next EXCEPT ![s] = n] /\ consumed' = [consumed EXCEPT ![s] = c]
      /\ UNCHANGED <<pc, epoch, head, end, token, previous, tail, menu, seed, peer, inputs, net>>
    BY DEF Play, HasInput, wire
<1>2. Plays(s) /\ e \in Epochs /\ e > 0 /\ e \in 0 .. Len(Phases)
    BY <1>0, <1>1, Numbers, Kind DEF Own, Place, Plays
<1>3. /\ next[s] \in Nat /\ head[s] \in Nat /\ End(s) \in Frames .. Frames + Late
      /\ Base(e) \in Nat /\ consumed[s] \in Nat
    <2>1. End(s) \in Frames .. Frames + Late /\ Base(e) \in Nat
        BY <1>0, <1>2, Passes DEF End, EndAt
    <2> QED
        BY <1>0, <2>1, Numbers
<1>4. n \in 0 .. Frames + Late /\ n > 0 /\ n \in Nat /\ n <= End(s) /\ c \in Nat /\ c = Base(e) + n
    BY <1>1, <1>3, Sizes
<1>5. consumed[s] <= c
    BY <1>0, <1>3, CountedHere
<1>6. head[s] \in n + Lookahead .. n + Lookahead + 1 + Backlog
    <2>1. head[s] \in next[s] + Lookahead .. next[s] + Lookahead + 1 + Backlog
        BY <1>0, <1>2 DEF Own, Captured
    <2> QED
        BY <1>1, <1>3, <2>1, Sizes
<1>7. 1 .. n \subseteq inputs[s][e]
    <2>1. 1 .. next[s] \subseteq inputs[s][e]
        BY <1>0, <1>2 DEF Own, Waited
    <2>2. \A f \in 1 .. n : f \in 1 .. next[s] \/ f = n
        BY <1>3
    <2> QED
        BY <1>1, <2>1, <2>2
<1> HIDE DEF n, c
<1>8. /\ next'[s] = n /\ consumed'[s] = c
      /\ \A t \in Sides : t # s => next'[t] = next[t] /\ consumed'[t] = consumed[t]
    BY <1>0, <1>1 DEF Typed
<1>9. Typed'
    BY <1>0, <1>1, <1>4 DEF Typed
<1>10. Moves(s)
    BY <1>0, <1>1, <1>5, <1>8, Numbers DEF Moves, Stays, Further, BarrierInv, Wired
<1>11. (Plays(s)' <=> Plays(s)) /\ End(s)' = End(s)
    BY <1>1 DEF Plays, End
<1>12. Place(s)'
    BY <1>0, <1>1, <1>2, <1>11 DEF Own, Place
<1>13. Captured(s)'
    BY <1>0, <1>1, <1>2, <1>4, <1>6, <1>8, <1>11 DEF Own, Captured
<1>14. Counted(s)'
    BY <1>1, <1>4, <1>8 DEF Counted
<1>15. Remembered(s)'
    BY <1>0, <1>1, <1>2, <1>11 DEF Own, Remembered
<1>16. Waited(s)'
    BY <1>0, <1>1, <1>7, <1>8, <1>11 DEF Own, Waited
<1>17. Own(s)'
    BY <1>12, <1>13, <1>14, <1>15, <1>16 DEF Own
<1>18. \A t \in Sides : Apart(t, Other(t))'
    BY <1>1, <1>9, <1>10, MovesKeepApart
<1> QED
    BY <1>9, <1>10, <1>17, <1>18, MoveCloses

-----------------------------------------------------------------------------
(* From epoch to epoch *)

\* Who leaves an epoch knows that the other side is there, and of a round that it
\* is through the barrier and has captured all its frames.
LEMMA OtherIsThere ==
    ASSUME BarrierInv, NEW s \in Sides, pc[s] = "Leave", NEW o \in Sides, o = Other(s)
    PROVE  /\ epoch[o] >= epoch[s]
           /\ epoch[s] = epoch[o] /\ Plays(o) => pc[o] \in {"Play", "Leave"}
<1>0. /\ Typed /\ Wired /\ Own(s) /\ Own(o) /\ Heard(s)
      /\ epoch[s] \in 0 .. Len(Phases) /\ epoch[o] \in 0 .. Len(Phases)
    BY Numbers DEF BarrierInv
<1>1. token[o] <= epoch[o] /\ token[o] \in Nat
    BY <1>0, Numbers DEF Own, Place
<1>2. ASSUME Plays(s)
      PROVE  token[o] >= epoch[s]
    <2>1. peer[s].token >= epoch[s] /\ peer[s].token <= token[o] /\ peer[s].token \in Nat
        BY <1>0, <1>2 DEF Own, Waited, Heard, Wired, Received
    <2> QED
        BY <1>0, <1>1, <2>1
<1>3. ASSUME ~Plays(s), epoch[s] > 0
      PROVE  epoch[o] >= epoch[s]
    <2> DEFINE k == Phases[epoch[s]]
    <2>1. k \in Kinds
        BY <1>0, <1>3, Kind DEF Plays
    <2>2. peer[s].menu[k] >= epoch[s]
        BY <1>0, <1>3 DEF Own, Waited
    <2> HIDE DEF k
    <2>3. peer[s].menu[k] <= menu[o][k] /\ menu[o][k] <= epoch[o]
        BY <1>0, <2>1 DEF Own, Place, Heard
    <2>4. peer[s].menu[k] \in Nat /\ menu[o][k] \in Nat
        BY <1>0, <2>1, Numbers DEF Wired, Received
    <2> QED
        BY <1>0, <2>2, <2>3, <2>4
<1>4. epoch[o] >= epoch[s]
    BY <1>0, <1>1, <1>2, <1>3
<1>5. ASSUME epoch[s] = epoch[o], Plays(o)
      PROVE  pc[o] \in {"Play", "Leave"}
    <2>1. Plays(s) /\ epoch[o] \in Epochs
        BY <1>0, <1>5, Kind DEF Plays
    <2>2. pc[o] # "Begun"
        <3>1. pc[o] = "Begun" => token[o] = epoch[o] - 1
            BY <1>0 DEF Own, Place
        <3> QED
            BY <1>0, <1>1, <1>2, <1>5, <2>1, <3>1
    <2>3. head[o] > Lookahead
        <3>1. End(s) \in inputs[s][epoch[s]]
            <4>1. End(s) \in Frames .. Frames + Late
                BY <1>0, Passes DEF End, EndAt
            <4>2. 1 .. next[s] \subseteq inputs[s][epoch[s]] /\ next[s] = End(s)
                BY <1>0, <2>1 DEF Own, Waited, Captured
            <4> QED
                BY <4>1, <4>2, Sizes
        <3>2. inputs[s][epoch[s]] \subseteq 1 .. head[o]
            BY <1>0, <1>5, <2>1, <3>1 DEF Heard, Real
        <3>3. End(s) \in Frames .. Frames + Late
            BY <1>0, Passes DEF End, EndAt
        <3>4. head[o] \in Nat
            BY <1>0, Numbers
        <3> QED
            BY <3>1, <3>2, <3>3, <3>4, Sizes
    <2>4. pc[o] \notin {"Barrier", "Seed"}
        BY <1>0, <1>5, <2>3, Sizes DEF Own, Captured
    <2>5. pc[o] # "Menu"
        BY <1>0, <1>5 DEF Own, Place
    <2> QED
        BY <1>0, <2>2, <2>4, <2>5 DEF Typed
<1> QED
    BY <1>4, <1>5

\* Whatever becomes of s in the next epoch, if it has left a round only when the
\* other side had played it to the end or to a menu.
LEMMA AheadByOne ==
    ASSUME BarrierInv, NEW s \in Sides, pc[s] = "Leave", Moves(s), Typed', epoch'[s] = epoch[s] + 1,
           ~Plays(s)' => head'[s] = head[s],
           Plays(s) /\ Plays(s)' /\ epoch[Other(s)] = epoch[s] =>
               consumed[Other(s)] >= Passed(s, epoch[s])
    PROVE  \A t \in Sides : Apart(t, Other(t))'
<1> DEFINE o == Other(s)
<1>0. Typed /\ o \in Sides /\ o # s /\ Other(o) = s /\ Own(s) /\ Apart(o, s) /\ Apart(s, o)
    BY TwoSides DEF BarrierInv
<1>1. \A t \in Sides : t = s \/ t = o
    BY TwoSides
<1> HIDE DEF o
<1>2. epoch[s] \in Nat /\ epoch[o] \in Nat /\ epoch[o] \in 0 .. Len(Phases)
    BY <1>0, Numbers
<1>3. epoch'[o] = epoch[o] /\ pc'[o] = pc[o] /\ consumed'[o] = consumed[o] /\ end' = end
    BY <1>0 DEF Moves, Stays
<1>4. epoch[o] >= epoch[s] /\ (epoch[s] = epoch[o] /\ Plays(o) => pc[o] \in {"Play", "Leave"})
    BY <1>0, OtherIsThere DEF o
<1>5. epoch[o] <= epoch[s] + 1
    BY <1>0 DEF Apart
<1>6. Apart(o, s)'
    BY <1>2, <1>3, <1>5 DEF Apart
<1>7. Plays(o)' <=> Plays(o)
    BY <1>3 DEF Plays
<1>8. ASSUME epoch'[s] > epoch'[o], Plays(o)
      PROVE  /\ pc'[o] \in {"Play", "Leave"}
             /\ head'[o] >= EndAt(s, epoch[o])'
             /\ ~Plays(s)' => head'[s] >= EndAt(s, epoch[o])'
             /\ Plays(s)' => consumed'[o] >= Passed(s, epoch[o])'
    <2>1. epoch[o] = epoch[s] /\ epoch[s] \in Epochs /\ Plays(s)
        BY <1>2, <1>3, <1>4, <1>8, Kind DEF Plays
    <2>2. next[s] = End(s) /\ head[s] \in next[s] + Lookahead .. next[s] + Lookahead + 1 + Backlog
        BY <1>0, <2>1 DEF Own, Captured
    <2>3. End(s) \in Nat /\ End(s) > 0 /\ head[s] \in Nat /\ head[o] \in Nat
        <3>1. End(s) \in Frames .. Frames + Late
            BY <1>0, <1>2, <2>1, Passes DEF End, EndAt
        <3> QED
            BY <1>0, <3>1, Numbers, Sizes
    <2>4. head[s] >= End(s)
        BY <2>2, <2>3, Sizes
    <2>5. EndAt(s, epoch[o])' = End(s) /\ Passed(s, epoch[o])' = Passed(s, epoch[s])
        BY <1>3, <2>1 DEF EndAt, Passed, End
    <2>6. Plays(s)' => consumed[o] >= Passed(s, epoch[s])
        BY <2>1 DEF o
    <2>7. head[o] >= End(s)
        <3>1. 1 .. next[s] \subseteq inputs[s][epoch[s]] /\ Heard(s)
            BY <2>1 DEF BarrierInv, Own, Waited
        <3>2. End(s) \in inputs[s][epoch[s]]
            BY <2>2, <2>3, <3>1
        <3>3. inputs[s][epoch[s]] \subseteq 1 .. head[o]
            BY <2>1, <3>1, <3>2 DEF Heard, Real, o
        <3> QED
            BY <2>3, <3>2, <3>3
    <2>8. head'[o] = head[o]
        BY <1>0 DEF Moves, Stays
    <2> QED
        BY <1>3, <1>4, <1>8, <2>1, <2>4, <2>5, <2>6, <2>7, <2>8
<1>9. Apart(s, o)'
    BY <1>2, <1>3, <1>4, <1>7, <1>8 DEF Apart
<1> QED
    BY <1>0, <1>1, <1>6, <1>9 DEF o

\* What is passed in the old epoch is what is passed before the new one.
LEMMA PassedBefore ==
    ASSUME NEW s \in Sides, end' = end, epoch'[s] - 1 = epoch[s]
    PROVE  Passed(s, epoch[s] - 1)' = Passed(s, epoch[s])
<1> DEFINE x == epoch[s]
           y == epoch'[s] - 1
<1>1. x = y
    OBVIOUS
<1>2. end' = end
    OBVIOUS
<1> HIDE DEF x, y
<1>3. Independent(x) = Independent(y) /\ Base(x) = Base(y) /\ Phases[x + 1] = Phases[y + 1]
    BY <1>1
<1>4. (IF y = 0 \/ Independent(y) THEN Base(y)
       ELSE Base(y) + (IF y < Len(Phases) /\ Phases[y + 1] = "Retry" THEN end'[s] ELSE Frames))
      = IF x = 0 \/ Independent(x) THEN Base(x)
        ELSE Base(x) + (IF x < Len(Phases) /\ Phases[x + 1] = "Retry" THEN end[s] ELSE Frames)
    BY <1>1, <1>2, <1>3
<1> QED
    BY <1>4 DEF Passed, EndAt, x, y

\* Who leaves an epoch has played it to the end.
LEMMA CountedLeaving ==
    ASSUME BarrierInv, NEW s \in Sides, pc[s] = "Leave"
    PROVE  consumed[s] = Passed(s, epoch[s])
<1>0. Typed /\ Own(s) /\ epoch[s] \in 0 .. Len(Phases)
    BY Numbers DEF BarrierInv
<1>1. CASE Plays(s)
    <2>1. next[s] = End(s) /\ End(s) > 0
        <3>1. End(s) \in Frames .. Frames + Late
            BY <1>0, Passes DEF End, EndAt
        <3> QED
            BY <1>0, <1>1, <3>1, Sizes DEF Own, Captured
    <2>2. next[s] # 0
        BY <2>1
    <2>3. consumed[s] = Base(epoch[s]) + next[s]
        BY <1>0, <2>2 DEF Own, Counted
    <2>4. Passed(s, epoch[s]) = Base(epoch[s]) + End(s)
        BY <1>1 DEF Passed, Plays, End, EndAt
    <2> QED
        BY <2>1, <2>3, <2>4
<1>2. CASE ~Plays(s)
    <2>1. next[s] = 0 /\ Base(epoch[s]) \in Nat
        BY <1>0, <1>2, Passes DEF Own, Place
    <2> QED
        BY <1>0, <1>2, <2>1 DEF Own, Counted, Passed, Plays
<1> QED
    BY <1>1, <1>2

\* What the inputs of s are when it leaves an epoch.
LEMMA Forgets ==
    ASSUME Wired, NEW s \in Sides, inputs' = [inputs EXCEPT ![s] = Kept(s)]
    PROVE  /\ inputs' \in [Sides -> [Epochs -> SUBSET Nat]]
           /\ \A e \in Epochs : inputs'[s][e] \in {{}, inputs[s][e]}
           /\ \A t \in Sides : t # s => inputs'[t] = inputs[t]
<1>1. inputs \in [Sides -> [Epochs -> SUBSET Nat]]
    BY DEF Wired
<1>2. Kept(s) \in [Epochs -> SUBSET Nat] /\ \A e \in Epochs : Kept(s)[e] \in {{}, inputs[s][e]}
    BY <1>1 DEF Kept
<1> QED
    BY <1>1, <1>2

LEMMA Begins == ASSUME BarrierInv, NEW s \in Sides, Begin(s) PROVE BarrierInv'
<1> DEFINE e == epoch[s] + 1
           o == Other(s)
<1>0. Typed /\ Wired /\ Own(s) /\ Heard(s) /\ o \in Sides
    BY TwoSides DEF BarrierInv
<1>1. /\ pc[s] = "Leave" /\ epoch[s] < Len(Phases) /\ ~Independent(e) /\ Drained(s)
      /\ epoch' = [epoch EXCEPT ![s] = e] /\ next' = [next EXCEPT ![s] = 0]
      /\ head' = [head EXCEPT ![s] = Lookahead] /\ seed' = SeedOf(s)
      /\ inputs' = [inputs EXCEPT ![s] = Kept(s)]
      /\ pc' = [pc EXCEPT ![s] = "Begun"]
      /\ UNCHANGED <<end, token, consumed, previous, tail, menu, peer, net>>
    BY DEF Begin
<1>2. /\ epoch[s] \in 0 .. Len(Phases) /\ epoch[s] \in Nat /\ e \in Epochs /\ e \in 0 .. Len(Phases)
      /\ e > 0 /\ e > epoch[s] /\ e - 1 = epoch[s]
    BY <1>0, <1>1, Numbers, Kind
<1> HIDE DEF o
<1>3. Lookahead \in 0 .. Stride - 1
    BY Sizes
<1> HIDE DEF e
<1>4. /\ head' \in [Sides -> 0 .. Stride - 1] /\ head'[s] = Lookahead
      /\ \A t \in Sides : t # s => head'[t] = head[t]
    BY <1>0, <1>1, <1>3 DEF Typed
<1>5. seed' \in 0 .. Len(Phases) /\ (s # Host => seed' = seed) /\ (s = Host => seed' = e)
    BY <1>0, <1>1, <1>2 DEF SeedOf, Typed, e
<1>6. /\ epoch'[s] = e /\ next'[s] = 0 /\ pc'[s] = "Begun"
      /\ \A t \in Sides : t # s => epoch'[t] = epoch[t] /\ next'[t] = next[t] /\ pc'[t] = pc[t]
    BY <1>0, <1>1 DEF Typed
<1>7. Typed'
    <2>1. /\ epoch' \in [Sides -> 0 .. Len(Phases)] /\ next' \in [Sides -> 0 .. Frames + Late]
          /\ pc' \in [Sides -> {"Leave", "Menu", "Begun", "Barrier", "Seed", "Play"}]
        <3>1. epoch' \in [Sides -> 0 .. Len(Phases)]
            BY <1>0, <1>1, <1>2 DEF Typed
        <3>2. 0 \in 0 .. Frames + Late
            BY Sizes
        <3>3. next' \in [Sides -> 0 .. Frames + Late]
            BY <1>0, <1>1, <3>2 DEF Typed
        <3>4. pc' \in [Sides -> {"Leave", "Menu", "Begun", "Barrier", "Seed", "Play"}]
            BY <1>0, <1>1 DEF Typed
        <3> QED
            BY <3>1, <3>3, <3>4
    <2> QED
        BY <1>0, <1>1, <1>4, <1>5, <2>1 DEF Typed
<1>8. /\ inputs' \in [Sides -> [Epochs -> SUBSET Nat]]
      /\ \A f \in Epochs : inputs'[s][f] \in {{}, inputs[s][f]}
      /\ \A t \in Sides : t # s => inputs'[t] = inputs[t]
    BY <1>0, <1>1, Forgets
<1>10. Moves(s)
    <2>1. Further(s)
        BY <1>6 DEF Further, e
    <2>2. \A t \in Sides : t # s => Stays(t)
        BY <1>1, <1>4, <1>6, <1>8 DEF Stays
    <2>3. token[s] <= token'[s] /\ consumed[s] <= consumed'[s] /\ \A k \in Kinds : menu[s][k] <= menu'[s][k]
        BY <1>0, <1>1, Numbers
    <2> QED
        BY <1>1, <1>5, <1>8, <2>1, <2>2, <2>3 DEF Moves
<1>11. Plays(s)'
    BY <1>1, <1>2, <1>6 DEF Plays, Independent
<1>12. Place(s)'
    <2>1. token'[s] = e - 1
        BY <1>0, <1>1, <1>2 DEF Own, Place
    <2>2. \A k \in Kinds : menu'[s][k] <= e
        BY <1>0, <1>1, <1>2, Numbers DEF Own, Place
    <2> QED
        BY <1>2, <1>5, <1>6, <1>11, <2>1, <2>2 DEF Place
<1>13. Captured(s)'
    <2>2. End(s)' \in Nat
        BY <1>7, Sizes DEF End, EndAt, Typed
    <2> QED
        BY <1>4, <1>6, <1>11, <2>2, Sizes DEF Captured
<1>14. consumed[s] = Passed(s, epoch[s])
    BY <1>1, CountedLeaving
<1>15. Counted(s)'
    <2>1. epoch'[s] - 1 = epoch[s]
        BY <1>2, <1>6
    <2>2. Passed(s, epoch[s] - 1)' = Passed(s, epoch[s])
        BY <1>1, <2>1, PassedBefore
    <2> QED
        BY <1>1, <1>6, <1>11, <1>14, <2>2 DEF Counted
<1>16. Remembered(s)'
    <2>1. ASSUME previous[s] > 0
          PROVE  \E f \in Epochs : \E n \in 0 .. Stride - 1 : f < e /\ previous[s] = Base(f) + n
        <3>1. PICK f \in Epochs : \E n \in 0 .. Stride - 1 : f < epoch[s] /\ previous[s] = Base(f) + n
            BY <1>0, <2>1 DEF Own, Remembered
        <3>2. f < e
            BY <1>2, <3>1, Kind
        <3> QED
            BY <3>1, <3>2
    <2> QED
        BY <1>1, <1>6, <1>11, <2>1 DEF Remembered
<1>17. Waited(s)'
    <2>1. 1 .. 0 = {}
        OBVIOUS
    <2> QED
        BY <1>1, <1>6, <1>11, <2>1 DEF Waited
<1>18. Own(s)'
    BY <1>12, <1>13, <1>15, <1>16, <1>17 DEF Own
<1>19. ASSUME Plays(s), epoch[o] = epoch[s]
       PROVE  consumed[o] >= Passed(s, epoch[s])
    <2>1. consumed[s] > 0 /\ consumed[s] \in Nat /\ consumed[o] \in Nat
        <3>1. EndAt(s, epoch[s]) > 0 /\ EndAt(s, epoch[s]) \in Nat /\ Base(epoch[s]) \in Nat
            <4>1. EndAt(s, epoch[s]) \in Frames .. Frames + Late /\ Base(epoch[s]) \in Nat
                BY <1>0, <1>2, Passes
            <4> QED
                BY <4>1, Sizes
        <3>2. Passed(s, epoch[s]) = Base(epoch[s]) + EndAt(s, epoch[s])
            BY <1>19 DEF Passed, Plays
        <3> QED
            BY <1>0, <1>14, <3>1, <3>2, Numbers
    <2>2. peer[s].consumed <= consumed[o] /\ peer[s].consumed \in Nat
        BY <1>0 DEF Heard, Wired, Received, o
    <2>3. peer[s].token # epoch[s] + 1
        <3>1. peer[s].token <= token[o] /\ peer[s].token \in Nat
            BY <1>0 DEF Heard, Wired, Received, o
        <3>2. token[o] <= epoch[o] /\ token[o] \in Nat
            BY <1>0, Numbers DEF BarrierInv, Own, Place
        <3> QED
            BY <1>2, <1>19, <3>1, <3>2
    <2> QED
        BY <1>1, <1>14, <2>1, <2>2, <2>3 DEF Drained, PeerEnteredNextPhase
<1>20. epoch'[s] = epoch[s] + 1
    BY <1>6 DEF e
<1>21. \A t \in Sides : Apart(t, Other(t))'
    BY <1>1, <1>7, <1>10, <1>11, <1>19, <1>20, AheadByOne DEF o
<1> QED
    BY <1>7, <1>10, <1>18, <1>21, MoveCloses


LEMMA BeginsMenu == ASSUME BarrierInv, NEW s \in Sides, BeginMenu(s) PROVE BarrierInv'
<1> DEFINE e == epoch[s] + 1
           k == Phases[e]
           b == Base(e)
           old == IF k = "Retry" THEN consumed[s] ELSE previous[s]
           rest == IF k = "Retry" THEN Window ELSE tail[s]
<1>0. Typed /\ Wired /\ Own(s)
    BY DEF BarrierInv
<1>1. /\ pc[s] = "Leave" /\ epoch[s] < Len(Phases) /\ Independent(e)
      /\ epoch' = [epoch EXCEPT ![s] = e] /\ next' = [next EXCEPT ![s] = 0]
      /\ previous' = IF k = "Retry" THEN [previous EXCEPT ![s] = consumed[s]] ELSE previous
      /\ tail' = IF k = "Retry" THEN [tail EXCEPT ![s] = Window] ELSE tail
      /\ menu' = [menu EXCEPT ![s][k] = e] /\ consumed' = [consumed EXCEPT ![s] = b]
      /\ inputs' = [inputs EXCEPT ![s] = Kept(s)]
      /\ pc' = [pc EXCEPT ![s] = "Begun"]
      /\ UNCHANGED <<head, end, token, seed, peer, net>>
    BY DEF BeginMenu
<1>2. /\ epoch[s] \in 0 .. Len(Phases) /\ epoch[s] \in Nat /\ e \in Epochs /\ e \in 0 .. Len(Phases)
      /\ e > 0 /\ e > epoch[s] /\ e - 1 = epoch[s] /\ k \in Kinds
    BY <1>0, <1>1, Numbers, Kind
<1>3. consumed[s] = Passed(s, epoch[s])
    BY <1>1, CountedLeaving
<1>4. b \in Nat /\ consumed[s] \in Nat /\ consumed[s] <= b
    BY <1>0, <1>2, <1>3, Passes
<1>5. /\ epoch'[s] = e /\ next'[s] = 0 /\ pc'[s] = "Begun" /\ consumed'[s] = b /\ previous'[s] = old
      /\ \A t \in Sides : t # s =>
            /\ epoch'[t] = epoch[t] /\ next'[t] = next[t] /\ pc'[t] = pc[t]
            /\ consumed'[t] = consumed[t] /\ previous'[t] = previous[t]
    BY <1>0, <1>1 DEF Typed
<1>21. tail' \in [Sides -> 0 .. Window] /\ tail'[s] = rest /\ \A t \in Sides : t # s => tail'[t] = tail[t]
    BY <1>0, <1>1, Sizes DEF Typed
<1>22. /\ inputs' \in [Sides -> [Epochs -> SUBSET Nat]]
       /\ \A f \in Epochs : inputs'[s][f] \in {{}, inputs[s][f]}
       /\ \A t \in Sides : t # s => inputs'[t] = inputs[t]
    BY <1>0, <1>1, Forgets
<1>6. epoch'[s] - 1 = epoch[s] /\ epoch'[s] = epoch[s] + 1
    BY <1>2, <1>5
<1>7. ~Plays(s)'
    BY <1>1, <1>5 DEF Plays, Independent
<1> HIDE DEF e, b
<1>8. /\ menu' \in [Sides -> [Kinds -> 0 .. Len(Phases)]]
      /\ menu'[s][k] = e /\ \A j \in Kinds : j # k => menu'[s][j] = menu[s][j]
      /\ \A t \in Sides : t # s => menu'[t] = menu[t]
    <2> HIDE DEF k
    <2> DEFINE N == 0 .. Len(Phases)
               x == [menu[s] EXCEPT ![k] = e]
    <2>1. menu \in [Sides -> [Kinds -> N]] /\ e \in N /\ k \in Kinds
        BY <1>0, <1>2 DEF Typed
    <2> HIDE DEF N
    <2>2. menu' = [menu EXCEPT ![s] = x]
        BY <1>1, <2>1
    <2>3. x \in [Kinds -> N] /\ x[k] = e /\ \A j \in Kinds : j # k => x[j] = menu[s][j]
        BY <2>1
    <2> HIDE DEF x
    <2>4. menu' \in [Sides -> [Kinds -> N]] /\ menu'[s] = x /\ \A t \in Sides : t # s => menu'[t] = menu[t]
        BY <2>1, <2>2, <2>3
    <2> QED
        BY <2>3, <2>4 DEF N
<1>9. Typed'
    <2>1. epoch' \in [Sides -> 0 .. Len(Phases)]
        BY <1>0, <1>1, <1>2 DEF Typed
    <2>2. 0 \in 0 .. Frames + Late
        BY Sizes
    <2>3. next' \in [Sides -> 0 .. Frames + Late]
        BY <1>0, <1>1, <2>2 DEF Typed
    <2>4. pc' \in [Sides -> {"Leave", "Menu", "Begun", "Barrier", "Seed", "Play"}]
        BY <1>0, <1>1 DEF Typed
    <2>5. consumed' \in [Sides -> Nat] /\ previous' \in [Sides -> Nat]
        BY <1>0, <1>1, <1>4 DEF Typed
    <2> QED
        BY <1>0, <1>1, <1>8, <1>21, <2>1, <2>3, <2>4, <2>5 DEF Typed
<1>10. \A j \in Kinds : menu[s][j] <= menu'[s][j] /\ menu'[s][j] <= e
    <2>1. \A j \in Kinds : menu[s][j] <= epoch[s] /\ menu[s][j] \in Nat
        BY <1>0, Numbers DEF Own, Place
    <2>2. e \in Nat
        BY <1>2, Kind
    <2> QED
        BY <1>2, <1>8, <2>1, <2>2
<1>11. Moves(s)
    <2>1. Further(s)
        BY <1>6 DEF Further
    <2>2. \A t \in Sides : t # s => Stays(t)
        BY <1>1, <1>5, <1>8, <1>21, <1>22 DEF Stays
    <2> QED
        BY <1>0, <1>1, <1>4, <1>5, <1>10, <1>22, <2>1, <2>2, Numbers DEF Moves
<1>12. Place(s)'
    <2>1. token'[s] = e - 1
        BY <1>0, <1>1, <1>2 DEF Own, Place
    <2> QED
        BY <1>2, <1>5, <1>7, <1>10, <2>1 DEF Place
<1>13. Captured(s)'
    <2>1. ASSUME e <= 1 PROVE head[s] = 0
        <3>1. epoch[s] = 0
            BY <1>2, <2>1 DEF e
        <3>2. ~Plays(s)
            BY <3>1 DEF Plays
        <3> QED
            BY <1>0, <3>1, <3>2 DEF Own, Captured
    <2> QED
        BY <1>1, <1>5, <1>7, <2>1 DEF Captured
<1>14. Counted(s)'
    BY <1>2, <1>4, <1>5, <1>7 DEF Counted, b
<1>15. Passed(s, epoch[s] - 1)' = consumed[s]
    BY <1>1, <1>3, <1>6, PassedBefore
<1>16. ASSUME consumed[s] > 0
       PROVE  \E f \in Epochs : \E n \in 0 .. Stride - 1 : f < e /\ consumed[s] = Base(f) + n
    <2>1. epoch[s] \in Epochs /\ epoch[s] < e
        <3>1. epoch[s] = 0 => Passed(s, epoch[s]) = 0
            BY BaseZero DEF Passed
        <3> QED
            BY <1>2, <1>3, <1>16, <3>1, Kind
    <2>2. Base(epoch[s]) \in Nat /\ Base(epoch[s]) <= consumed[s] /\ consumed[s] < Base(epoch[s] + 1)
          /\ Base(epoch[s] + 1) = Base(epoch[s]) + Stride /\ Stride \in Nat
        BY <1>0, <1>2, <1>3, Passes, Bases, Sizes
    <2> DEFINE n == consumed[s] - Base(epoch[s])
    <2>3. n \in 0 .. Stride - 1 /\ consumed[s] = Base(epoch[s]) + n
        <3> HIDE DEF Stride
        <3> QED
            BY <1>4, <2>2
    <2> QED
        BY <2>1, <2>3
<1>17. Remembered(s)'
    <2>1. ASSUME previous'[s] > 0
          PROVE  \E f \in Epochs : \E n \in 0 .. Stride - 1 : f < e /\ previous'[s] = Base(f) + n
        <3>1. CASE k = "Retry"
            <4>1. previous'[s] = consumed[s]
                BY <1>5, <3>1
            <4> QED
                BY <1>16, <2>1, <4>1
        <3>2. CASE k # "Retry"
            <4>1. previous'[s] = previous[s]
                BY <1>5, <3>2
            <4>2. PICK f \in Epochs : \E n \in 0 .. Stride - 1 : f < epoch[s] /\ previous[s] = Base(f) + n
                BY <1>0, <2>1, <4>1 DEF Own, Remembered
            <4>3. f < e
                BY <1>2, <4>2, Kind
            <4> QED
                BY <4>1, <4>2, <4>3
        <3> QED
            BY <3>1, <3>2
    <2>2. Phases[epoch'[s]] = "Retry" => previous'[s] = consumed[s] /\ tail'[s] >= Window - Reused
        <3>1. Phases[epoch'[s]] = k
            BY <1>5 DEF e
        <3> QED
            BY <1>5, <1>21, <3>1, Sizes
    <2> QED
        BY <1>5, <1>15, <2>1, <2>2 DEF Remembered
<1>18. Waited(s)'
    BY <1>5, <1>7 DEF Waited
<1>19. Own(s)'
    BY <1>12, <1>13, <1>14, <1>17, <1>18 DEF Own
<1>20. \A t \in Sides : Apart(t, Other(t))'
    BY <1>1, <1>6, <1>7, <1>9, <1>11, AheadByOne
<1> QED
    BY <1>9, <1>11, <1>19, <1>20, MoveCloses


-----------------------------------------------------------------------------
(* The packets *)

LEMMA Windows ==
    ASSUME NEW last \in Nat, NEW n \in Nat
    PROVE  UpTo(last, n) \subseteq 1 .. last /\ UpTo(last, n) \subseteq Nat
BY DEF UpTo

\* The repair window ends where the inputs end at most.
LEMMA Repaired ==
    ASSUME BarrierInv, NEW s \in Sides
    PROVE  RepairEnd(s) \in Nat /\ RepairEnd(s) <= head[s]
<1>1. head[s] \in Nat /\ peer[s].consumed \in Nat /\ Stride \in Nat /\ Stride > 0 /\ Window \in Nat
    BY Numbers, Sizes DEF BarrierInv, Wired, Received
<1> DEFINE played == peer[s].consumed
           ack == IF EpochOf(played) = token[s] THEN played % Stride ELSE 0
<1>2. ack \in Nat
    <2> HIDE DEF Stride
    <2>1. played % Stride \in Nat
        BY <1>1
    <2> QED
        BY <2>1
<1>3. RepairEnd(s) = Lower(head[s], ack + Window)
    BY DEF RepairEnd
<1> HIDE DEF ack
<1> QED
    BY <1>1, <1>2, <1>3 DEF Lower

\* What a packet carries inputs of has been captured.
LEMMA Carried ==
    ASSUME BarrierInv, NEW s \in Sides, NEW newest \in BOOLEAN
    PROVE  /\ Inputs(s, newest) = [epoch |-> Inputs(s, newest).epoch, frames |-> Inputs(s, newest).frames]
           /\ Inputs(s, newest).epoch \in Epochs /\ Inputs(s, newest).frames \subseteq Nat
           /\ Real(s, Inputs(s, newest).epoch, Inputs(s, newest).frames)
<1> SUFFICES \E e \in Epochs : \E F \in SUBSET Nat :
                 Inputs(s, newest) = [epoch |-> e, frames |-> F] /\ Real(s, e, F)
    <2>1. ASSUME NEW e \in Epochs, NEW F \in SUBSET Nat,
                 Inputs(s, newest) = [epoch |-> e, frames |-> F], Real(s, e, F)
          PROVE  /\ Inputs(s, newest).epoch = e /\ Inputs(s, newest).frames = F
        BY <2>1
    <2> QED
        BY <2>1
<1>0. /\ Typed /\ Own(s) /\ token[s] \in 0 .. Len(Phases) /\ previous[s] \in Nat /\ head[s] \in Nat
      /\ epoch[s] \in 0 .. Len(Phases) /\ epoch[s] \in Nat
    BY Numbers DEF BarrierInv, Typed
<1>1. CASE token[s] > 0 /\ Independent(token[s]) /\ SendsTail(s)
    <2>1. PICK e \in Epochs : \E n \in 0 .. Stride - 1 : e < epoch[s] /\ previous[s] = Base(e) + n
        BY <1>0, <1>1 DEF Own, Remembered, SendsTail
    <2>2. PICK n \in 0 .. Stride - 1 : previous[s] = Base(e) + n
        BY <2>1
    <2>3. EpochOf(previous[s]) = e /\ previous[s] % Stride = n
        BY <2>2, Decomposed
    <2>4. Inputs(s, newest) = [epoch |-> e, frames |-> UpTo(n, tail[s])]
        BY <1>1, <2>3 DEF Inputs
    <2>5. UpTo(n, tail[s]) \subseteq Nat
        BY DEF UpTo
    <2>6. Real(s, e, UpTo(n, tail[s]))
        BY <1>0, <2>1, Kind DEF Real
    <2> QED
        BY <2>4, <2>5, <2>6
<1>2. CASE token[s] > 0 /\ Independent(token[s]) /\ ~SendsTail(s)
    <2>1. Inputs(s, newest) = [epoch |-> token[s], frames |-> {}] /\ token[s] \in Epochs
        BY <1>0, <1>2, Kind DEF Inputs
    <2> QED
        BY <2>1 DEF Real
<1>3. CASE ~(token[s] > 0 /\ Independent(token[s])) /\ pc[s] = "Begun" /\ ~Independent(epoch[s])
    <2> DEFINE F == IF newest THEN UpTo(head[s], Window) ELSE {}
    <2>1. Inputs(s, newest) = [epoch |-> epoch[s], frames |-> F]
        BY <1>3 DEF Inputs
    <2>2. epoch[s] \in Epochs /\ Plays(s)
        BY <1>0, <1>3, Kind DEF Own, Place, Plays
    <2>3. F \subseteq 1 .. head[s] /\ F \subseteq Nat
        BY <1>0, Windows, Sizes
    <2> HIDE DEF F
    <2>4. Real(s, epoch[s], F)
        BY <1>0, <2>2, <2>3 DEF Real
    <2> QED
        BY <2>1, <2>2, <2>3, <2>4
<1>4. CASE ~(token[s] > 0 /\ Independent(token[s])) /\ ~(pc[s] = "Begun" /\ ~Independent(epoch[s]))
    <2>0. PICK l \in Nat : l = (IF newest THEN head[s] ELSE RepairEnd(s)) /\ l <= head[s]
        BY <1>0, Repaired
    <2>3. PICK e \in Epochs : e = Higher(token[s], 1)
        BY <1>0, Kind DEF Higher
    <2>2. Inputs(s, newest) = [epoch |-> e, frames |-> UpTo(l, Window)]
        BY <1>4, <2>0, <2>3 DEF Inputs
    <2>1. l <= head[s]
        BY <2>0
    <2>4. UpTo(l, Window) \subseteq 1 .. head[s] /\ UpTo(l, Window) \subseteq Nat
        <3>1. UpTo(l, Window) \subseteq 1 .. l /\ UpTo(l, Window) \subseteq Nat
            BY <2>1, Windows, Sizes
        <3> QED
            BY <1>0, <2>1, <3>1
    <2>5. CASE token[s] > 0
        <3>1. e = token[s] /\ e \in Nat
            BY <1>0, <2>3, <2>5 DEF Higher
        <3>2. CASE pc[s] = "Begun"
            <4>1. e < epoch[s]
                BY <1>0, <3>1, <3>2 DEF Own, Place
            <4>2. Real(s, e, UpTo(l, Window))
                BY ONLY <1>0, <3>1, <4>1 DEF Real
            <4> QED
                BY <2>2, <2>3, <2>4, <4>2
        <3>3. CASE pc[s] # "Begun"
            <4>1. e = epoch[s] /\ Plays(s)
                BY <1>0, <1>4, <2>5, <3>1, <3>3 DEF Own, Place, Plays
            <4>2. Real(s, e, UpTo(l, Window))
                BY <1>0, <2>4, <3>1, <4>1 DEF Real
            <4> QED
                BY <2>2, <2>3, <2>4, <4>2
        <3> QED
            BY <3>2, <3>3
    <2>6. CASE token[s] = 0
        <3>1. ~Plays(s) /\ epoch[s] <= 1
            BY <1>0, <1>4, <2>6 DEF Own, Place, Plays
        <3>2. head[s] = 0
            BY <1>0, <3>1 DEF Own, Captured
        <3>3. UpTo(l, Window) = {}
            BY <2>4, <3>2
        <3> QED
            BY <2>2, <2>3, <2>4, <3>3 DEF Real
    <2> QED
        BY <1>0, <2>5, <2>6
<1> QED
    BY <1>1, <1>2, <1>3, <1>4

LEMMA Sends ==
    ASSUME BarrierInv, NEW s \in Sides, NEW newest \in BOOLEAN, Send(s, newest) PROVE BarrierInv'
<1> DEFINE m == Packet(s, newest)
<1>0. Typed /\ Wired
    BY DEF BarrierInv
<1>1. /\ net' \subseteq net \cup {m}
      /\ UNCHANGED <<pc, epoch, next, head, end, token, consumed, previous, tail, menu, seed, peer, inputs>>
    BY DEF Send
<1>2. /\ m.from = s /\ m.token = token[s] /\ m.consumed = consumed[s] /\ m.menu = menu[s]
      /\ m.inputs = Inputs(s, newest)
    BY DEF Packet
<1>3. m \in Packets
    <2>1. token[s] \in Nat /\ consumed[s] \in Nat /\ (IF s = Host THEN seed ELSE 0) \in Nat
        BY <1>0, Numbers, Kind DEF Typed
    <2>2. menu[s] \in [Kinds -> Nat]
        BY <1>0, Kind DEF Typed
    <2>3. Inputs(s, newest) \in [epoch : Epochs, frames : SUBSET Nat]
        BY Carried
    <2> QED
        BY <2>1, <2>2, <2>3 DEF Packet, Packets
<1>4. Told(m)
    <2>1. \A k \in Kinds : menu[s][k] \in Nat
        BY <1>0, Numbers
    <2> QED
        BY <1>0, <1>2, <2>1, Carried, Numbers DEF Told
<1> HIDE DEF m
<1>5. Typed'
    BY <1>0, <1>1 DEF Typed
<1>6. Wired'
    BY <1>0, <1>1, <1>3 DEF Wired
<1>7. \A t \in Sides : Own(t)' /\ Heard(t)' /\ Apart(t, Other(t))'
    <2> SUFFICES ASSUME NEW t \in Sides PROVE Own(t)' /\ Heard(t)' /\ Apart(t, Other(t))'
        OBVIOUS
    <2>1. Own(t) /\ Heard(t) /\ Apart(t, Other(t))
        BY DEF BarrierInv
    <2>2. Own(t)'
        BY <1>1, <2>1
        DEF Own, Place, Captured, Counted, Remembered, Waited, Plays, End, Passed, EndAt
    <2>3. Heard(t)' /\ Apart(t, Other(t))'
        BY <1>1, <2>1 DEF Heard, Real, Apart, Plays, Passed, EndAt
    <2> QED
        BY <2>2, <2>3
<1>8. \A n \in net' : Told(n)'
    <2> SUFFICES ASSUME NEW n \in net' PROVE Told(n)'
        OBVIOUS
    <2>1. Told(n)
        BY <1>1, <1>4 DEF BarrierInv
    <2> QED
        BY <1>1, <2>1 DEF Told, Real, Plays
<1> QED
    BY <1>5, <1>6, <1>7, <1>8 DEF BarrierInv

LEMMA Receives == ASSUME BarrierInv, NEW s \in Sides, NEW m \in net, Receive(s, m) PROVE BarrierInv'
<1> DEFINE o == Other(s)
           p == peer[s]
           q == [token |-> NewerToken(s, m),
                 consumed |-> Higher(p.consumed, m.consumed),
                 seed |-> IF s = Client /\ m.seed > 0 /\ m.seed = m.token
                          THEN Higher(p.seed, m.seed) ELSE p.seed,
                 menu |-> [k \in DOMAIN p.menu |-> Higher(p.menu[k], m.menu[k])]]
           x == m.inputs.epoch
           F == m.inputs.frames
<1>0. Typed /\ Wired /\ Heard(s) /\ Told(m) /\ o \in Sides
    BY TwoSides DEF BarrierInv
<1>1. /\ m.from = o /\ peer' = [peer EXCEPT ![s] = q] /\ net' \subseteq net
      /\ inputs' = IF x >= epoch[s] THEN [inputs EXCEPT ![s][x] = @ \cup F] ELSE inputs
      /\ UNCHANGED <<pc, epoch, next, head, end, token, consumed, previous, tail, menu, seed>>
    BY DEF Receive
<1>2. /\ p \in Received /\ m \in Packets /\ DOMAIN p.menu = Kinds
      /\ p.token \in Nat /\ p.consumed \in Nat /\ p.seed \in Nat
      /\ \A k \in Kinds : p.menu[k] \in Nat
      /\ m.token \in Nat /\ m.consumed \in Nat /\ m.seed \in Nat
      /\ \A k \in Kinds : m.menu[k] \in Nat
      /\ x \in Epochs /\ F \subseteq Nat
    BY <1>0 DEF Wired, Received, Packets
<1>3. \A a, b \in Nat : /\ Higher(a, b) \in Nat /\ Higher(a, b) >= a
                        /\ Higher(a, b) = a \/ Higher(a, b) = b
    BY DEF Higher
<1> HIDE DEF p, o
<1>4. /\ q.token \in Nat /\ q.token >= p.token /\ (q.token = p.token \/ q.token = m.token)
      /\ q.consumed \in Nat /\ (q.consumed = p.consumed \/ q.consumed = m.consumed)
      /\ q.seed \in Nat
    BY <1>2, <1>3 DEF NewerToken, p
<1>5. /\ q.menu \in [Kinds -> Nat]
      /\ \A k \in Kinds : q.menu[k] >= p.menu[k] /\ (q.menu[k] = p.menu[k] \/ q.menu[k] = m.menu[k])
    BY <1>2, <1>3
<1>6. /\ inputs' \in [Sides -> [Epochs -> SUBSET Nat]]
      /\ \A e \in Epochs : /\ inputs[s][e] \subseteq inputs'[s][e]
                           /\ inputs'[s][e] \in {inputs[s][e], inputs[s][e] \cup F}
                           /\ e # x => inputs'[s][e] = inputs[s][e]
      /\ \A t \in Sides : t # s => inputs'[t] = inputs[t]
    <2>1. inputs \in [Sides -> [Epochs -> SUBSET Nat]]
        BY <1>0 DEF Wired
    <2> DEFINE N == SUBSET Nat
               y == [inputs[s] EXCEPT ![x] = @ \cup F]
    <2>2. x \in Epochs /\ \A A \in N : A \cup F \in N
        BY <1>2
    <2>3. CASE x >= epoch[s]
        <3>1. inputs' = [inputs EXCEPT ![s] = y]
            BY <1>1, <2>3
        <3>2. inputs[s] \in [Epochs -> N]
            BY <2>1
        <3> HIDE DEF N, x, F
        <3>3. /\ y \in [Epochs -> N] /\ y[x] = inputs[s][x] \cup F
              /\ \A e \in Epochs : e # x => y[e] = inputs[s][e]
            BY <2>2, <3>2
        <3> HIDE DEF y
        <3>4. inputs' \in [Sides -> [Epochs -> N]] /\ inputs'[s] = y /\ \A t \in Sides : t # s => inputs'[t] = inputs[t]
            BY <2>1, <3>1, <3>3 DEF N
        <3> QED
            BY <3>3, <3>4 DEF N
    <2>4. CASE ~(x >= epoch[s])
        BY <1>1, <2>1, <2>4
    <2> QED
        BY <2>3, <2>4
<1>7. q \in Received
    <2>1. q = [token |-> q.token, consumed |-> q.consumed, seed |-> q.seed, menu |-> q.menu]
        OBVIOUS
    <2> HIDE DEF q
    <2> QED
        BY <1>4, <1>5, <2>1 DEF Received
<1> HIDE DEF q, x, F
<1>8. peer'[s] = q /\ \A t \in Sides : t # s => peer'[t] = peer[t]
    BY <1>0, <1>1 DEF Wired
<1>9. Typed'
    BY <1>0, <1>1 DEF Typed
<1>10. Wired'
    BY <1>0, <1>1, <1>6, <1>7 DEF Wired
<1>11. Heard(s)'
    <2>1. /\ p.token <= token[o] /\ p.consumed <= consumed[o]
          /\ \A k \in Kinds : p.menu[k] <= menu[o][k]
          /\ \A e \in Epochs : Real(o, e, inputs[s][e])
        BY <1>0 DEF Heard, p, o
    <2>2. /\ m.token <= token[o] /\ m.consumed <= consumed[o]
          /\ \A k \in Kinds : m.menu[k] <= menu[o][k]
          /\ Real(o, x, F)
        BY <1>0, <1>1 DEF Told, x, F
    <2>3. q.token <= token[o] /\ q.consumed <= consumed[o]
        BY <1>4, <2>1, <2>2
    <2>4. \A k \in Kinds : q.menu[k] <= menu[o][k]
        BY <1>5, <2>1, <2>2
    <2>5. ASSUME NEW e \in Epochs PROVE Real(o, e, inputs'[s][e])
        <3>1. Real(o, e, inputs[s][e])
            BY <2>1
        <3>2. CASE inputs'[s][e] = inputs[s][e]
            BY <3>1, <3>2
        <3>3. CASE e = x /\ inputs'[s][e] = inputs[s][e] \cup F
            BY <2>2, <3>1, <3>3 DEF Real
        <3> QED
            BY <1>6, <3>2, <3>3
    <2>6. ASSUME NEW e \in Epochs PROVE Real(o, e, inputs[s][e])'
        BY <1>1, <2>5 DEF Real, Plays
    <2> QED
        BY <1>1, <1>8, <2>3, <2>4, <2>6 DEF Heard, o
<1>12. \A t \in Sides : Heard(t)'
    <2> SUFFICES ASSUME NEW t \in Sides, t # s PROVE Heard(t)'
        BY <1>11
    <2>1. Heard(t) /\ peer'[t] = peer[t] /\ inputs'[t] = inputs[t]
        BY <1>6, <1>8 DEF BarrierInv
    <2> QED
        BY <1>1, <2>1 DEF Heard, Real, Plays
<1>13. \A t \in Sides : Apart(t, Other(t))'
    <2> SUFFICES ASSUME NEW t \in Sides PROVE Apart(t, Other(t))'
        OBVIOUS
    <2>1. Apart(t, Other(t))
        BY DEF BarrierInv
    <2> QED
        BY <1>1, <2>1 DEF Apart, Plays, Passed, EndAt
<1>14. \A t \in Sides : Own(t)'
    <2> SUFFICES ASSUME NEW t \in Sides PROVE Own(t)'
        OBVIOUS
    <2>1. Own(t)
        BY DEF BarrierInv
    <2>2. Place(t)' /\ Captured(t)' /\ Counted(t)' /\ Remembered(t)'
        BY <1>1, <2>1 DEF Own, Place, Captured, Counted, Remembered, Plays, End, Passed, EndAt
    <2>3. CASE t = s
        <3>1. /\ epoch[s] \in Nat /\ next[s] \in Nat /\ (Plays(s)' <=> Plays(s))
              /\ epoch[s] > 0 => epoch[s] \in Epochs
              /\ epoch[s] > 0 /\ ~Plays(s) => Phases[epoch[s]] \in Kinds
            BY <1>0, <1>1, Numbers, Kind DEF Plays
        <3>2. /\ pc[s] \in {"Seed", "Play"} \/ (pc[s] = "Leave" /\ Plays(s)) => p.token >= epoch[s]
              /\ Plays(s) => 1 .. next[s] \subseteq inputs[s][epoch[s]]
              /\ pc[s] = "Leave" /\ epoch[s] > 0 /\ ~Plays(s) => p.menu[Phases[epoch[s]]] >= epoch[s]
            BY <2>1, <2>3 DEF Own, Waited, p
        <3>3. pc[s] \in {"Seed", "Play"} \/ (pc[s] = "Leave" /\ Plays(s)) => q.token >= epoch[s]
            BY <1>2, <1>4, <3>1, <3>2
        <3>4. Plays(s) => 1 .. next[s] \subseteq inputs'[s][epoch[s]]
            <4>1. Plays(s) => epoch[s] \in Epochs
                BY <3>1 DEF Plays
            <4> QED
                BY <1>6, <3>2, <4>1
        <3>5. pc[s] = "Leave" /\ epoch[s] > 0 /\ ~Plays(s) => q.menu[Phases[epoch[s]]] >= epoch[s]
            <4>1. \A k \in Kinds : q.menu[k] \in Nat /\ p.menu[k] \in Nat
                BY <1>2, <1>5
            <4> QED
                BY <1>5, <3>1, <3>2, <4>1
        <3> QED
            BY <1>1, <1>8, <2>2, <2>3, <3>1, <3>3, <3>4, <3>5 DEF Own, Waited
    <2>4. CASE t # s
        <3>1. peer'[t] = peer[t] /\ inputs'[t] = inputs[t] /\ (Plays(t)' <=> Plays(t))
            BY <1>1, <1>6, <1>8, <2>4 DEF Plays
        <3> QED
            BY <1>1, <2>1, <2>2, <3>1 DEF Own, Waited
    <2> QED
        BY <2>3, <2>4
<1>15. \A n \in net' : Told(n)'
    BY <1>1 DEF BarrierInv, Told, Real, Plays
<1> QED
    BY <1>9, <1>10, <1>12, <1>13, <1>14, <1>15 DEF BarrierInv

-----------------------------------------------------------------------------
(* The theorems *)

LEMMA BarrierStep == BarrierInv /\ [Next]_vars => BarrierInv'
<1> SUFFICES ASSUME BarrierInv, [Next]_vars PROVE BarrierInv'
    OBVIOUS
<1>1. CASE UNCHANGED vars
    <2>1. UNCHANGED <<pc, epoch, next, head, end, token, consumed, previous, tail, menu, seed, peer, inputs, net>>
        BY <1>1 DEF vars, wire
    <2>2. Typed' /\ Wired' /\ \A m \in net' : Told(m)'
        BY <2>1 DEF BarrierInv, Typed, Wired, Told, Real, Plays
    <2>3. ASSUME NEW t \in Sides PROVE Own(t)' /\ Heard(t)' /\ Apart(t, Other(t))'
        <3>1. Own(t) /\ Heard(t) /\ Apart(t, Other(t))
            BY DEF BarrierInv
        <3>2. Own(t)'
            BY <2>1, <3>1
            DEF Own, Place, Captured, Counted, Remembered, Waited, Plays, End, Passed, EndAt
        <3>3. Heard(t)' /\ Apart(t, Other(t))'
            BY <2>1, <3>1 DEF Heard, Real, Apart, Plays, Passed, EndAt
        <3> QED
            BY <3>2, <3>3
    <2> QED
        BY <2>2, <2>3 DEF BarrierInv
<1>2. CASE Next
    BY <1>2, GoesOn, Publishes, Captures, Reuses, PlaysOn, Begins, BeginsMenu, Sends, Receives
    DEF Next, GameThread
<1> QED
    BY <1>1, <1>2

\* The inductive invariant: what is known of the other side is old but never wrong,
\* and who is ahead has left the epoch as the other side needs it.
THEOREM BarrierInvariant == Spec => []BarrierInv
<1> QED
    BY BarrierInit, BarrierStep, PTL DEF Spec


\* Epochs, frames and what is remembered and received of them have their types.
THEOREM BarrierTypes == Spec => []TypeOK
<1>1. BarrierInv => TypeOK
    <2> SUFFICES ASSUME BarrierInv PROVE TypeOK
        OBVIOUS
    <2>1. Typed /\ Wired /\ \A s \in Sides : Own(s)
        BY DEF BarrierInv
    <2>2. \A s \in Sides : consumed[s] \in Nat /\ previous[s] \in Nat /\ peer[s].consumed \in Nat
        BY <2>1, Numbers DEF Wired, Received
    <2>3. \A s \in Sides : pc[s] \in {"Play", "Seed", "Barrier", "Menu"} => token[s] = epoch[s]
        BY <2>1 DEF Own, Place
    <2>4. pc[Host] \in {"Play", "Barrier"} => seed = epoch[Host]
        BY <2>1 DEF Own, Place, Sides
    <2>5. pc \in [Sides -> {"Leave", "Menu", "Begun", "Barrier", "Seed", "Play", "Failed"}]
        BY <2>1 DEF Typed
    <2> QED
        BY <2>1, <2>2, <2>3, <2>4, <2>5 DEF TypeOK, Typed
<1> QED
    BY <1>1, BarrierInvariant, PTL

\* However long one side stays in a round, whatever is lost or late: nobody plays a
\* round before the other side has come to it, and the two are one epoch apart at most.
THEOREM AlwaysEnteredTogether == Spec => []EnteredTogether
<1>1. BarrierInv => EnteredTogether
    <2> SUFFICES ASSUME BarrierInv, NEW s \in Sides
                 PROVE  /\ pc[s] \in {"Seed", "Play"} => token[Other(s)] >= epoch[s]
                        /\ epoch[s] <= epoch[Other(s)] + 1
        BY DEF EnteredTogether
    <2> DEFINE o == Other(s)
    <2>1. Typed /\ Wired /\ Own(s) /\ Heard(s) /\ Apart(s, o) /\ o \in Sides
        BY TwoSides DEF BarrierInv
    <2>2. ASSUME pc[s] \in {"Seed", "Play"} PROVE token[o] >= epoch[s]
        <3>1. peer[s].token >= epoch[s] /\ peer[s].token <= token[o]
            BY <2>1, <2>2 DEF Own, Waited, Heard
        <3>2. peer[s].token \in Nat /\ token[o] \in Nat /\ epoch[s] \in Nat
            BY <2>1, Numbers DEF Wired, Received
        <3> QED
            BY <3>1, <3>2
    <2> QED
        BY <2>1, <2>2 DEF Apart
<1> QED
    BY <1>1, BarrierInvariant, PTL

\* Nobody takes the other side for one that breaks the protocol.
THEOREM NeverFalseAlarm == Spec => []NoFalseAlarm
<1>1. BarrierInv => NoFalseAlarm
    BY DEF BarrierInv, Typed, NoFalseAlarm
<1> QED
    BY <1>1, BarrierInvariant, PTL

\* The game leaves a battle for the next round or for the rematch menu: another
\* independent menu comes first of all or after a menu.
RematchFirst ==
    \A e \in Epochs :
        e + 1 \in Epochs /\ Independent(e + 1) /\ Phases[e + 1] # "Retry" => Independent(e)

\* Where the other side is when it sends no more what s needs: it has ended the round
\* earlier, or is in the rematch menu with too little of it.
LEMMA WhyStranded ==
    ASSUME BarrierInv, RematchFirst, NEW s \in Sides, Stranded(s), NEW o \in Sides, o = Other(s)
    PROVE  /\ epoch[s] < Len(Phases) /\ Phases[epoch[s] + 1] = "Retry" /\ Plays(s)
           /\ \/ end[o] < end[s]
              \/ epoch[o] = epoch[s] + 1 /\ ~Plays(o) /\ next[s] + tail[o] < end[o]
<1> DEFINE e == epoch[s]
<1>0. /\ Typed /\ Wired /\ Own(s) /\ Own(o) /\ Heard(o) /\ Apart(o, s) /\ Other(o) = s
      /\ e \in 0 .. Len(Phases) /\ epoch[o] \in 0 .. Len(Phases) /\ e \in Nat /\ epoch[o] \in Nat
      /\ next[s] \in Nat /\ token[o] \in Nat /\ token[s] \in Nat /\ head[o] \in Nat
      /\ end[s] \in Nat /\ end[o] \in Nat /\ tail[o] \in Nat
    <2>1. Typed /\ Wired /\ Own(s) /\ Own(o) /\ Heard(o) /\ Apart(o, s) /\ Other(s) = o /\ Other(o) = s
        BY TwoSides DEF BarrierInv
    <2>2. /\ e \in 0 .. Len(Phases) /\ epoch[o] \in 0 .. Len(Phases) /\ e \in Nat /\ epoch[o] \in Nat
          /\ next[s] \in Nat /\ token[o] \in Nat /\ token[s] \in Nat /\ head[o] \in Nat
        BY <2>1, Numbers DEF Typed
    <2>3. end[s] \in Frames .. Frames + Late /\ end[o] \in Frames .. Frames + Late /\ tail[o] \in 0 .. Window
        BY <2>1 DEF Typed
    <2>4. end[s] \in Nat /\ end[o] \in Nat /\ tail[o] \in Nat
        BY <2>3, Sizes
    <2> QED
        BY <2>1, <2>2, <2>4
<1>1. pc[s] = "Play" /\ Plays(s) /\ e \in Epochs /\ e > 0 /\ ~Independent(e) /\ token[s] = e
    BY <1>0, Kind DEF Own, Place, Plays, Stranded
<1>2. PICK f \in next[s] + 1 .. End(s) : ~StillComes(o, e, f)
    BY DEF Stranded
<1>3. /\ End(s) \in Frames .. Frames + Late /\ End(s) \in Nat /\ End(s) = EndAt(s, e)
      /\ EndAt(o, e) \in Frames .. Frames + Late /\ EndAt(o, e) \in Nat /\ EndAt(o, e) > 0
      /\ Base(e) \in Nat
    <2>1. /\ End(s) = EndAt(s, e) /\ EndAt(s, e) \in Frames .. Frames + Late
          /\ EndAt(o, e) \in Frames .. Frames + Late /\ Base(e) \in Nat
        BY <1>0, Passes DEF End, EndAt
    <2> QED
        BY <2>1, Sizes
<1>4. f \in Nat /\ f <= End(s) /\ next[s] < f
    BY <1>0, <1>2, <1>3
<1> HIDE DEF e
\* Ends differ before a rematch only.
<1>5. ASSUME EndAt(o, e) < EndAt(s, e)
      PROVE  e < Len(Phases) /\ Phases[e + 1] = "Retry" /\ end[o] < end[s]
    BY <1>0, <1>5, Sizes DEF EndAt
<1>6. ASSUME f > EndAt(o, e)
      PROVE  e < Len(Phases) /\ Phases[e + 1] = "Retry" /\ end[o] < end[s]
    BY <1>3, <1>4, <1>5, <1>6
<1>7. e <= epoch[o] /\ epoch[o] <= e + 1
    <2>1. ~(epoch[o] < e)
        BY <1>2 DEF StillComes
    <2>2. epoch[o] <= e + 1
        BY <1>0 DEF Apart, e
    <2> QED
        BY <1>0, <2>1, <2>2
<1>8. CASE epoch[o] = e
    <2>1. Plays(o) /\ End(o) = EndAt(o, e)
        BY <1>1, <1>8 DEF Plays, End, EndAt
    <2>2. pc[o] = "Leave"
        <3>1. pc[o] \notin {"Begun", "Barrier", "Seed", "Play"}
            BY <1>2, <1>8 DEF StillComes
        <3>2. pc[o] # "Menu"
            BY <1>0, <2>1 DEF Own, Place
        <3> QED
            BY <1>0, <3>1, <3>2 DEF Typed
    <2>3. next[o] = EndAt(o, e) /\ head[o] >= EndAt(o, e)
        <3>1. next[o] = End(o) /\ head[o] \in next[o] + Lookahead .. next[o] + Lookahead + 1 + Backlog
            BY <1>0, <2>1, <2>2 DEF Own, Captured
        <3>2. PICK n \in Nat : n = next[o] /\ n = EndAt(o, e)
            BY <1>3, <2>1, <3>1
        <3>3. head[o] >= n
            BY ONLY <3>1, <3>2, <1>0, Sizes
        <3> QED
            BY <3>2, <3>3
    <2>4. token[o] = e
        BY <1>0, <1>8, <2>2 DEF Own, Place
    <2>5. ~(f <= head[o])
        BY <1>0, <1>2, <1>8, <2>4 DEF StillComes
    <2>6. f > EndAt(o, e)
        BY <1>0, <1>3, <1>4, <2>3, <2>5
    <2> QED
        BY <1>1, <1>6, <2>6 DEF e
<1>9. CASE epoch[o] = e + 1 /\ Plays(o)
    <2>1. consumed[s] >= Passed(o, e)
        BY <1>0, <1>1, <1>9 DEF Apart, e
    <2>2. Passed(o, e) = Base(e) + EndAt(o, e)
        BY <1>1 DEF Passed
    <2>3. consumed[s] < Base(e) \/ consumed[s] = Base(e) + next[s]
        BY <1>1, CountedHere DEF e
    <2>4. consumed[s] \in Nat
        BY <1>0, Numbers
    <2>5. f > EndAt(o, e)
        BY <1>0, <1>3, <1>4, <2>1, <2>2, <2>3, <2>4
    <2> QED
        BY <1>1, <1>6, <2>5 DEF e
<1>10. CASE epoch[o] = e + 1 /\ ~Plays(o)
    <2>1. e + 1 \in Epochs /\ e < Len(Phases) /\ Independent(e + 1)
        BY <1>0, <1>1, <1>10, Kind DEF Plays
    <2>2. Phases[e + 1] = "Retry"
        BY <1>1, <2>1 DEF RematchFirst
    <2>3. EndAt(o, e) = end[o] /\ EndAt(s, e) = end[s] /\ head[o] >= end[o]
        <3>1. EndAt(o, e) = end[o] /\ EndAt(s, e) = end[s]
            BY <2>1, <2>2 DEF EndAt
        <3>2. head[o] >= EndAt(o, e)
            BY <1>0, <1>1, <1>10 DEF Apart, e
        <3> QED
            BY <3>1, <3>2
    <2>4. CASE pc[o] = "Begun"
        <3>1. token[o] = e
            BY <1>0, <1>1, <1>10, <2>4, Kind DEF Own, Place
        <3>2. ~(f <= head[o])
            BY <1>2, <1>10, <2>1, <3>1 DEF StillComes
        <3>3. f > EndAt(o, e)
            BY <1>0, <1>4, <2>3, <3>2
        <3> QED
            BY <1>1, <1>6, <3>3 DEF e
    <2>5. CASE pc[o] # "Begun"
        <3>1. token[o] = e + 1 /\ token[o] > e
            BY <1>0, <1>10, <2>5 DEF Own, Place
        <3>2. previous[o] = Base(e) + end[o] /\ previous[o] > 0
            <4>1. epoch[o] > 0 /\ epoch[o] - 1 = e /\ Phases[epoch[o]] = "Retry"
                BY <1>0, <1>1, <1>10, <2>2, Kind
            <4>2. previous[o] = Passed(o, epoch[o] - 1)
                BY <1>0, <1>10, <4>1 DEF Own, Remembered
            <4>3. Passed(o, e) = Base(e) + EndAt(o, e)
                BY <1>1 DEF Passed
            <4> QED
                BY <1>3, <2>3, <4>1, <4>2, <4>3
        <3>3. SendsTail(o)
            <4>1. peer[o].token <= token[s] /\ peer[o].token \in Nat
                BY <1>0 DEF Heard, Wired, Received
            <4> QED
                BY <1>0, <1>1, <2>2, <3>1, <3>2, <4>1 DEF SendsTail
        <3>4. EpochOf(previous[o]) = e /\ previous[o] % Stride = end[o]
            <4>1. end[o] \in 0 .. Stride - 1
                BY <1>3, <2>3, Sizes
            <4> QED
                BY <1>1, <3>2, <4>1, Decomposed
        <3>5. Inputs(o, FALSE) = [epoch |-> e, frames |-> UpTo(end[o], tail[o])]
            BY <1>0, <2>1, <3>1, <3>3, <3>4 DEF Inputs
        <3>6. f \notin UpTo(end[o], tail[o])
            <4>1. Inputs(o, FALSE).epoch = e /\ Inputs(o, FALSE).frames = UpTo(end[o], tail[o])
                <5>1. PICK F : F = UpTo(end[o], tail[o])
                    OBVIOUS
                <5>2. Inputs(o, FALSE) = [epoch |-> e, frames |-> F]
                    BY <3>5, <5>1
                <5>3. [epoch |-> e, frames |-> F].epoch = e /\ [epoch |-> e, frames |-> F].frames = F
                    OBVIOUS
                <5> QED
                    BY <5>1, <5>2, <5>3, Zenon
            <4>2. ~(token[o] > e /\ SendsTail(o) /\ Inputs(o, FALSE).epoch = e
                    /\ f \in Inputs(o, FALSE).frames)
                BY ONLY <1>2 DEF StillComes
            <4> QED
                BY <3>1, <3>3, <4>1, <4>2
        <3>7. f > end[o] \/ f <= end[o] - tail[o]
            BY <1>0, <1>4, <3>6 DEF UpTo
        <3>8. CASE f > end[o]
            BY <1>1, <1>6, <2>3, <3>8 DEF e
        <3>9. CASE f <= end[o] - tail[o]
            <4>1. next[s] + tail[o] < end[o]
                BY <1>0, <1>4, <3>9
            <4> QED
                BY <1>1, <1>10, <2>1, <2>2, <4>1 DEF e
        <3> QED
            BY <3>7, <3>8, <3>9
    <2> QED
        BY <2>4, <2>5
<1> QED
    BY <1>0, <1>7, <1>8, <1>9, <1>10

\* Nobody who still plays a round waits for an input that is neither there nor going to
\* be sent, but if the rematch follows and the other side has ended the round earlier or
\* holds only inputs that begin after the next frame: the drain lets nobody take an input
\* along into the next round, and of the end of the last round what the ring holds is sent.
THEOREM OnlyRematchStrands ==
    ASSUME RematchFirst
    PROVE  Spec => []StrandedByRematchOnly
<1>1. BarrierInv => StrandedByRematchOnly
    <2> SUFFICES ASSUME BarrierInv, NEW s \in Sides, Stranded(s) PROVE LeftBehind(s)
        BY DEF StrandedByRematchOnly
    <2>1. PICK o \in Sides : o = Other(s)
        BY TwoSides
    <2> QED
        BY <2>1, WhyStranded DEF LeftBehind
<1> QED
    BY <1>1, BarrierInvariant, PTL

\* If no side ever stays longer in a round, and a packet holds more inputs than a side can
\* be behind and the menu's inputs overwrite, nobody is ever stranded.
THEOREM NobodyIsStranded ==
    ASSUME RematchFirst, Late = 0, Lookahead + Backlog + Reused < Window
    PROVE  Spec => []NobodyStranded
<1>1. BarrierInv => NobodyStranded
    <2> SUFFICES ASSUME BarrierInv, NEW s \in Sides, Stranded(s) PROVE FALSE
        BY DEF NobodyStranded
    <2>1. PICK o \in Sides : o = Other(s) /\ s = Other(o)
        BY TwoSides
    <2>2. /\ Phases[epoch[s] + 1] = "Retry" /\ epoch[s] < Len(Phases) /\ Plays(s)
          /\ end[o] < end[s] \/ (epoch[o] = epoch[s] + 1 /\ ~Plays(o) /\ next[s] + tail[o] < end[o])
        BY <2>1, WhyStranded
    <2>3. /\ Typed /\ Own(s) /\ Own(o) /\ Apart(o, s) /\ epoch[s] \in Nat
          /\ next[s] \in Nat /\ head[s] \in Nat /\ tail[o] \in 0 .. Window
        <3>1. Typed /\ Own(s) /\ Own(o) /\ Apart(o, s)
            BY <2>1, TwoSides DEF BarrierInv
        <3>2. epoch[s] \in Nat /\ next[s] \in Nat /\ head[s] \in Nat
            BY <3>1, Numbers
        <3>3. tail[o] \in 0 .. Window
            BY <3>1 DEF Typed
        <3> QED
            BY <3>1, <3>2, <3>3
    <2>4. end[o] = Frames /\ end[s] = Frames
        BY <2>3, Sizes DEF Typed
    <2>5. epoch[o] = epoch[s] + 1 /\ ~Plays(o) /\ next[s] + tail[o] < end[o]
        BY <2>2, <2>4, Sizes
    <2>6. tail[o] >= Window - Reused
        <3>1. Phases[epoch[o]] = "Retry" /\ epoch[o] > 0
            BY <2>2, <2>3, <2>5
        <3> QED
            BY <2>3, <2>5, <3>1 DEF Own, Remembered
    <2>7. head[s] >= end[o]
        <3>1. EndAt(o, epoch[s]) = end[o]
            BY <2>2 DEF EndAt
        <3>2. epoch[o] > epoch[s]
            BY <2>3, <2>5
        <3>3. head[s] >= EndAt(o, epoch[s])
            BY <2>2, <2>3, <3>2 DEF Apart
        <3> QED
            BY <3>1, <3>3
    <2>8. head[s] \in next[s] + Lookahead .. next[s] + Lookahead + 1 + Backlog
        BY <2>2, <2>3 DEF Own, Captured
    <2> QED
        BY <2>3, <2>4, <2>5, <2>6, <2>7, <2>8, Sizes
<1> QED
    BY <1>1, BarrierInvariant, PTL
===============================================================================
