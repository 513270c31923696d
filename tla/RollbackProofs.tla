--------------------------- MODULE RollbackProofs ---------------------------
(***************************************************************************)
(* Proofs about the rollback of a battle: for all games, inputs, rings and *)
(* limits that ConstantsAssumption admits no replay finds its snapshot or  *)
(* its history overwritten, the confirmed frames are those of the real     *)
(* inputs, and what is published is a lockstep game.                       *)
(*                                                                         *)
(* The argument is about the history alone (Core): which inputs are        *)
(* recorded, which world they led to and which snapshots agree with it.    *)
(* Four things happen to it, each a lemma: it is compared with what is     *)
(* known (Reconciled), a snapshot is restored (Restored), a frame is       *)
(* simulated again (Resimulated) and a frame is simulated (Simulated).     *)
(* Every action of the game thread is made of these.                       *)
(***************************************************************************)
EXTENDS Rollback, WellFoundedInduction, SequenceTheorems, TLAPS

-----------------------------------------------------------------------------
(* Extremes *)

LEMMA LeastNatural ==
    ASSUME NEW S \in SUBSET Nat, S # {}
    PROVE  \E x \in S : \A y \in S : x <= y
<1> DEFINE R == OpToRel(<, Nat)
<1>1. \A x, y \in Nat : x < y => <<x, y>> \in R
    BY DEF OpToRel
<1>2. IsWellFoundedOn(R, Nat)
    BY NatLessThanWellFounded, Zenon
<1> HIDE DEF R
<1>3. PICK x \in S : \A y \in S : ~(<<y, x>> \in R)
    BY <1>2, WFMin
<1>4. \A y \in S : x <= y
    <2> TAKE y \in S
    <2>1. x \in Nat /\ y \in Nat
        OBVIOUS
    <2>2. ~(y < x)
        BY <1>1, <1>3, <2>1
    <2> QED
        BY <2>1, <2>2
<1> QED
    BY <1>4

\* A set of integers with an upper bound has a greatest element.
LEMMA Greatest ==
    ASSUME NEW S \in SUBSET Int, S # {}, NEW m \in Int, \A x \in S : x <= m
    PROVE  Max(S) \in S /\ \A y \in S : y <= Max(S)
<1> DEFINE T == {m - x : x \in S}
<1>1. T \in SUBSET Nat
    <2> SUFFICES ASSUME NEW x \in S PROVE m - x \in Nat
        OBVIOUS
    <2>1. x \in Int /\ x <= m
        OBVIOUS
    <2> QED
        BY <2>1
<1>2. T # {}
    OBVIOUS
<1> HIDE DEF T
<1>3. PICK t \in T : \A u \in T : t <= u
    BY <1>1, <1>2, LeastNatural
<1>4. PICK x \in S : t = m - x
    BY DEF T
<1>5. \A y \in S : x >= y
    <2> TAKE y \in S
    <2>1. m - x <= m - y
        BY <1>3, <1>4 DEF T
    <2>2. x \in Int /\ y \in Int
        OBVIOUS
    <2> QED
        BY <2>1, <2>2
<1>6. \E z \in S : \A y \in S : z >= y
    BY <1>5
<1>7. Max(S) \in S /\ \A y \in S : Max(S) >= y
    BY <1>6 DEF Max
<1> QED
    <2> SUFFICES ASSUME NEW y \in S PROVE y <= Max(S)
        BY <1>7
    <2>1. y \in Int /\ Max(S) \in Int
        BY <1>7
    <2> QED
        BY <1>7, <2>1

\* A set of natural numbers has a least element.
LEMMA LeastOfNaturals ==
    ASSUME NEW S \in SUBSET Nat, S # {}
    PROVE  Min(S) \in S /\ \A y \in S : Min(S) <= y
BY LeastNatural DEF Min

-----------------------------------------------------------------------------
(* Slots *)

LEMMA DivMod ==
    ASSUME NEW f \in Nat, NEW n \in Nat, n > 0
    PROVE  f \div n \in Int /\ f % n \in 0 .. n - 1 /\ f = n * (f \div n) + (f % n)
OBVIOUS

LEMMA Distributes == ASSUME NEW a \in Int, NEW b \in Int, NEW n \in Int PROVE n * b - n * a = n * (b - a)
OBVIOUS

LEMMA PositiveMultiple ==
    ASSUME NEW q \in Int, NEW n \in Nat, n > 0, n * q > 0
    PROVE  n * q >= n
<1>1. q >= 1
    OBVIOUS
<1> QED
    BY <1>1

\* Every frame has a slot.
LEMMA SlotType == \A f \in Nat : Slot(f) \in 0 .. Slots - 1
BY ConstantsAssumption, DivMod DEF Slot

\* Two frames that share a slot are a ring apart.
LEMMA SlotsApart ==
    ASSUME NEW f \in Nat, NEW g \in Nat, f < g, g < f + Slots
    PROVE  Slot(f) # Slot(g)
<1> SUFFICES ASSUME Slot(f) = Slot(g) PROVE FALSE
    OBVIOUS
<1> DEFINE a == f \div Slots
           b == g \div Slots
           x == Slots * a
           y == Slots * b
           z == f % Slots
<1>0. Slots \in Nat /\ Slots > 0
    BY ConstantsAssumption
<1>1. a \in Int /\ b \in Int /\ x \in Int /\ y \in Int /\ z \in Int
    BY <1>0, DivMod
<1>2. f = x + z /\ g = y + z
    BY <1>0, DivMod DEF Slot
<1>3. y - x = Slots * (b - a)
    BY <1>0, <1>1, Distributes
<1> HIDE DEF a, b, x, y, z
<1>4. g - f = Slots * (b - a)
    BY <1>1, <1>2, <1>3
<1>5. b - a \in Int /\ Slots * (b - a) > 0
    BY <1>1, <1>4
<1>6. Slots * (b - a) >= Slots
    BY <1>0, <1>5, PositiveMultiple
<1> QED
    BY <1>0, <1>4, <1>6

\* The lanes reach beyond the last frame.
LEMMA LaneEndType == LaneEnd \in Int /\ LaneEnd >= Frames
<1> DEFINE S == Aheads \cup {0}
<1>2. S \in SUBSET Int /\ S # {} /\ 0 \in S /\ MaxDelay \in Int /\ \A x \in S : x <= MaxDelay
    BY ConstantsAssumption DEF MaxDelay
<1> HIDE DEF S
<1>3. Max(S) \in S /\ \A y \in S : y <= Max(S)
    BY <1>2, Greatest
<1>4. Max(S) \in Int /\ Max(S) >= 0
    BY <1>2, <1>3
<1> QED
    BY <1>4, ConstantsAssumption DEF LaneEnd, S

-----------------------------------------------------------------------------
(* The history *)

\* What frame f is fed with in the real game.
Real(f) == <<Local(f), Remote(f)>>

\* What history h says frame f was fed with.
Used(h, f) == <<h[Slot(f)].local, h[Slot(f)].remote>>

\* Frame f has been recorded with its real inputs.
Exact(h, f) == BothKnown(f) /\ Used(h, f) = Real(f)

\* There is a snapshot of the world that frame f was simulated on.
Snapped(s, f, w) ==
    /\ s[Slot(f)].frame = f
    /\ Len(s[Slot(f)].world) = f - 1
    /\ \A i \in 1 .. f - 1 : s[Slot(f)].world[i] = w[i]

\* The last frame of world w that is as recorded, when a replay is due at p.
Valid(w, p) == IF p = 0 THEN Len(w) ELSE p - 1

EntrySet == [frame : 0 .. Frames, local : Inputs, remote : Inputs]
SnapSet == [frame : 0 .. Frames, world : Worlds]

HistoryTypes(w, h, s, c, n, p) ==
    /\ w \in Worlds /\ Len(w) <= n - 1
    /\ h \in [0 .. Slots - 1 -> EntrySet]
    /\ s \in [0 .. Slots - 1 -> SnapSet]
    /\ n \in 1 .. Frames + 1
    /\ c \in 0 .. n - 1
    /\ p \in 0 .. n - 1

\* How far things are apart; what may have to be replayed lies in the rings.
Distances(w, c, n, p) ==
    /\ n - c <= Limit + 1
    /\ n - Valid(w, p) <= Limit + 1
    /\ p # 0 => Len(w) = n - 1

Recent(h, n) == \A f \in 1 .. n - 1 : n <= f + Slots => h[Slot(f)].frame = f

\* What is confirmed has been recorded and simulated with the real inputs.
ConfirmedReal(w, h, c, n, p) ==
    \A f \in 1 .. c :
        /\ BothKnown(f)
        /\ n <= f + Slots => Used(h, f) = Real(f)
        /\ f <= Valid(w, p) => w[f] = Real(f)

\* What is not confirmed has been simulated as recorded.
SimulatedAsUsed(w, h, c, n, p) ==
    \A f \in c + 1 .. n - 1 : f <= Valid(w, p) => w[f] = Used(h, f)

\* What may have to be replayed can be restored.
Restorable(w, h, s, c, n, p) ==
    /\ \A f \in c + 1 .. n - 1 : f <= Len(w) => Snapped(s, f, w) \/ Exact(h, f)
    /\ p # 0 => Snapped(s, p, w)

Core(w, h, s, c, n, p) ==
    /\ HistoryTypes(w, h, s, c, n, p)
    /\ Distances(w, c, n, p)
    /\ Recent(h, n)
    /\ ConfirmedReal(w, h, c, n, p)
    /\ SimulatedAsUsed(w, h, c, n, p)
    /\ Restorable(w, h, s, c, n, p)

-----------------------------------------------------------------------------
(* What happens to it *)

\* A snapshot is restored: the replay has begun.
LEMMA Restored ==
    ASSUME NEW w, NEW h, NEW s, NEW c, NEW n, NEW p,
           Core(w, h, s, c, n, p), p # 0
    PROVE  /\ s[Slot(p)].frame = p
           /\ Len(s[Slot(p)].world) = p - 1
           /\ Core(s[Slot(p)].world, h, s, c, n, 0)
<1> DEFINE v == s[Slot(p)].world
<1>1. HistoryTypes(w, h, s, c, n, p) /\ p \in 1 .. n - 1 /\ n \in Nat /\ c \in Nat
    BY ConstantsAssumption DEF Core, HistoryTypes
<1>2. Snapped(s, p, w)
    BY DEF Core, Restorable
<1>3. s[Slot(p)] \in SnapSet
    BY <1>1, SlotType DEF HistoryTypes
<1>4. v \in Worlds /\ Len(v) = p - 1 /\ \A i \in 1 .. p - 1 : v[i] = w[i]
    BY <1>2, <1>3 DEF SnapSet, Snapped
<1> HIDE DEF v
<1>5. HistoryTypes(v, h, s, c, n, 0)
    BY <1>1, <1>4 DEF HistoryTypes
<1>6. Distances(v, c, n, 0)
    BY <1>1, <1>4 DEF Core, Distances, Valid
<1>7. ConfirmedReal(v, h, c, n, 0)
    BY <1>1, <1>4 DEF Core, ConfirmedReal, Valid
<1>8. SimulatedAsUsed(v, h, c, n, 0)
    BY <1>1, <1>4 DEF Core, SimulatedAsUsed, Valid
<1>9. Restorable(v, h, s, c, n, 0)
    <2>1. Len(w) = n - 1
        BY <1>1 DEF Core, Distances
    <2> SUFFICES ASSUME NEW f \in c + 1 .. n - 1, f <= Len(v) PROVE Snapped(s, f, v) \/ Exact(h, f)
        BY DEF Restorable
    <2>2. Snapped(s, f, w) \/ Exact(h, f)
        BY <2>1, <1>1 DEF Core, Restorable
    <2>3. \A i \in 1 .. f - 1 : w[i] = v[i]
        BY <1>1, <1>4
    <2>4. Snapped(s, f, w) => Snapped(s, f, v)
        BY <2>3 DEF Snapped
    <2> QED
        BY <2>2, <2>4
<1> QED
    BY <1>2, <1>4, <1>5, <1>6, <1>7, <1>8, <1>9 DEF Core, Snapped, v

\* Ring y is ring x with e in slot a.
Puts(x, y, a, e, E) ==
    /\ y \in [0 .. Slots - 1 -> E]
    /\ y[a] = e
    /\ \A b \in 0 .. Slots - 1 : b # a => y[b] = x[b]

LEMMA Overwritten ==
    ASSUME NEW E, NEW x \in [0 .. Slots - 1 -> E], NEW a \in 0 .. Slots - 1, NEW e \in E
    PROVE  Puts(x, [x EXCEPT ![a] = e], a, e, E)
BY DEF Puts

\* The slots of the frames that are in the rings together with frame f.
LEMMA SlotsBeside ==
    ASSUME NEW f \in 1 .. Frames, NEW n \in Nat, f < n, n < f + Slots
    PROVE  /\ Slot(f) \in 0 .. Slots - 1
           /\ \A g \in 1 .. n - 1 :
                 /\ Slot(g) \in 0 .. Slots - 1
                 /\ n <= g + Slots /\ g # f => Slot(g) # Slot(f)
<1>1. f \in Nat /\ \A g \in 1 .. n - 1 : g \in Nat
    BY ConstantsAssumption
<1>2. Slot(f) \in 0 .. Slots - 1
    BY <1>1, SlotType
<1>3. \A g \in 1 .. n - 1 : Slot(g) \in 0 .. Slots - 1
    BY <1>1, SlotType
<1>4. ASSUME NEW g \in 1 .. n - 1, n <= g + Slots, g # f PROVE Slot(g) # Slot(f)
    <2>1. g \in Nat /\ f < g + Slots /\ g < f + Slots /\ (f < g \/ g < f)
        BY <1>4, <1>1, ConstantsAssumption
    <2> QED
        BY <1>1, <2>1, SlotsApart
<1> QED
    BY <1>2, <1>3, <1>4

\* What is recorded of a frame goes into its slot.
LEMMA RecordedAt ==
    ASSUME NEW h \in [0 .. Slots - 1 -> EntrySet], NEW l \in Inputs, NEW r \in Inputs,
           NEW f \in 1 .. Frames
    PROVE  Puts(h, Recorded(f, h, l, r), Slot(f), [frame |-> f, local |-> l, remote |-> r], EntrySet)
<1>1. [frame |-> f, local |-> l, remote |-> r] \in EntrySet
    BY ConstantsAssumption DEF EntrySet
<1>2. f \in Nat
    BY ConstantsAssumption
<1>3. Slot(f) \in 0 .. Slots - 1
    BY <1>2, SlotType
<1> QED
    BY <1>1, <1>3, Overwritten DEF Recorded

\* So does a snapshot.
LEMMA SavedAt ==
    ASSUME NEW w \in Worlds, snaps \in [0 .. Slots - 1 -> SnapSet], NEW f \in 1 .. Frames
    PROVE  Puts(snaps, Saved(f, w), Slot(f), [frame |-> f, world |-> w], SnapSet)
<1>1. [frame |-> f, world |-> w] \in SnapSet
    BY ConstantsAssumption DEF SnapSet
<1>2. f \in Nat
    BY ConstantsAssumption
<1>3. Slot(f) \in 0 .. Slots - 1
    BY <1>2, SlotType
<1> QED
    BY <1>1, <1>3, Overwritten DEF Saved

\* A world is fed with the inputs of one frame.
LEMMA Fed ==
    ASSUME NEW w \in Worlds, NEW l \in Inputs, NEW r \in Inputs
    PROVE  /\ Append(w, <<l, r>>) \in Worlds
           /\ Len(Append(w, <<l, r>>)) = Len(w) + 1
           /\ Append(w, <<l, r>>)[Len(w) + 1] = <<l, r>>
           /\ \A i \in 1 .. Len(w) : Append(w, <<l, r>>)[i] = w[i]
<1>1. w \in Seq(Inputs \X Inputs) /\ <<l, r>> \in Inputs \X Inputs
    BY DEF Worlds
<1> QED
    BY <1>1 DEF Worlds

\* A frame is simulated again.
LEMMA Resimulated ==
    ASSUME NEW w, NEW h, NEW c \in Nat, NEW n \in Nat, NEW l \in Inputs, NEW r \in Inputs,
           NEW f \in 1 .. Frames,
           Core(w, h, snaps, c, n, 0), f = Len(w) + 1, f < n,
           LocalKnown(f) => l = Local(f), RemoteKnown(f) => r = Remote(f)
    PROVE  Core(Append(w, <<l, r>>), Recorded(f, h, l, r),
                IF NeedsReplaySnapshot(f, c) THEN Saved(f, w) ELSE snaps, c, n, 0)
<1> DEFINE v == Append(w, <<l, r>>)
           k == Recorded(f, h, l, r)
           t == IF NeedsReplaySnapshot(f, c) THEN Saved(f, w) ELSE snaps
<1>1. HistoryTypes(w, h, snaps, c, n, 0) /\ n \in Nat /\ c \in Nat /\ Len(w) \in Nat /\ f \in 1 .. Frames
    BY ConstantsAssumption DEF Core, HistoryTypes, Worlds
<1>2. n <= f + Limit /\ n < f + Slots
    BY <1>1, ConstantsAssumption DEF Core, Distances, Valid
<1>3. v \in Worlds /\ Len(v) = f /\ v[f] = <<l, r>> /\ \A i \in 1 .. f - 1 : v[i] = w[i]
    <2>1. w \in Worlds /\ Len(w) = f - 1
        BY <1>1 DEF HistoryTypes
    <2>2. v \in Worlds /\ Len(v) = Len(w) + 1 /\ v[Len(w) + 1] = <<l, r>> /\ \A i \in 1 .. Len(w) : v[i] = w[i]
        BY <2>1, Fed
    <2> QED
        BY <1>1, <2>1, <2>2
<1>4. h \in [0 .. Slots - 1 -> EntrySet] /\ snaps \in [0 .. Slots - 1 -> SnapSet] /\ w \in Worlds
    BY <1>1 DEF HistoryTypes
<1>a. Puts(h, k, Slot(f), [frame |-> f, local |-> l, remote |-> r], EntrySet)
    BY <1>1, <1>4, RecordedAt
<1>b. f > c => Puts(snaps, t, Slot(f), [frame |-> f, world |-> w], SnapSet)
    BY <1>1, <1>4, SavedAt DEF NeedsReplaySnapshot
<1>c. ~(f > c) => t = snaps
    BY DEF NeedsReplaySnapshot
<1> HIDE DEF v, k, t
<1>d. \A g \in 1 .. n - 1 : Slot(g) \in 0 .. Slots - 1 /\ (n <= g + Slots /\ g # f => Slot(g) # Slot(f))
    BY <1>1, <1>2, SlotsBeside
<1>5. /\ k \in [0 .. Slots - 1 -> EntrySet]
      /\ k[Slot(f)] = [frame |-> f, local |-> l, remote |-> r]
      /\ \A g \in 1 .. n - 1 : n <= g + Slots /\ g # f => k[Slot(g)] = h[Slot(g)]
    BY <1>a, <1>d DEF Puts
<1>6. /\ t \in [0 .. Slots - 1 -> SnapSet]
      /\ f > c => t[Slot(f)] = [frame |-> f, world |-> w]
      /\ \A g \in 1 .. n - 1 : n <= g + Slots /\ g # f => t[Slot(g)] = snaps[Slot(g)]
    <2>1. CASE f > c
        BY <2>1, <1>b, <1>d DEF Puts
    <2>2. CASE ~(f > c)
        BY <2>2, <1>4, <1>c
    <2> QED
        BY <2>1, <2>2
<1>7. HistoryTypes(v, k, t, c, n, 0)
    BY <1>1, <1>3, <1>5, <1>6 DEF HistoryTypes
<1>8. Distances(v, c, n, 0)
    BY <1>1, <1>2, <1>3, ConstantsAssumption DEF Core, Distances, Valid
<1>9. Recent(k, n)
    BY <1>1, <1>5 DEF Core, Recent
<1>10. Used(k, f) = <<l, r>> /\ \A g \in 1 .. n - 1 : n <= g + Slots /\ g # f => Used(k, g) = Used(h, g)
    BY <1>5 DEF Used
<1>11. ConfirmedReal(v, k, c, n, 0)
    <2> SUFFICES ASSUME NEW g \in 1 .. c
                 PROVE  /\ BothKnown(g)
                        /\ n <= g + Slots => Used(k, g) = Real(g)
                        /\ g <= Len(v) => v[g] = Real(g)
        BY DEF ConfirmedReal, Valid
    <2>1. /\ BothKnown(g)
          /\ n <= g + Slots => Used(h, g) = Real(g)
          /\ g <= Len(w) => w[g] = Real(g)
        BY DEF Core, ConfirmedReal, Valid
    <2>2. CASE g = f
        BY <2>1, <2>2, <1>3, <1>10 DEF BothKnown, Real
    <2>3. CASE g # f
        <3>1. g \in 1 .. n - 1 /\ (g <= Len(v) => g \in 1 .. f - 1 /\ g <= Len(w))
            BY <2>3, <1>1, <1>3 DEF HistoryTypes
        <3> QED
            BY <2>1, <2>3, <3>1, <1>3, <1>10
    <2> QED
        BY <2>2, <2>3
<1>12. SimulatedAsUsed(v, k, c, n, 0)
    <2> SUFFICES ASSUME NEW g \in c + 1 .. n - 1, g <= Len(v) PROVE v[g] = Used(k, g)
        BY DEF SimulatedAsUsed, Valid
    <2>1. g <= Len(w) => w[g] = Used(h, g)
        BY DEF Core, SimulatedAsUsed, Valid
    <2>2. n - c <= Limit + 1
        BY DEF Core, Distances
    <2>3. n <= g + Slots /\ g \in 1 .. n - 1
        BY <2>2, <1>1, ConstantsAssumption
    <2>4. g = f \/ g \in 1 .. f - 1
        BY <1>1, <1>3
    <2> QED
        BY <2>1, <2>3, <2>4, <1>1, <1>3, <1>10
<1>13. Restorable(v, k, t, c, n, 0)
    <2> SUFFICES ASSUME NEW g \in c + 1 .. n - 1, g <= Len(v) PROVE Snapped(t, g, v) \/ Exact(k, g)
        BY DEF Restorable
    <2>1. n - c <= Limit + 1
        BY DEF Core, Distances
    <2>2. n <= g + Slots /\ g \in 1 .. n - 1
        BY <2>1, <1>1, ConstantsAssumption
    <2>3. CASE g = f
        <3>1. t[Slot(f)] = [frame |-> f, world |-> w]
            BY <2>3, <1>1, <1>6
        <3> QED
            BY <2>3, <3>1, <1>1, <1>3 DEF Snapped
    <2>4. CASE g # f
        <3>1. g <= Len(w) /\ \A i \in 1 .. g - 1 : v[i] = w[i]
            BY <2>4, <1>1, <1>3
        <3>2. Snapped(snaps, g, w) \/ Exact(h, g)
            BY <3>1 DEF Core, Restorable
        <3>3. t[Slot(g)] = snaps[Slot(g)] /\ Used(k, g) = Used(h, g)
            BY <2>2, <2>4, <1>6, <1>10
        <3> QED
            BY <3>1, <3>2, <3>3 DEF Snapped, Exact
    <2> QED
        BY <2>3, <2>4
<1> QED
    BY <1>7, <1>8, <1>9, <1>11, <1>12, <1>13 DEF Core, v, k, t

\* A frame is simulated, with a snapshot if b.
LEMMA Simulated ==
    ASSUME NEW w, NEW h, NEW c \in Nat, NEW n \in 1 .. Frames, NEW l \in Inputs, NEW r \in Inputs,
           NEW b \in BOOLEAN,
           Core(w, h, snaps, c, n, 0), Len(w) = n - 1, n - c <= Limit,
           LocalKnown(n) => l = Local(n), RemoteKnown(n) => r = Remote(n),
           b \/ BothKnown(n)
    PROVE  Core(Append(w, <<l, r>>), Recorded(n, h, l, r),
                IF b THEN Saved(n, w) ELSE snaps, c, n + 1, 0)
<1> DEFINE v == Append(w, <<l, r>>)
           k == Recorded(n, h, l, r)
           t == IF b THEN Saved(n, w) ELSE snaps
           m == n + 1
<1>1. HistoryTypes(w, h, snaps, c, n, 0) /\ n \in 1 .. Frames /\ n \in Nat /\ c \in Nat /\ c < n
    BY ConstantsAssumption DEF Core, HistoryTypes
<1>2. m = n + 1 /\ n < m /\ m < n + Slots /\ m \in Nat /\ m \in 1 .. Frames + 1
    BY <1>1, ConstantsAssumption
<1>3. v \in Worlds /\ Len(v) = n /\ v[n] = <<l, r>> /\ \A i \in 1 .. n - 1 : v[i] = w[i]
    <2>1. w \in Worlds
        BY <1>1 DEF HistoryTypes
    <2>2. v \in Worlds /\ Len(v) = Len(w) + 1 /\ v[Len(w) + 1] = <<l, r>> /\ \A i \in 1 .. Len(w) : v[i] = w[i]
        BY <2>1, Fed
    <2> QED
        BY <1>1, <2>1, <2>2
<1>4. h \in [0 .. Slots - 1 -> EntrySet] /\ snaps \in [0 .. Slots - 1 -> SnapSet] /\ w \in Worlds
    BY <1>1 DEF HistoryTypes
<1>a. Puts(h, k, Slot(n), [frame |-> n, local |-> l, remote |-> r], EntrySet)
    BY <1>1, <1>4, RecordedAt
<1>b. b => Puts(snaps, t, Slot(n), [frame |-> n, world |-> w], SnapSet)
    BY <1>1, <1>4, SavedAt
<1>c. ~b => t = snaps
    OBVIOUS
<1> HIDE DEF v, k, t, m
<1>d. \A g \in 1 .. m - 1 : Slot(g) \in 0 .. Slots - 1 /\ (m <= g + Slots /\ g # n => Slot(g) # Slot(n))
    BY <1>1, <1>2, SlotsBeside
<1>5. /\ k \in [0 .. Slots - 1 -> EntrySet]
      /\ k[Slot(n)] = [frame |-> n, local |-> l, remote |-> r]
      /\ \A g \in 1 .. m - 1 : m <= g + Slots /\ g # n => k[Slot(g)] = h[Slot(g)]
    BY <1>a, <1>d DEF Puts
<1>6. /\ t \in [0 .. Slots - 1 -> SnapSet]
      /\ b => t[Slot(n)] = [frame |-> n, world |-> w]
      /\ \A g \in 1 .. m - 1 : m <= g + Slots /\ g # n => t[Slot(g)] = snaps[Slot(g)]
    <2>1. CASE b
        BY <2>1, <1>b, <1>d DEF Puts
    <2>2. CASE ~b
        BY <2>2, <1>4, <1>c
    <2> QED
        BY <2>1, <2>2
<1>7. HistoryTypes(v, k, t, c, m, 0)
    <2>1. Len(v) <= m - 1 /\ m \in 1 .. Frames + 1 /\ c \in 0 .. m - 1 /\ 0 \in 0 .. m - 1
        BY <1>1, <1>2, <1>3
    <2> QED
        BY <1>3, <1>5, <1>6, <2>1 DEF HistoryTypes
<1>8. Distances(v, c, m, 0)
    BY <1>1, <1>2, <1>3, ConstantsAssumption DEF Distances, Valid
<1>9. Recent(k, m)
    <2> SUFFICES ASSUME NEW g \in 1 .. m - 1, m <= g + Slots PROVE k[Slot(g)].frame = g
        BY DEF Recent
    <2>1. CASE g = n
        BY <2>1, <1>5
    <2>2. CASE g # n
        <3>1. g \in 1 .. n - 1 /\ n <= g + Slots
            BY <2>2, <1>1, <1>2, ConstantsAssumption
        <3> QED
            BY <2>2, <3>1, <1>5 DEF Core, Recent
    <2> QED
        BY <2>1, <2>2
<1>10. Used(k, n) = <<l, r>> /\ \A g \in 1 .. m - 1 : m <= g + Slots /\ g # n => Used(k, g) = Used(h, g)
    BY <1>5 DEF Used
<1>11. ConfirmedReal(v, k, c, m, 0)
    <2> SUFFICES ASSUME NEW g \in 1 .. c
                 PROVE  /\ BothKnown(g)
                        /\ m <= g + Slots => Used(k, g) = Real(g)
                        /\ g <= Len(v) => v[g] = Real(g)
        BY DEF ConfirmedReal, Valid
    <2>1. /\ BothKnown(g)
          /\ n <= g + Slots => Used(h, g) = Real(g)
          /\ g <= Len(w) => w[g] = Real(g)
        BY DEF Core, ConfirmedReal, Valid
    <2>2. g \in 1 .. n - 1 /\ g \in 1 .. m - 1 /\ g # n /\ (m <= g + Slots => n <= g + Slots)
        BY <1>1, <1>2, ConstantsAssumption
    <2> QED
        BY <2>1, <2>2, <1>1, <1>3, <1>10
<1>12. SimulatedAsUsed(v, k, c, m, 0)
    <2> SUFFICES ASSUME NEW g \in c + 1 .. m - 1 PROVE v[g] = Used(k, g)
        BY DEF SimulatedAsUsed, Valid
    <2>1. CASE g = n
        BY <2>1, <1>3, <1>10
    <2>2. CASE g # n
        <3>1. g \in c + 1 .. n - 1 /\ g \in 1 .. n - 1 /\ g \in 1 .. m - 1 /\ g <= Len(w) /\ m <= g + Slots
            BY <2>2, <1>1, <1>2, ConstantsAssumption
        <3>2. w[g] = Used(h, g)
            BY <3>1 DEF Core, SimulatedAsUsed, Valid
        <3> QED
            BY <2>2, <3>1, <3>2, <1>3, <1>10
    <2> QED
        BY <2>1, <2>2
<1>13. Restorable(v, k, t, c, m, 0)
    <2> SUFFICES ASSUME NEW g \in c + 1 .. m - 1 PROVE Snapped(t, g, v) \/ Exact(k, g)
        BY DEF Restorable
    <2>1. CASE g = n /\ b
        BY <2>1, <1>1, <1>3, <1>6 DEF Snapped
    <2>2. CASE g = n /\ ~b
        BY <2>2, <1>10 DEF Exact, BothKnown, Real
    <2>3. CASE g # n
        <3>1. g \in c + 1 .. n - 1 /\ g \in 1 .. n - 1 /\ g \in 1 .. m - 1 /\ g <= Len(w) /\ m <= g + Slots
            BY <2>3, <1>1, <1>2, ConstantsAssumption
        <3>2. Snapped(snaps, g, w) \/ Exact(h, g)
            BY <3>1 DEF Core, Restorable
        <3>3. t[Slot(g)] = snaps[Slot(g)] /\ Used(k, g) = Used(h, g)
            BY <2>3, <3>1, <1>6, <1>10
        <3>4. \A i \in 1 .. g - 1 : v[i] = w[i]
            <4> TAKE i \in 1 .. g - 1
            <4>1. i \in 1 .. n - 1
                BY <3>1, <1>1
            <4> QED
                BY <4>1, <1>3
        <3>5. Snapped(snaps, g, w) => Snapped(t, g, v)
            BY <3>3, <3>4 DEF Snapped
        <3>6. Exact(h, g) => Exact(k, g)
            BY <3>3 DEF Exact
        <3> QED
            BY <3>2, <3>5, <3>6
    <2> QED
        BY <2>1, <2>2, <2>3
<1> QED
    BY <1>7, <1>8, <1>9, <1>11, <1>12, <1>13 DEF Core, v, k, t, m

-----------------------------------------------------------------------------
(* What is known *)

Delay == first = 0 \/ first \in 2 .. next

LanesTypes ==
    /\ local \in [0 .. LaneEnd -> Inputs \cup {Unknown}]
    /\ remote \in [1 .. LaneEnd -> Inputs \cup {Unknown}]

\* A frame is never fed with an input later than the frame.
LEMMA SourceRange ==
    ASSUME NEW n \in Nat, NEW start \in 0 .. n, start # 1, NEW f \in 1 .. Frames
    PROVE  SourceFrom(start, f) \in 1 .. f
BY ConstantsAssumption DEF SourceFrom

LEMMA SourceType ==
    ASSUME Delay, next \in Nat, NEW f \in 1 .. Frames
    PROVE  Source(f) \in 1 .. LaneEnd
<1>1. first \in 0 .. next /\ first # 1
    BY DEF Delay
<1>2. Source(f) \in 1 .. f
    BY <1>1, SourceRange DEF Source
<1> QED
    BY <1>2, LaneEndType, ConstantsAssumption

LEMMA LaneType ==
    ASSUME Delay, next \in Nat, LanesTypes, NEW f \in 1 .. Frames
    PROVE  /\ LocalKnown(f) => Local(f) \in Inputs
           /\ RemoteKnown(f) => Remote(f) \in Inputs
<1>1. Source(f) \in 1 .. LaneEnd /\ Source(f) \in 0 .. LaneEnd
    BY SourceType, LaneEndType
<1> QED
    BY <1>1 DEF LanesTypes, LocalKnown, RemoteKnown, Local, Remote

-----------------------------------------------------------------------------
(* The history is compared with what is known *)

\* Every frame that is not confirmed is still in the ring, so that the search
\* for a wrong input reaches all of them.
LEMMA AllScanned ==
    ASSUME Core(world, entries, snaps, confirmed, next, 0)
    PROVE  /\ Unconfirmed \in SUBSET Nat
           /\ \A f \in Unconfirmed : f \in 1 .. Frames /\ next <= f + Slots /\ Held(f)
           /\ Scanned = Unconfirmed
<1>1. next \in Nat /\ confirmed \in Nat /\ next <= Frames + 1
    BY ConstantsAssumption DEF Core, HistoryTypes
<1>2. next - confirmed <= Limit + 1
    BY DEF Core, Distances
<1>3. \A f \in Unconfirmed : f \in 1 .. Frames /\ f \in 1 .. next - 1 /\ next <= f + Slots
    BY <1>1, <1>2, ConstantsAssumption DEF Unconfirmed
<1>4. \A f \in Unconfirmed : Held(f)
    BY <1>3 DEF Core, Recent, Held, Entry
<1>5. Unconfirmed \in SUBSET Nat
    BY <1>3
<1>6. ASSUME NEW f \in Unconfirmed, NEW g \in confirmed + 1 .. f PROVE g \in Unconfirmed
    BY <1>1 DEF Unconfirmed
<1>7. Scanned = Unconfirmed
    BY <1>4, <1>6 DEF Scanned
<1> QED
    BY <1>3, <1>4, <1>5, <1>7

\* A replay is due at the first frame that was fed with a wrong input.
LEMMA FirstWrongType ==
    ASSUME Core(world, entries, snaps, confirmed, next, 0)
    PROVE  /\ FirstWrong = 0 => \A f \in Unconfirmed : ~Wrong(f)
           /\ FirstWrong # 0 => /\ FirstWrong \in Unconfirmed
                                /\ Wrong(FirstWrong)
                                /\ \A f \in Unconfirmed : Wrong(f) => FirstWrong <= f
<1> DEFINE lost == {f \in Unconfirmed : ~Held(f)}
           wrong == {f \in Unconfirmed : Wrong(f)}
<1>1. lost = {}
    BY AllScanned
<1>2. wrong \in SUBSET Nat
    BY AllScanned
<1>3. FirstWrong = IF wrong # {} THEN Min(wrong) ELSE 0
    BY <1>1 DEF FirstWrong
<1>4. CASE wrong = {}
    BY <1>3, <1>4
<1>5. CASE wrong # {}
    <2> HIDE DEF wrong
    <2>1. Min(wrong) \in wrong /\ \A f \in wrong : Min(wrong) <= f
        BY <1>2, <1>5, LeastOfNaturals
    <2>2. FirstWrong \in wrong /\ \A f \in wrong : FirstWrong <= f
        BY <1>3, <1>5, <2>1
    <2>3. FirstWrong \in Nat /\ FirstWrong # 0
        BY <2>2, <1>2, AllScanned DEF wrong, Unconfirmed
    <2> QED
        BY <2>2, <2>3 DEF wrong
<1> QED
    BY <1>4, <1>5

\* Confirmed are the frames before the first of which an input is missing.
LEMMA NowConfirmedType ==
    ASSUME Core(world, entries, snaps, confirmed, next, 0)
    PROVE  /\ NowConfirmed \in confirmed .. next - 1
           /\ \A f \in confirmed + 1 .. NowConfirmed : BothKnown(f)
           /\ \A m \in confirmed .. next - 1 :
                 (\A f \in confirmed + 1 .. m : BothKnown(f)) => m <= NowConfirmed
<1> DEFINE S == {confirmed} \cup {f \in Unconfirmed : \A g \in confirmed + 1 .. f : BothKnown(g)}
<1>1. NowConfirmed = Max(S)
    BY AllScanned DEF NowConfirmed
<1>2. next \in Nat /\ confirmed \in Nat /\ confirmed <= next - 1
    BY ConstantsAssumption DEF Core, HistoryTypes
<1>3. S \in SUBSET Int /\ S # {} /\ next - 1 \in Int /\ \A f \in S : f <= next - 1
    BY <1>2 DEF Unconfirmed
<1>4. \A m \in confirmed .. next - 1 : m = confirmed \/ m \in Unconfirmed
    BY <1>2 DEF Unconfirmed
<1>5. \A f \in S : f \in confirmed .. next - 1 /\ \A g \in confirmed + 1 .. f : BothKnown(g)
    BY <1>2 DEF Unconfirmed
<1>6. \A m \in confirmed .. next - 1 : (\A f \in confirmed + 1 .. m : BothKnown(f)) => m \in S
    BY <1>4
<1> HIDE DEF S
<1>7. Max(S) \in S /\ \A f \in S : f <= Max(S)
    BY <1>3, Greatest
<1> QED
    BY <1>1, <1>5, <1>6, <1>7

\* What the comparison leaves in the history for frame f.
CorrectedEntry(f) ==
    [frame |-> Entry(f).frame,
     local |-> IF LocalKnown(f) THEN Local(f) ELSE Entry(f).local,
     remote |-> IF RemoteKnown(f) THEN Remote(f) ELSE Entry(f).remote]

LEMMA CorrectedValues ==
    ASSUME Core(world, entries, snaps, confirmed, next, 0), Delay, LanesTypes
    PROVE  /\ Corrected \in [0 .. Slots - 1 -> EntrySet]
           /\ \A f \in Unconfirmed : Corrected[Slot(f)] = CorrectedEntry(f)
           /\ \A f \in 1 .. next - 1 : next <= f + Slots =>
                 \/ Corrected[Slot(f)] = CorrectedEntry(f)
                 \/ Corrected[Slot(f)] = Entry(f)
<1>1. next \in Nat /\ confirmed \in Nat /\ next <= Frames + 1 /\ entries \in [0 .. Slots - 1 -> EntrySet]
    BY ConstantsAssumption DEF Core, HistoryTypes
<1>2. /\ Scanned = Unconfirmed
      /\ \A f \in Unconfirmed : f \in 1 .. Frames /\ entries[Slot(f)].frame = f
    BY AllScanned DEF Held, Entry
<1>3. ASSUME NEW s \in 0 .. Slots - 1, NEW f \in Unconfirmed, Slot(f) = s
      PROVE  Corrected[s] = CorrectedEntry(f)
    <2>1. entries[s].frame = f
        BY <1>2, <1>3
    <2> QED
        BY <1>2, <1>3, <2>1 DEF Corrected, CorrectedEntry, Entry
<1>4. ASSUME NEW s \in 0 .. Slots - 1, ~\E f \in Unconfirmed : Slot(f) = s
      PROVE  Corrected[s] = entries[s]
    BY <1>2, <1>4 DEF Corrected
<1>5. ASSUME NEW f \in Unconfirmed PROVE CorrectedEntry(f) \in EntrySet
    <2>1. f \in Nat /\ f \in 1 .. Frames
        BY <1>2
    <2>2. Entry(f) \in EntrySet
        BY <1>1, <2>1, SlotType DEF Entry
    <2>3. Entry(f).frame \in 0 .. Frames /\ Entry(f).local \in Inputs /\ Entry(f).remote \in Inputs
        BY <2>2 DEF EntrySet
    <2>4. LocalKnown(f) => Local(f) \in Inputs
        BY <1>1, <2>1, LaneType
    <2>5. RemoteKnown(f) => Remote(f) \in Inputs
        BY <1>1, <2>1, LaneType
    <2> QED
        BY <2>3, <2>4, <2>5 DEF CorrectedEntry, EntrySet
<1>6. Corrected \in [0 .. Slots - 1 -> EntrySet]
    <2>1. \A s \in 0 .. Slots - 1 : Corrected[s] \in EntrySet
        BY <1>1, <1>3, <1>4, <1>5
    <2>2. Corrected = [s \in 0 .. Slots - 1 |-> Corrected[s]]
        BY DEF Corrected
    <2> HIDE DEF Corrected
    <2> QED
        BY <2>1, <2>2
<1>7. \A f \in Unconfirmed : Corrected[Slot(f)] = CorrectedEntry(f)
    <2> TAKE f \in Unconfirmed
    <2>1. f \in Nat
        BY <1>2
    <2>2. Slot(f) \in 0 .. Slots - 1
        BY <2>1, SlotType
    <2> QED
        BY <1>3, <2>2
<1>8. ASSUME NEW f \in 1 .. next - 1, next <= f + Slots
      PROVE  Corrected[Slot(f)] = CorrectedEntry(f) \/ Corrected[Slot(f)] = Entry(f)
    <2>1. f \in Nat /\ entries[Slot(f)].frame = f
        BY <1>1, <1>8 DEF Core, Recent
    <2>2. Slot(f) \in 0 .. Slots - 1
        BY <2>1, SlotType
    <2>3. CASE f \in Unconfirmed
        BY <1>7, <2>3
    <2>4. ASSUME f \notin Unconfirmed, NEW g \in Unconfirmed, Slot(g) = Slot(f) PROVE FALSE
        BY <1>2, <2>1, <2>4
    <2>5. CASE f \notin Unconfirmed
        BY <1>4, <2>2, <2>4, <2>5 DEF Entry
    <2> QED
        BY <2>3, <2>5
<1> QED
    BY <1>6, <1>7, <1>8

LEMMA Reconciled ==
    ASSUME Core(world, entries, snaps, confirmed, next, 0), Delay, LanesTypes,
           Len(world) = next - 1
    PROVE  Core(world, Corrected, snaps, NowConfirmed, next, FirstWrong)
<1> DEFINE h == Corrected
           c == NowConfirmed
           p == FirstWrong
<1>1. HistoryTypes(world, entries, snaps, confirmed, next, 0) /\ next \in Nat /\ confirmed \in Nat /\ next <= Frames + 1
    BY ConstantsAssumption DEF Core, HistoryTypes
<1>2. c \in confirmed .. next - 1 /\ c \in Nat /\ \A f \in confirmed + 1 .. c : BothKnown(f)
    BY <1>1, NowConfirmedType
<1>3. /\ p = 0 => \A f \in Unconfirmed : ~Wrong(f)
      /\ p # 0 => p \in Unconfirmed /\ Wrong(p) /\ \A f \in Unconfirmed : Wrong(f) => p <= f
    BY FirstWrongType
<1>4. p \in Nat /\ p <= next - 1 /\ (p # 0 => p > confirmed)
    BY <1>1, <1>3 DEF Unconfirmed
<1>5. /\ h \in [0 .. Slots - 1 -> EntrySet]
      /\ \A f \in Unconfirmed : h[Slot(f)] = CorrectedEntry(f)
      /\ \A f \in 1 .. next - 1 : next <= f + Slots => h[Slot(f)] = CorrectedEntry(f) \/ h[Slot(f)] = Entry(f)
    BY CorrectedValues
<1> HIDE DEF h, c, p
<1>6. ASSUME NEW f \in Unconfirmed, f <= Valid(world, p) PROVE ~Wrong(f)
    <2>1. f \in Nat
        BY AllScanned
    <2> QED
        BY <2>1, <1>1, <1>3, <1>4, <1>6 DEF Valid
<1>7. HistoryTypes(world, h, snaps, c, next, p)
    BY <1>1, <1>2, <1>4, <1>5 DEF HistoryTypes
<1>8. Distances(world, c, next, p)
    BY <1>1, <1>2, <1>4, ConstantsAssumption DEF Core, Distances, Valid
<1>9. Recent(h, next)
    <2> SUFFICES ASSUME NEW f \in 1 .. next - 1, next <= f + Slots PROVE h[Slot(f)].frame = f
        BY DEF Recent
    <2>1. Entry(f).frame = f
        BY DEF Core, Recent, Entry
    <2>2. h[Slot(f)] = CorrectedEntry(f) \/ h[Slot(f)] = Entry(f)
        BY <1>5
    <2> QED
        BY <2>1, <2>2 DEF CorrectedEntry
<1>10. ASSUME NEW f \in Unconfirmed PROVE BothKnown(f) => Used(h, f) = Real(f)
    <2>1. h[Slot(f)] = CorrectedEntry(f)
        BY <1>5
    <2> QED
        BY <2>1 DEF BothKnown, Used, Real, CorrectedEntry
<1>11. ASSUME NEW f \in Unconfirmed, ~Wrong(f) PROVE Used(h, f) = Used(entries, f)
    <2>1. h[Slot(f)] = CorrectedEntry(f)
        BY <1>5
    <2> QED
        BY <2>1, <1>11 DEF Wrong, Used, CorrectedEntry, Entry
<1>12. ConfirmedReal(world, h, c, next, p)
    <2> SUFFICES ASSUME NEW f \in 1 .. c
                 PROVE  /\ BothKnown(f)
                        /\ next <= f + Slots => Used(h, f) = Real(f)
                        /\ f <= Valid(world, p) => world[f] = Real(f)
        BY DEF ConfirmedReal
    <2>1. f \in 1 .. next - 1
        BY <1>1, <1>2
    <2>2. CASE f <= confirmed
        <3>1. /\ BothKnown(f)
              /\ next <= f + Slots => Used(entries, f) = Real(f)
              /\ world[f] = Real(f)
            BY <2>1, <2>2, <1>1 DEF Core, ConfirmedReal, Valid
        <3>2. h[Slot(f)] = CorrectedEntry(f) => Used(h, f) = Real(f)
            BY <3>1 DEF CorrectedEntry, BothKnown, Used, Real
        <3>3. h[Slot(f)] = Entry(f) => Used(h, f) = Used(entries, f)
            BY DEF Entry, Used
        <3> QED
            BY <2>1, <3>1, <3>2, <3>3, <1>5
    <2>3. CASE f > confirmed
        <3>1. f \in Unconfirmed /\ f \in confirmed + 1 .. next - 1 /\ BothKnown(f)
            BY <2>1, <2>3, <1>1, <1>2 DEF Unconfirmed
        <3>2. Used(h, f) = Real(f)
            BY <3>1, <1>10
        <3>3. ASSUME f <= Valid(world, p) PROVE world[f] = Real(f)
            <4>1. Used(h, f) = Used(entries, f)
                BY <3>1, <3>3, <1>6, <1>11
            <4>2. world[f] = Used(entries, f)
                BY <3>1, <1>1 DEF Core, SimulatedAsUsed, Valid
            <4> QED
                BY <4>1, <4>2, <3>2
        <3> QED
            BY <3>1, <3>2, <3>3
    <2> QED
        BY <2>1, <2>2, <2>3, <1>1
<1>13. SimulatedAsUsed(world, h, c, next, p)
    <2> SUFFICES ASSUME NEW f \in c + 1 .. next - 1, f <= Valid(world, p) PROVE world[f] = Used(h, f)
        BY DEF SimulatedAsUsed
    <2>1. f \in Unconfirmed /\ f \in confirmed + 1 .. next - 1
        BY <1>1, <1>2 DEF Unconfirmed
    <2>2. world[f] = Used(entries, f)
        BY <2>1, <1>1 DEF Core, SimulatedAsUsed, Valid
    <2> QED
        BY <2>1, <2>2, <1>6, <1>11
<1>14. ASSUME NEW f \in Unconfirmed PROVE Snapped(snaps, f, world) \/ Exact(entries, f)
    <2>1. f \in confirmed + 1 .. next - 1 /\ f <= Len(world)
        BY <1>1 DEF Unconfirmed
    <2> QED
        BY <2>1 DEF Core, Restorable
<1>15. Restorable(world, h, snaps, c, next, p)
    <2>1. ASSUME NEW f \in c + 1 .. next - 1 PROVE Snapped(snaps, f, world) \/ Exact(h, f)
        <3>1. f \in Unconfirmed
            BY <1>1, <1>2 DEF Unconfirmed
        <3> QED
            BY <3>1, <1>10, <1>14 DEF Exact
    <2>2. ASSUME p # 0 PROVE Snapped(snaps, p, world)
        <3>1. p \in Unconfirmed /\ Wrong(p)
            BY <2>2, <1>3
        <3>2. ~Exact(entries, p)
            BY <3>1 DEF Wrong, Exact, BothKnown, Used, Real, Entry
        <3> QED
            BY <3>1, <3>2, <1>14
    <2> QED
        BY <2>1, <2>2 DEF Restorable
<1> QED
    BY <1>7, <1>8, <1>9, <1>12, <1>13, <1>15 DEF Core, h, c, p

-----------------------------------------------------------------------------
(* The inductive invariant *)

\* The callbacks come in order, and a replay is under way or not.
Control ==
    /\ pc \in Callbacks \ {"failed"}
    /\ replay = 0 => Len(world) = next - 1
    /\ replay # 0 => /\ pending = 0
                     /\ target = next
                     /\ replay \in 2 .. target
                     /\ Len(world) = replay - 1
    /\ pc = "check" => pending = 0
    /\ pc = "after" => replay = 0 \/ replay < target
    /\ pc = "simulate" => pending = 0 /\ replay = 0 /\ next <= Frames

\* When the game goes on after the end of a round, all of it is confirmed.
EndKnown ==
    (pc \in {"after", "simulate"} /\ pending = 0 /\ replay = 0 /\ Ends(world)) =>
        confirmed = next - 1

\* Published are confirmed frames, and the oldest not published is still held.
Published ==
    /\ stream \in Worlds /\ Len(stream) <= confirmed
    /\ next - Len(stream) <= Limit + 2
    /\ pc = "simulate" => Len(stream) = confirmed
    /\ \A f \in 1 .. Len(stream) : stream[f] = Real(f)

Inv ==
    /\ ahead \in Aheads
    /\ LanesTypes
    /\ Delay
    /\ target \in 0 .. next
    /\ Core(world, entries, snaps, confirmed, next, pending)
    /\ Control
    /\ EndKnown
    /\ Published

-----------------------------------------------------------------------------
(* What other threads do *)

\* The known inputs of the frames before n stay what they are.
KeepsKnown(n) ==
    \A f \in 1 .. n - 1 :
       /\ LocalKnown(f) => Local(f)' = Local(f)
       /\ RemoteKnown(f) => Remote(f)' = Remote(f)

LEMMA RealKept ==
    ASSUME NEW n, KeepsKnown(n), NEW f \in 1 .. n - 1, BothKnown(f)
    PROVE  BothKnown(f)' /\ Real(f)' = Real(f)
BY DEF KeepsKnown, BothKnown, LocalKnown, RemoteKnown, Real

\* More knowledge does not touch the history.
LEMMA CoreKept ==
    ASSUME NEW w, NEW h, NEW s, NEW c, NEW n, NEW p, Core(w, h, s, c, n, p), KeepsKnown(n)
    PROVE  Core(w, h, s, c, n, p)'
<1>1. HistoryTypes(w, h, s, c, n, p) /\ n \in Nat /\ c \in Nat /\ c <= n - 1
    BY ConstantsAssumption DEF Core, HistoryTypes
<1>2. HistoryTypes(w, h, s, c, n, p)'
    BY <1>1 DEF HistoryTypes
<1>3. Distances(w, c, n, p)' /\ Recent(h, n)'
    BY DEF Core, Distances, Recent, Valid
<1>4. ConfirmedReal(w, h, c, n, p)'
    <2>1. \A f \in 1 .. c : f \in 1 .. n - 1
        BY <1>1
    <2>2. \A f \in 1 .. c : BothKnown(f)' /\ Real(f)' = Real(f)
        BY <2>1, RealKept DEF Core, ConfirmedReal
    <2> QED
        BY <2>2 DEF Core, ConfirmedReal, Valid, Used
<1>5. SimulatedAsUsed(w, h, c, n, p)'
    BY DEF Core, SimulatedAsUsed, Valid, Used
<1>6. Restorable(w, h, s, c, n, p)'
    <2>1. \A f \in c + 1 .. n - 1 : f \in 1 .. n - 1
        BY <1>1
    <2>2. \A f \in c + 1 .. n - 1 : Exact(h, f) => Exact(h, f)'
        BY <2>1, RealKept DEF Exact, Used
    <2> QED
        BY <2>2 DEF Core, Restorable, Snapped
<1> QED
    BY <1>2, <1>3, <1>4, <1>5, <1>6 DEF Core

LEMMA SameInputs ==
    ASSUME UNCHANGED <<local, remote, first>>, NEW n
    PROVE  KeepsKnown(n)
BY DEF KeepsKnown, Local, Remote, Source, SourceFrom

LEMMA CoreUnchanged ==
    ASSUME NEW w, NEW h, NEW s, NEW c, NEW n, NEW p, Core(w, h, s, c, n, p),
           UNCHANGED <<local, remote, first>>
    PROVE  Core(w, h, s, c, n, p)'
BY CoreKept, SameInputs

\* The published frames stay, too.
LEMMA PublishedKept ==
    ASSUME NEW t, NEW c \in Nat, NEW n, KeepsKnown(n), c <= n - 1, n \in Nat,
           \A f \in 1 .. c : BothKnown(f),
           Len(t) <= c, \A f \in 1 .. Len(t) : t[f] = Real(f), Len(t) \in Nat
    PROVE  \A f \in 1 .. Len(t) : t[f] = Real(f)'
<1> TAKE f \in 1 .. Len(t)
<1>1. f \in 1 .. c /\ f \in 1 .. n - 1
    OBVIOUS
<1> QED
    BY <1>1, RealKept

LEMMA CaptureKeeps ==
    ASSUME Inv, Capture
    PROVE  KeepsKnown(next) /\ LanesTypes'
<1>1. PICK i \in 0 .. LaneEnd, v \in Inputs : local[i] = Unknown /\ local' = [local EXCEPT ![i] = v]
    BY DEF Capture
<1>2. UNCHANGED <<remote, first>>
    BY DEF Capture
<1>3. \A j \in 0 .. LaneEnd : local[j] # Unknown => local'[j] = local[j]
    BY <1>1 DEF Inv, LanesTypes
<1>4. next \in Nat /\ \A f \in 1 .. next - 1 : f \in 1 .. Frames
    BY ConstantsAssumption DEF Inv, Core, HistoryTypes
<1>5. \A f \in 1 .. next - 1 : Source(f) \in 1 .. LaneEnd /\ Source(f)' = Source(f)
    BY <1>2, <1>4, SourceType DEF Inv, Source, SourceFrom
<1>6. KeepsKnown(next)
    <2> SUFFICES ASSUME NEW f \in 1 .. next - 1
                 PROVE  /\ LocalKnown(f) => Local(f)' = Local(f)
                        /\ RemoteKnown(f) => Remote(f)' = Remote(f)
        BY DEF KeepsKnown
    <2>1. Source(f) \in 0 .. LaneEnd /\ Source(f)' = Source(f)
        BY <1>5, LaneEndType
    <2> QED
        BY <2>1, <1>2, <1>3 DEF LocalKnown, Local, Remote
<1>7. LanesTypes'
    BY <1>1, <1>2 DEF Inv, LanesTypes
<1> QED
    BY <1>6, <1>7

LEMMA ArriveKeeps ==
    ASSUME Inv, Arrive
    PROVE  KeepsKnown(next) /\ LanesTypes'
<1>1. PICK i \in 1 .. LaneEnd, v \in Inputs : remote[i] = Unknown /\ remote' = [remote EXCEPT ![i] = v]
    BY DEF Arrive
<1>2. UNCHANGED <<local, first>>
    BY DEF Arrive
<1>3. \A j \in 1 .. LaneEnd : remote[j] # Unknown => remote'[j] = remote[j]
    BY <1>1 DEF Inv, LanesTypes
<1>4. next \in Nat /\ \A f \in 1 .. next - 1 : f \in 1 .. Frames
    BY ConstantsAssumption DEF Inv, Core, HistoryTypes
<1>5. \A f \in 1 .. next - 1 : Source(f) \in 1 .. LaneEnd /\ Source(f)' = Source(f)
    BY <1>2, <1>4, SourceType DEF Inv, Source, SourceFrom
<1>6. KeepsKnown(next)
    <2> SUFFICES ASSUME NEW f \in 1 .. next - 1
                 PROVE  /\ LocalKnown(f) => Local(f)' = Local(f)
                        /\ RemoteKnown(f) => Remote(f)' = Remote(f)
        BY DEF KeepsKnown
    <2>1. Source(f) \in 1 .. LaneEnd /\ Source(f)' = Source(f)
        BY <1>5
    <2> QED
        BY <2>1, <1>2, <1>3 DEF RemoteKnown, Local, Remote
<1>7. LanesTypes'
    BY <1>1, <1>2 DEF Inv, LanesTypes
<1> QED
    BY <1>6, <1>7

\* Whatever else happens, the invariant outlives more knowledge.
LEMMA InvLearn ==
    ASSUME Inv, Capture \/ Arrive
    PROVE  Inv'
<1>1. KeepsKnown(next) /\ LanesTypes'
    BY CaptureKeeps, ArriveKeeps
<1>2. UNCHANGED <<ahead, world, next, confirmed, entries, snaps, pending, replay, target, first, stream, pc>>
    BY DEF Capture, Arrive
<1>3. Core(world, entries, snaps, confirmed, next, pending)'
    BY <1>1, <1>2, CoreKept DEF Inv
<1>4. Published'
    <2>1. confirmed \in Nat /\ next \in Nat /\ confirmed <= next - 1 /\ \A f \in 1 .. confirmed : BothKnown(f)
        BY ConstantsAssumption DEF Inv, Core, HistoryTypes, ConfirmedReal
    <2>2. Len(stream) \in Nat /\ Len(stream) <= confirmed /\ \A f \in 1 .. Len(stream) : stream[f] = Real(f)
        BY DEF Inv, Published, Worlds
    <2>3. \A f \in 1 .. Len(stream) : stream[f] = Real(f)'
        BY <1>1, <2>1, <2>2, PublishedKept
    <2> QED
        BY <1>2, <2>3 DEF Inv, Published
<1>5. Delay' /\ Control' /\ EndKnown'
    BY <1>2 DEF Inv, Delay, Control, EndKnown
<1> QED
    BY <1>1, <1>2, <1>3, <1>4, <1>5 DEF Inv

-----------------------------------------------------------------------------
(* The steps of the game thread *)

LEMMA BeforeType ==
    ASSUME NEW h \in [0 .. Slots - 1 -> EntrySet], NEW f \in Nat
    PROVE  Before(f, h, "local") \in Inputs /\ Before(f, h, "remote") \in Inputs
<1>1. CASE f > 1
    <2>1. f - 1 \in Nat
        BY <1>1
    <2>2. Slot(f - 1) \in 0 .. Slots - 1
        BY <2>1, SlotType
    <2>3. h[Slot(f - 1)] \in EntrySet
        BY <2>2
    <2>4. h[Slot(f - 1)]["local"] \in Inputs /\ h[Slot(f - 1)]["remote"] \in Inputs
        BY <2>3 DEF EntrySet
    <2> QED
        BY <1>1, <2>4, ConstantsAssumption DEF Before
<1>2. CASE ~(f > 1)
    BY <1>2, ConstantsAssumption DEF Before
<1> QED
    BY <1>1, <1>2

\* Frame f is simulated again.
LEMMA ResimulateStep ==
    ASSUME Inv, NEW w, NEW h, NEW c, NEW f \in 1 .. Frames,
           Core(w, h, snaps, c, next, 0), Len(w) = f - 1, f < next,
           Resimulate(f, w, h, c)
    PROVE  /\ pc' = "check" /\ replay' = f + 1 /\ Len(world') = f
           /\ Core(world', entries', snaps', c, next, 0)
<1> DEFINE l == IF LocalKnown(f) THEN Local(f) ELSE Before(f, h, "local")
           r == IF RemoteKnown(f) THEN Remote(f) ELSE Before(f, h, "remote")
<1>1. HistoryTypes(w, h, snaps, c, next, 0) /\ next \in Nat /\ c \in Nat /\ w \in Worlds
    BY ConstantsAssumption DEF Core, HistoryTypes
<1>2. next <= f + Limit + 1 /\ next <= f + Slots /\ f \in 1 .. next - 1
    BY <1>1, ConstantsAssumption DEF Core, Distances, Valid
<1>3. h[Slot(f)].frame = f
    BY <1>2 DEF Core, Recent
<1>4. l \in Inputs /\ r \in Inputs
    <2>1. f \in Nat /\ h \in [0 .. Slots - 1 -> EntrySet]
        BY <1>1 DEF HistoryTypes
    <2>2. Before(f, h, "local") \in Inputs /\ Before(f, h, "remote") \in Inputs
        BY <2>1, BeforeType
    <2>3. LocalKnown(f) => Local(f) \in Inputs
        BY <1>1, LaneType DEF Inv
    <2>4. RemoteKnown(f) => Remote(f) \in Inputs
        BY <1>1, LaneType DEF Inv
    <2> QED
        BY <2>2, <2>3, <2>4
<1>5. /\ entries' = Recorded(f, h, l, r)
      /\ snaps' = IF NeedsReplaySnapshot(f, c) THEN Saved(f, w) ELSE snaps
      /\ world' = Append(w, <<l, r>>)
      /\ replay' = f + 1
      /\ pc' = "check"
    BY <1>3 DEF Resimulate
<1>6. (LocalKnown(f) => l = Local(f)) /\ (RemoteKnown(f) => r = Remote(f))
    OBVIOUS
<1> HIDE DEF l, r
<1>7. f = Len(w) + 1
    BY <1>1 DEF Worlds
<1>8. Core(Append(w, <<l, r>>), Recorded(f, h, l, r),
           IF NeedsReplaySnapshot(f, c) THEN Saved(f, w) ELSE snaps, c, next, 0)
    BY <1>1, <1>4, <1>6, <1>7, Resimulated
<1>9. Len(Append(w, <<l, r>>)) = f
    BY <1>1, <1>4, <1>7, Fed
<1> QED
    BY <1>5, <1>8, <1>9

\* A replay begins: the snapshot is there.
LEMMA RestoreStep ==
    ASSUME Inv, NEW w, NEW h, NEW c, NEW p, Core(w, h, snaps, c, next, p), p # 0,
           RestoreAndResimulate(p, h, c)
    PROVE  /\ p \in 1 .. next - 1 /\ p \in 1 .. Frames
           /\ pc' = "check" /\ replay' = p + 1 /\ target' = next /\ Len(world') = p
           /\ Core(world', entries', snaps', c, next, 0)
<1> DEFINE v == snaps[Slot(p)].world
<1>1. p \in 1 .. next - 1 /\ p \in 1 .. Frames /\ p < next
    BY ConstantsAssumption DEF Core, HistoryTypes
<1>2. snaps[Slot(p)].frame = p /\ Len(v) = p - 1 /\ Core(v, h, snaps, c, next, 0)
    BY Restored
<1>3. target' = next /\ Resimulate(p, v, h, c)
    BY <1>2 DEF RestoreAndResimulate
<1> HIDE DEF v
<1>4. /\ pc' = "check" /\ replay' = p + 1 /\ Len(world') = p
      /\ Core(world', entries', snaps', c, next, 0)
    BY <1>1, <1>2, <1>3, ResimulateStep
<1> QED
    BY <1>1, <1>3, <1>4

\* What has been published stays published.
LEMMA PublishedStays ==
    ASSUME Inv, UNCHANGED <<local, remote, first, stream>>, confirmed' \in Nat, confirmed' >= confirmed,
           next' \in Nat, next' - Len(stream) <= Limit + 2, pc' # "simulate"
    PROVE  Published'
<1>1. confirmed \in Nat /\ Len(stream) \in Nat
    BY ConstantsAssumption DEF Inv, Core, HistoryTypes, Published, Worlds
<1>2. \A f \in 1 .. Len(stream) : Real(f)' = Real(f)
    BY DEF Real, Local, Remote, Source, SourceFrom
<1>3. stream \in Worlds /\ Len(stream) <= confirmed /\ \A f \in 1 .. Len(stream) : stream[f] = Real(f)
    BY DEF Inv, Published
<1>4. Len(stream) <= confirmed'
    BY <1>1, <1>3
<1> QED
    BY <1>2, <1>3, <1>4 DEF Published

LEMMA InvTypes ==
    ASSUME Inv
    PROVE  /\ next \in Nat /\ next \in 1 .. Frames + 1
           /\ confirmed \in Nat /\ confirmed <= next - 1
           /\ Len(stream) \in Nat /\ Len(stream) <= confirmed /\ next - Len(stream) <= Limit + 2
           /\ Len(world) \in Nat /\ world \in Worlds
BY ConstantsAssumption DEF Inv, Core, HistoryTypes, Published, Worlds

LEMMA InvSkipPresent == Inv /\ SkipPresent => Inv'
<1> SUFFICES ASSUME Inv, SkipPresent PROVE Inv'
    OBVIOUS
<1> USE DEF SkipPresent
<1>1. Core(world, entries, snaps, confirmed, next, pending)'
    BY CoreUnchanged DEF Inv
<1>2. Published'
    BY InvTypes, PublishedStays
<1>3. Control' /\ EndKnown'
    BY DEF Inv, Control, EndKnown, Replaying, Callbacks
<1> QED
    BY <1>1, <1>2, <1>3 DEF Inv, LanesTypes, Delay

LEMMA InvGiveUp == Inv /\ GiveUp => Inv'
<1> SUFFICES ASSUME Inv, GiveUp PROVE Inv'
    OBVIOUS
<1>0. /\ pc' = "stopped"
      /\ UNCHANGED <<ahead, local, remote, world, next, confirmed, entries, snaps,
                     pending, replay, target, first, stream>>
    BY DEF GiveUp
<1>1. Core(world, entries, snaps, confirmed, next, pending)'
    BY <1>0, CoreUnchanged DEF Inv
<1>2. Published'
    BY <1>0, InvTypes, PublishedStays
<1>3. Control' /\ EndKnown'
    BY <1>0 DEF Inv, Control, EndKnown, Callbacks
<1> QED
    BY <1>0, <1>1, <1>2, <1>3 DEF Inv, LanesTypes, Delay

\* When nothing is being replayed the whole game is there.
LEMMA Present ==
    ASSUME Inv, pc \in {"check", "simulate"}, ~Replaying
    PROVE  pending = 0 /\ Len(world) = next - 1
BY InvTypes DEF Inv, Control, Replaying

LEMMA InvBeforePresent == Inv /\ BeforePresent => Inv'
<1> SUFFICES ASSUME Inv, BeforePresent PROVE Inv'
    OBVIOUS
<1>0. /\ pc = "check" /\ ~Replaying /\ Drained
      /\ replay' = 0 /\ entries' = Corrected /\ confirmed' = NowConfirmed
      /\ pending' = FirstWrong /\ pc' = "after"
      /\ UNCHANGED <<ahead, local, remote, world, next, snaps, target, first, stream>>
    BY DEF BeforePresent
<1>1. Core(world, entries, snaps, confirmed, next, 0) /\ Len(world) = next - 1
    BY <1>0, Present DEF Inv
<1>2. Core(world, Corrected, snaps, NowConfirmed, next, FirstWrong)
    BY <1>1, Reconciled DEF Inv
<1>3. Core(world, entries, snaps, confirmed, next, pending)'
    BY <1>0, <1>2, CoreUnchanged
<1>4. NowConfirmed \in confirmed .. next - 1
    BY <1>1, NowConfirmedType
<1>5. Published'
    BY <1>0, <1>4, InvTypes, PublishedStays
<1>6. Control'
    BY <1>0, <1>1, InvTypes DEF Control, Callbacks
<1>7. EndKnown'
    <2> SUFFICES ASSUME Ends(world) PROVE NowConfirmed = next - 1
        BY <1>0 DEF EndKnown
    <2>1. \A f \in confirmed + 1 .. next - 1 : BothKnown(f)
        BY <1>0 DEF Drained, Unconfirmed
    <2>2. next - 1 \in confirmed .. next - 1
        BY InvTypes
    <2>3. next - 1 <= NowConfirmed
        BY <1>1, <2>1, <2>2, NowConfirmedType
    <2> QED
        BY <1>4, <2>3, InvTypes
<1> QED
    BY <1>0, <1>3, <1>5, <1>6, <1>7 DEF Inv, LanesTypes, Delay

LEMMA InvBeginReplay == Inv /\ BeginReplay => Inv'
<1> SUFFICES ASSUME Inv, BeginReplay PROVE Inv'
    OBVIOUS
<1>0. /\ pc = "after" /\ pending # 0 /\ pending' = 0
      /\ RestoreAndResimulate(pending, entries, confirmed)
      /\ UNCHANGED <<ahead, local, remote, next, confirmed, first, stream>>
    BY DEF BeginReplay, TakenOff
<1>1. Core(world, entries, snaps, confirmed, next, pending)
    BY DEF Inv
<1>2. /\ pending \in 1 .. next - 1
      /\ pc' = "check" /\ replay' = pending + 1 /\ target' = next /\ Len(world') = pending
      /\ Core(world', entries', snaps', confirmed, next, 0)
    BY <1>0, <1>1, RestoreStep
<1>3. Core(world, entries, snaps, confirmed, next, pending)'
    BY <1>0, <1>2, CoreUnchanged
<1>4. Published'
    BY <1>0, <1>2, InvTypes, PublishedStays
<1>5. Control'
    BY <1>0, <1>2, InvTypes DEF Control, Callbacks
<1>6. EndKnown'
    BY <1>2 DEF EndKnown
<1>7. target' \in 0 .. next'
    BY <1>0, <1>2, InvTypes
<1> QED
    BY <1>0, <1>3, <1>4, <1>5, <1>6, <1>7 DEF Inv, LanesTypes, Delay

LEMMA InvContinueReplay == Inv /\ ContinueReplay => Inv'
<1> SUFFICES ASSUME Inv, ContinueReplay PROVE Inv'
    OBVIOUS
<1>0. /\ pc = "after" /\ pending = 0 /\ replay # 0
      /\ UNCHANGED <<ahead, local, remote, next, confirmed, pending, target, first, stream>>
    BY DEF ContinueReplay
<1>1. /\ target = next /\ replay \in 2 .. target /\ Len(world) = replay - 1 /\ replay < target
    BY <1>0 DEF Inv, Control
<1>2. Resimulate(replay, world, entries, confirmed)
    <2>1. replay # target
        BY <1>1, InvTypes
    <2> QED
        BY <2>1 DEF ContinueReplay
<1>3. replay \in 1 .. Frames /\ replay < next
    BY <1>1, InvTypes, ConstantsAssumption
<1>4. /\ pc' = "check" /\ replay' = replay + 1 /\ Len(world') = replay
      /\ Core(world', entries', snaps', confirmed, next, 0)
    BY <1>0, <1>1, <1>2, <1>3, ResimulateStep DEF Inv
<1>5. Core(world, entries, snaps, confirmed, next, pending)'
    BY <1>0, <1>4, CoreUnchanged
<1>6. Published'
    BY <1>0, <1>4, InvTypes, PublishedStays
<1>7. Control'
    BY <1>0, <1>1, <1>3, <1>4, InvTypes DEF Control, Callbacks
<1>8. EndKnown'
    BY <1>4 DEF EndKnown
<1> QED
    BY <1>0, <1>5, <1>6, <1>7, <1>8 DEF Inv, LanesTypes, Delay

-----------------------------------------------------------------------------
(* Publishing *)

Unpublished(t) == [i \in 1 .. confirmed - Len(t) |->
                      <<Entry(Len(t) + i).local, Entry(Len(t) + i).remote>>]

\* What is published next are real inputs.
LEMMA NextPublished ==
    ASSUME Inv
    PROVE  /\ stream \o Unpublished(stream) \in Worlds
           /\ Len(stream \o Unpublished(stream)) = confirmed
           /\ \A f \in 1 .. Len(stream) : (stream \o Unpublished(stream))[f] = stream[f]
           /\ \A f \in 1 .. confirmed : (stream \o Unpublished(stream))[f] = Real(f)
<1> DEFINE n == Len(stream)
           t == Unpublished(stream)
<1>1. n \in Nat /\ confirmed \in Nat /\ n <= confirmed /\ next \in Nat /\ next <= Frames + 1
      /\ confirmed <= next - 1 /\ next - n <= Limit + 2
    BY InvTypes
<1>2. stream \in Seq(Inputs \X Inputs) /\ \A f \in 1 .. n : stream[f] = Real(f)
    BY DEF Inv, Published, Worlds
<1>3. ASSUME NEW f \in 1 .. confirmed PROVE Real(f) \in Inputs \X Inputs
    <2>1. f \in 1 .. Frames /\ BothKnown(f)
        BY <1>1, ConstantsAssumption DEF Inv, Core, ConfirmedReal
    <2>2. Local(f) \in Inputs
        BY <2>1, <1>1, LaneType DEF Inv, BothKnown
    <2>3. Remote(f) \in Inputs
        BY <2>1, <1>1, LaneType DEF Inv, BothKnown
    <2> QED
        BY <2>2, <2>3 DEF Real
<1>4. ASSUME NEW i \in 1 .. confirmed - n PROVE t[i] = Real(n + i)
    <2>1. n + i \in 1 .. confirmed /\ next <= (n + i) + Slots
        BY <1>1, ConstantsAssumption
    <2>2. Used(entries, n + i) = Real(n + i)
        BY <2>1 DEF Inv, Core, ConfirmedReal
    <2> QED
        BY <2>2 DEF Unpublished, Used, Entry
<1>5. t \in Seq(Inputs \X Inputs) /\ Len(t) = confirmed - n
    <2>1. confirmed - n \in Nat
        BY <1>1
    <2>2. \A i \in 1 .. confirmed - n : t[i] \in Inputs \X Inputs
        <3> TAKE i \in 1 .. confirmed - n
        <3>1. n + i \in 1 .. confirmed
            BY <1>1
        <3> QED
            BY <3>1, <1>3, <1>4
    <2>3. t = [i \in 1 .. confirmed - n |-> t[i]]
        BY DEF Unpublished
    <2> HIDE DEF t
    <2>4. t \in [1 .. confirmed - n -> Inputs \X Inputs]
        BY <2>2, <2>3
    <2> QED
        BY <2>1, <2>4, SeqDef
<1> HIDE DEF t
<1> HIDE DEF n
<1>6. /\ stream \o t \in Seq(Inputs \X Inputs)
      /\ Len(stream \o t) = Len(stream) + Len(t)
      /\ \A i \in 1 .. Len(stream) + Len(t) : (stream \o t)[i] = IF i <= Len(stream) THEN stream[i] ELSE t[i - Len(stream)]
    BY <1>2, <1>5, ConcatProperties, Zenon
<1>7. Len(stream) = n /\ Len(stream) + Len(t) = confirmed
    BY <1>1, <1>5 DEF n
<1>8. ASSUME NEW f \in 1 .. confirmed PROVE (stream \o t)[f] = Real(f)
    <2>1. CASE f <= n
        BY <2>1, <1>1, <1>2, <1>6, <1>7
    <2>2. CASE f > n
        <3>1. f - n \in 1 .. confirmed - n /\ n + (f - n) = f /\ ~(f <= n)
            BY <2>2, <1>1
        <3>2. t[f - n] = Real(f)
            BY <3>1, <1>4
        <3> QED
            BY <3>1, <3>2, <1>6, <1>7
    <2>3. f \in Nat /\ n \in Nat
        BY <1>1
    <2>4. f <= n \/ f > n
        BY <2>3
    <2> QED
        BY <2>1, <2>2, <2>4
<1>9. \A f \in 1 .. n : f \in 1 .. confirmed
    BY <1>1
<1> QED
    BY <1>2, <1>6, <1>7, <1>8, <1>9 DEF Worlds, t, n

\* The extra delay begins after the frames simulated so far.
LEMMA EnterStepKeeps ==
    ASSUME Inv, EnterStep
    PROVE  KeepsKnown(next) /\ Delay'
<1>1. UNCHANGED <<local, remote, next>> /\ Len(world) = next - 1
      /\ first' = IF Ends(world) /\ first = 0 THEN next ELSE first
    BY DEF EnterStep, Inv, Control
<1>2. CASE Ends(world) /\ first = 0
    <2>1. first' = next
        BY <1>1, <1>2
    <2>2. \A f \in 1 .. next - 1 : Source(f)' = Source(f)
        BY <1>2, <2>1, InvTypes DEF Source, SourceFrom
    <2>3. world # <<>>
        BY <1>2, ConstantsAssumption
    <2>4. Len(world) > 0
        BY <2>3, InvTypes, EmptySeq DEF Worlds
    <2> QED
        BY <1>1, <2>1, <2>2, <2>4, InvTypes DEF KeepsKnown, Delay, Local, Remote
<1>3. CASE ~(Ends(world) /\ first = 0)
    <2>1. UNCHANGED <<local, remote, first>>
        BY <1>1, <1>3
    <2> QED
        BY <1>1, <2>1, SameInputs DEF Inv, Delay
<1> QED
    BY <1>2, <1>3

LEMMA InvEnterStep == Inv /\ EnterStep => Inv'
<1> SUFFICES ASSUME Inv, EnterStep PROVE Inv'
    OBVIOUS
<1>0. /\ pc = "after" /\ pending = 0 /\ replay = 0 /\ next <= Frames
      /\ stream' = stream \o Unpublished(stream)
      /\ pc' = "simulate"
      /\ UNCHANGED <<ahead, local, remote, world, next, confirmed, entries, snaps,
                     pending, replay, target>>
    BY DEF EnterStep, Publishable, Unpublished
<1>1. KeepsKnown(next) /\ Delay'
    BY EnterStepKeeps
<1>2. Core(world, entries, snaps, confirmed, next, pending)'
    BY <1>0, <1>1, CoreKept DEF Inv
<1>3. Published'
    <2>1. /\ stream' \in Worlds /\ Len(stream') = confirmed
          /\ \A f \in 1 .. confirmed : stream'[f] = Real(f)
        BY <1>0, NextPublished
    <2>2. \A f \in 1 .. confirmed : f \in 1 .. next - 1 /\ BothKnown(f)
        BY InvTypes DEF Inv, Core, ConfirmedReal
    <2>3. \A f \in 1 .. confirmed : Real(f)' = Real(f)
        BY <2>2, <1>1, RealKept
    <2>4. next - confirmed <= Limit + 2
        BY InvTypes, ConstantsAssumption DEF Inv, Core, Distances
    <2> QED
        BY <1>0, <2>1, <2>3, <2>4, InvTypes DEF Published
<1>4. Control' /\ EndKnown'
    BY <1>0 DEF Inv, Control, EndKnown, Callbacks
<1> QED
    BY <1>0, <1>1, <1>2, <1>3, <1>4 DEF Inv, LanesTypes

-----------------------------------------------------------------------------
(* Step *)

\* A frame that can be fed is fed, and there is room for it.
LEMMA SimulateStep ==
    ASSUME Inv, pc = "simulate", NEW h, NEW c, Core(world, h, snaps, c, next, 0),
           next - c <= Limit, BothKnown(next) \/ AllowPrediction, Simulate(h, c)
    PROVE  /\ confirmed' = c /\ next' = next + 1 /\ pc' = "check"
           /\ UNCHANGED <<replay, target>> /\ Len(world') = next
           /\ Core(world', entries', snaps', c, next + 1, 0)
<1> DEFINE l == FedLocal(h)
           r == FedRemote(h)
           b == CanRollback
<1>1. /\ next \in 1 .. Frames /\ next \in Nat /\ Len(world) = next - 1
      /\ c \in Nat /\ world \in Worlds /\ h \in [0 .. Slots - 1 -> EntrySet]
    BY InvTypes, ConstantsAssumption DEF Inv, Control, Core, HistoryTypes
<1>2. Before(next, h, "local") \in Inputs /\ Before(next, h, "remote") \in Inputs
    BY <1>1, BeforeType
<1>3. /\ LocalKnown(next) => Local(next) \in Inputs
      /\ RemoteKnown(next) => Remote(next) \in Inputs
    BY <1>1, LaneType DEF Inv
<1>4. Source(next) - 1 \in 0 .. LaneEnd
    <2>1. Source(next) \in 1 .. LaneEnd
        BY <1>1, SourceType DEF Inv
    <2> QED
        BY <2>1, LaneEndType
<1>5. local[Source(next) - 1] # Unknown => local[Source(next) - 1] \in Inputs
    BY <1>4 DEF Inv, LanesTypes
<1>6. l \in Inputs
    BY <1>2, <1>3, <1>5 DEF FedLocal
<1>7. r \in Inputs
    BY <1>2, <1>3 DEF FedRemote
<1>8. (LocalKnown(next) => l = Local(next)) /\ (RemoteKnown(next) => r = Remote(next))
    BY DEF FedLocal, FedRemote
<1>9. b \in BOOLEAN /\ (b \/ BothKnown(next))
    BY DEF CanRollback, AllowPrediction
<1>10. CanPredict(c)
    BY DEF CanPredict
<1>11. ~(~BothKnown(next) /\ ~(AllowPrediction /\ CanPredict(c)))
    BY <1>10
<1>12. /\ confirmed' = c /\ next' = next + 1 /\ pc' = "check" /\ UNCHANGED <<replay, target>>
       /\ snaps' = IF b THEN Saved(next, world) ELSE snaps
       /\ entries' = Recorded(next, h, l, r)
       /\ world' = Append(world, <<l, r>>)
    BY <1>11 DEF Simulate
<1> HIDE DEF l, r, b
<1>13. Core(Append(world, <<l, r>>), Recorded(next, h, l, r),
            IF b THEN Saved(next, world) ELSE snaps, c, next + 1, 0)
    BY <1>1, <1>6, <1>7, <1>8, <1>9, Simulated
<1>14. Len(world') = next
    BY <1>1, <1>6, <1>7, <1>12, Fed
<1> QED
    BY <1>12, <1>13, <1>14

\* After a wait there is room, and the inputs that must be known are.
LEMMA Resumed ==
    ASSUME Inv, pc = "simulate", ReadyToResume
    PROVE  next - NowConfirmed <= Limit /\ (BothKnown(next) \/ AllowPrediction)
<1>1. Core(world, entries, snaps, confirmed, next, 0)
    BY DEF Inv, Control
<1>2. /\ NowConfirmed \in confirmed .. next - 1
      /\ \A m \in confirmed .. next - 1 :
            (\A f \in confirmed + 1 .. m : BothKnown(f)) => m <= NowConfirmed
    BY <1>1, NowConfirmedType
<1>3. next \in Nat /\ confirmed \in Nat /\ confirmed <= next - 1 /\ next - confirmed <= Limit + 1
      /\ Limit \in Nat \ {0}
    BY InvTypes, ConstantsAssumption DEF Inv, Core, Distances
<1>4. CASE AllowPrediction /\ ~CanPredict(confirmed)
    <2>1. BothKnown(confirmed + 1) /\ next - confirmed > Limit
        BY <1>3, <1>4 DEF ReadyToResume, CanPredict
    <2>2. confirmed + 1 \in confirmed .. next - 1
        BY <1>3, <2>1
    <2>3. \A f \in confirmed + 1 .. confirmed + 1 : BothKnown(f)
        BY <1>3, <2>1
    <2>4. confirmed + 1 <= NowConfirmed
        BY <1>2, <2>2, <2>3
    <2> QED
        BY <1>2, <1>3, <1>4, <2>4
<1>5. CASE ~(AllowPrediction /\ ~CanPredict(confirmed))
    <2>1. \A f \in confirmed + 1 .. next : BothKnown(f)
        BY <1>5 DEF ReadyToResume
    <2>2. \A f \in confirmed + 1 .. next - 1 : f \in confirmed + 1 .. next
        BY <1>3
    <2>3. next - 1 \in confirmed .. next - 1 /\ next \in confirmed + 1 .. next
        BY <1>3
    <2>4. next - 1 <= NowConfirmed
        BY <1>2, <2>1, <2>2, <2>3
    <2> QED
        BY <1>2, <1>3, <2>1, <2>3, <2>4
<1> QED
    BY <1>4, <1>5

LEMMA InvStep == Inv /\ Step => Inv'
<1> SUFFICES ASSUME Inv, Step PROVE Inv'
    OBVIOUS
<1>0. pc = "simulate" /\ UNCHANGED <<ahead, local, remote, pending, first, stream>>
    BY DEF Step
<1>1. /\ Core(world, entries, snaps, confirmed, next, 0)
      /\ pending = 0 /\ replay = 0 /\ Len(world) = next - 1 /\ next <= Frames
    BY <1>0 DEF Inv, Control
<1>2. NowConfirmed \in confirmed .. next - 1
    BY <1>1, NowConfirmedType
<1>3. Core(world, Corrected, snaps, NowConfirmed, next, FirstWrong)
    BY <1>1, Reconciled DEF Inv
<1>4. Len(stream) = confirmed /\ next - confirmed <= Limit + 1
    BY <1>0, <1>1 DEF Inv, Published, Core, Distances
<1>5. ASSUME NEW h, NEW c \in confirmed .. next - 1, Core(world, h, snaps, c, next, 0),
             next - c <= Limit, BothKnown(next) \/ AllowPrediction, Simulate(h, c)
      PROVE  Inv'
    <2>1. /\ confirmed' = c /\ next' = next + 1 /\ pc' = "check"
          /\ UNCHANGED <<replay, target>> /\ Len(world') = next
          /\ Core(world', entries', snaps', c, next + 1, 0)
        BY <1>0, <1>5, SimulateStep
    <2>2. Core(world, entries, snaps, confirmed, next, pending)'
        <3>1. Core(world', entries', snaps', confirmed', next', pending')
            BY <1>0, <1>1, <2>1
        <3> QED
            BY <1>0, <3>1, CoreUnchanged
    <2>3. Published'
        BY <1>0, <1>4, <2>1, InvTypes, ConstantsAssumption, PublishedStays
    <2>4. Control' /\ EndKnown'
        BY <1>0, <1>1, <2>1, InvTypes DEF Control, EndKnown, Callbacks
    <2>5. Delay' /\ target' \in 0 .. next'
        BY <1>0, <2>1, InvTypes DEF Inv, Delay
    <2> QED
        BY <1>0, <2>2, <2>3, <2>4, <2>5 DEF Inv, LanesTypes
<1>6. CASE NoWait
    <2>1. Simulate(entries, confirmed)
        BY <1>6 DEF Step
    <2>2. next - confirmed <= Limit /\ (BothKnown(next) \/ AllowPrediction)
        BY <1>6 DEF NoWait, CanPredict
    <2>3. confirmed \in confirmed .. next - 1
        BY InvTypes
    <2> QED
        BY <1>1, <1>5, <2>1, <2>2, <2>3
<1>7. CASE ~NoWait /\ FirstWrong = 0
    <2>1. ReadyToResume /\ Simulate(Corrected, NowConfirmed)
        BY <1>7 DEF Step
    <2>2. next - NowConfirmed <= Limit /\ (BothKnown(next) \/ AllowPrediction)
        BY <1>0, <2>1, Resumed
    <2>3. Core(world, Corrected, snaps, NowConfirmed, next, 0)
        BY <1>3, <1>7
    <2> QED
        BY <1>2, <1>5, <2>1, <2>2, <2>3
<1>8. CASE ~NoWait /\ FirstWrong # 0
    <2>1. /\ confirmed' = NowConfirmed /\ UNCHANGED next
          /\ RestoreAndResimulate(FirstWrong, Corrected, NowConfirmed)
        BY <1>8 DEF Step
    <2>2. /\ FirstWrong \in 1 .. next - 1
          /\ pc' = "check" /\ replay' = FirstWrong + 1 /\ target' = next /\ Len(world') = FirstWrong
          /\ Core(world', entries', snaps', NowConfirmed, next, 0)
        BY <1>3, <1>8, <2>1, RestoreStep
    <2>3. Core(world, entries, snaps, confirmed, next, pending)'
        <3>1. Core(world', entries', snaps', confirmed', next', pending')
            BY <1>0, <1>1, <2>1, <2>2
        <3> QED
            BY <1>0, <3>1, CoreUnchanged
    <2>4. Published'
        BY <1>0, <1>2, <2>1, <2>2, InvTypes, PublishedStays
    <2>5. Control' /\ EndKnown'
        BY <1>0, <1>1, <2>1, <2>2, InvTypes DEF Control, EndKnown, Callbacks
    <2>6. Delay' /\ target' \in 0 .. next'
        BY <1>0, <2>1, <2>2, InvTypes DEF Inv, Delay
    <2> QED
        BY <1>0, <2>3, <2>4, <2>5, <2>6 DEF Inv, LanesTypes
<1> QED
    BY <1>6, <1>7, <1>8

-----------------------------------------------------------------------------
(* The invariant holds *)

LEMMA InvInit == Init => Inv
<1> SUFFICES ASSUME Init PROVE Inv
    OBVIOUS
<1>1. /\ ahead \in Aheads /\ world = <<>> /\ next = 1 /\ confirmed = 0 /\ pending = 0
      /\ replay = 0 /\ target = 0 /\ first = 0 /\ stream = <<>> /\ pc = "after"
    BY DEF Init
<1>2. world \in Worlds /\ Len(world) = 0
    BY <1>1, EmptySeq DEF Worlds
<1>3. LanesTypes
    BY ConstantsAssumption DEF Init, LanesTypes
<1>4. entries \in [0 .. Slots - 1 -> EntrySet]
    <2>1. [frame |-> 0, local |-> 0, remote |-> 0] \in EntrySet
        BY ConstantsAssumption DEF EntrySet, Neutral
    <2> QED
        BY <2>1 DEF Init
<1>5. snaps \in [0 .. Slots - 1 -> SnapSet]
    <2>1. <<>> \in Worlds
        BY EmptySeq DEF Worlds
    <2>2. [frame |-> 0, world |-> <<>>] \in SnapSet
        BY <2>1, ConstantsAssumption DEF SnapSet
    <2> QED
        BY <2>2 DEF Init
<1>6. HistoryTypes(world, entries, snaps, confirmed, next, pending)
    BY <1>1, <1>2, <1>4, <1>5, ConstantsAssumption DEF HistoryTypes
<1>7. Distances(world, confirmed, next, pending)
    BY <1>1, <1>2, ConstantsAssumption DEF Distances, Valid
<1>8. /\ Recent(entries, next) /\ ConfirmedReal(world, entries, confirmed, next, pending)
      /\ SimulatedAsUsed(world, entries, confirmed, next, pending)
      /\ Restorable(world, entries, snaps, confirmed, next, pending)
    BY <1>1 DEF Recent, ConfirmedReal, SimulatedAsUsed, Restorable
<1>9. Delay /\ target \in 0 .. next /\ Control /\ EndKnown
    BY <1>1, <1>2 DEF Delay, Control, EndKnown, Callbacks
<1>10. Published
    BY <1>1, <1>2, ConstantsAssumption DEF Published
<1> QED
    BY <1>1, <1>3, <1>6, <1>7, <1>8, <1>9, <1>10 DEF Inv, Core

LEMMA InvNext == Inv /\ [Next]_vars => Inv'
<1> SUFFICES ASSUME Inv, [Next]_vars PROVE Inv'
    OBVIOUS
<1>1. CASE Capture
    BY <1>1, InvLearn
<1>2. CASE Arrive
    BY <1>2, InvLearn
<1>3. CASE SkipPresent
    BY <1>3, InvSkipPresent
<1>4. CASE BeforePresent
    BY <1>4, InvBeforePresent
<1>5. CASE BeginReplay
    BY <1>5, InvBeginReplay
<1>6. CASE ContinueReplay
    BY <1>6, InvContinueReplay
<1>7. CASE EnterStep
    BY <1>7, InvEnterStep
<1>8. CASE Step
    BY <1>8, InvStep
<1>9. CASE GiveUp
    BY <1>9, InvGiveUp
<1>10. CASE UNCHANGED vars
    <2>1. Core(world, entries, snaps, confirmed, next, pending)'
        BY <1>10, CoreUnchanged DEF Inv, vars
    <2>2. \A f \in 1 .. Len(stream) : Real(f)' = Real(f)
        BY <1>10 DEF vars, Real, Local, Remote, Source, SourceFrom
    <2>3. Published'
        BY <1>10, <2>2 DEF Inv, Published, vars
    <2> QED
        BY <1>10, <2>1, <2>3 DEF Inv, vars, LanesTypes, Delay, Control, EndKnown
<1> QED
    BY <1>1, <1>2, <1>3, <1>4, <1>5, <1>6, <1>7, <1>8, <1>9, <1>10 DEF Next, GameThread

\* The history stays as described, in every game.
THEOREM RollbackInvariant == Spec => []Inv
<1>1. Init => Inv
    BY InvInit
<1>2. Inv /\ [Next]_vars => Inv'
    BY InvNext
<1> QED
    BY <1>1, <1>2, PTL DEF Spec

\* The counters stay in their ranges, whatever the length of the game.
THEOREM RollbackTypes == Spec => []TypeOK
<1>1. Inv => TypeOK
    <2> SUFFICES ASSUME Inv PROVE TypeOK
        OBVIOUS
    <2>1. HistoryTypes(world, entries, snaps, confirmed, next, pending) /\ next \in Nat /\ Len(world) \in Nat
        BY InvTypes DEF Inv, Core
    <2>2. world \in Worlds /\ Len(world) < next /\ next \in 1 .. Frames + 1
          /\ confirmed \in 0 .. next - 1 /\ pending \in 0 .. next - 1
        BY <2>1 DEF HistoryTypes
    <2>3. replay \in 0 .. next /\ (pending # 0 => replay = 0)
        BY <2>1 DEF Inv, Control
    <2>4. first \in 0 .. next
        BY <2>1 DEF Inv, Delay
    <2>5. /\ entries \in [0 .. Slots - 1 -> [frame : 0 .. Frames, local : Inputs, remote : Inputs]]
          /\ snaps \in [0 .. Slots - 1 -> [frame : 0 .. Frames, world : Worlds]]
        BY <2>1 DEF HistoryTypes, EntrySet, SnapSet
    <2> QED
        BY <2>2, <2>3, <2>4, <2>5 DEF Inv, LanesTypes, Control, Published, TypeOK
<1> QED
    BY <1>1, RollbackInvariant, PTL

\* No rollback finds its snapshot or its history overwritten, no frame is due
\* without an input and no replay is left open: none of the branches that end
\* the session (SceneRunner::Fail) is ever taken.
THEOREM RollbackNeverFails == Spec => []NeverFails
<1>1. Inv => NeverFails
    BY DEF Inv, Control, NeverFails
<1> QED
    BY <1>1, RollbackInvariant, PTL

\* On confirmed frames the game has been fed with the real inputs of both
\* players, whatever was predicted, restored and replayed before.
THEOREM ConfirmedFramesAreReal == Spec => []ConfirmedIsTruth
<1>1. Inv => ConfirmedIsTruth
    <2> SUFFICES ASSUME Inv, Settled, NEW f \in 1 .. confirmed
                 PROVE  world[f] = <<Local(f), Remote(f)>>
        BY DEF ConfirmedIsTruth
    <2>1. Len(world) = next - 1 /\ pending = 0
        BY InvTypes DEF Inv, Control, Settled, Replaying
    <2>2. f <= Valid(world, pending)
        BY <2>1, InvTypes DEF Valid
    <2> QED
        BY <2>2 DEF Inv, Core, ConfirmedReal, Real
<1> QED
    BY <1>1, RollbackInvariant, PTL

LEMMA PresentStep ==
    ASSUME Inv, BeforePresent, FirstWrong = 0, NEW f \in 1 .. next - 1
    PROVE  /\ LocalKnown(f) => world[f][1] = Local(f)
           /\ RemoteKnown(f) => world[f][2] = Remote(f)
<1>1. Core(world, entries, snaps, confirmed, next, 0) /\ Len(world) = next - 1
    BY Present DEF BeforePresent, Inv
<1>2. f <= Valid(world, 0)
    BY <1>1, InvTypes DEF Valid
<1>3. CASE f \in 1 .. confirmed
    <2>1. world[f] = Real(f)
        BY <1>1, <1>2, <1>3 DEF Core, ConfirmedReal
    <2> QED
        BY <2>1 DEF Real
<1>4. CASE f \in confirmed + 1 .. next - 1
    <2>1. ~Wrong(f)
        BY <1>1, <1>4, FirstWrongType DEF Unconfirmed
    <2>2. world[f] = Used(entries, f)
        BY <1>1, <1>2, <1>4 DEF Core, SimulatedAsUsed
    <2> QED
        BY <2>1, <2>2 DEF Wrong, Used, Entry
<1> QED
    BY <1>3, <1>4, InvTypes

\* An image is presented only of a state in which every real input known at
\* that moment has been used.
THEOREM ImagesUseAllKnown == Spec => PresentsAllKnown
<1> DEFINE A == (pc = "check" /\ pc' = "after" /\ pending' = 0 /\ replay' = 0) =>
                    \A f \in 1 .. next - 1 :
                       /\ LocalKnown(f) => world[f][1] = Local(f)
                       /\ RemoteKnown(f) => world[f][2] = Remote(f)
<1>1. Inv /\ [Next]_vars => [A]_vars
    <2> SUFFICES ASSUME Inv, Next, pc = "check", pc' = "after", pending' = 0, replay' = 0,
                        NEW f \in 1 .. next - 1
                 PROVE  /\ LocalKnown(f) => world[f][1] = Local(f)
                        /\ RemoteKnown(f) => world[f][2] = Remote(f)
        OBVIOUS
    <2>1. SkipPresent \/ BeforePresent
        BY DEF Next, GameThread, Capture, Arrive, BeginReplay, ContinueReplay, EnterStep, Step, GiveUp
    <2>2. ~SkipPresent
        BY DEF SkipPresent, Replaying
    <2>3. FirstWrong = 0
        BY <2>1, <2>2 DEF BeforePresent
    <2> QED
        BY <2>1, <2>2, <2>3, PresentStep
<1>2. Spec => [][A]_vars
    BY <1>1, RollbackInvariant, PTL DEF Spec
<1> QED
    BY <1>2 DEF PresentsAllKnown

-----------------------------------------------------------------------------
(* What is published is a lockstep game *)

LEMMA LearnStep ==
    ASSUME Inv, Capture \/ Arrive
    PROVE  Confirmed!Learn
<1>1. LanesTypes /\ LanesTypes'
    BY CaptureKeeps, ArriveKeeps DEF Inv
<1>2. \A i \in 0 .. LaneEnd : local[i] # Unknown => local'[i] = local[i]
    BY <1>1 DEF Capture, Arrive, LanesTypes
<1>3. \A i \in 1 .. LaneEnd : remote[i] # Unknown => remote'[i] = remote[i]
    BY <1>1 DEF Capture, Arrive, LanesTypes
<1>4. UNCHANGED <<stream, first>>
    BY DEF Capture, Arrive
<1> QED
    BY <1>1, <1>2, <1>3, <1>4 DEF LanesTypes, Confirmed!Learn

LEMMA PlayStep ==
    ASSUME Inv, EnterStep
    PROVE  Confirmed!Play
<1>1. /\ stream' = stream \o Unpublished(stream) /\ UNCHANGED <<local, remote>>
      /\ first' = IF Ends(world) /\ first = 0 THEN next ELSE first
      /\ pc = "after" /\ pending = 0 /\ replay = 0 /\ Len(world) = next - 1
    BY DEF EnterStep, Publishable, Unpublished, Inv, Control
<1>2. /\ stream' \in Worlds /\ Len(stream') = confirmed
      /\ \A f \in 1 .. Len(stream) : stream'[f] = stream[f]
      /\ \A f \in 1 .. confirmed : stream'[f] = Real(f)
    BY <1>1, NextPublished
<1>3. confirmed \in Len(stream) .. Frames
    BY InvTypes, ConstantsAssumption
<1>4. \A f \in 1 .. confirmed : BothKnown(f) /\ Real(f) = <<local[Source(f)], remote[Source(f)]>>
    BY DEF Inv, Core, ConfirmedReal, Real, Local, Remote
<1>5. \A f \in Nat : Confirmed!Source(f) = Source(f)
    BY DEF Confirmed!Source, Source, SourceFrom
<1>6. \A f \in Len(stream) + 1 .. confirmed :
         local[Confirmed!Source(f)] # Unknown /\ remote[Confirmed!Source(f)] # Unknown
    <2> TAKE f \in Len(stream) + 1 .. confirmed
    <2>1. f \in 1 .. confirmed /\ f \in Nat
        BY InvTypes
    <2> QED
        BY <2>1, <1>4, <1>5 DEF BothKnown, LocalKnown, RemoteKnown, Local, Remote
<1>7. stream' = [f \in 1 .. confirmed |->
                    IF f <= Len(stream) THEN stream[f]
                    ELSE <<local[Confirmed!Source(f)], remote[Confirmed!Source(f)]>>]
    <2>1. stream' = [f \in 1 .. confirmed |-> stream'[f]]
        BY <1>2, LenProperties DEF Worlds
    <2>2. ASSUME NEW f \in 1 .. confirmed
          PROVE  stream'[f] = IF f <= Len(stream) THEN stream[f]
                              ELSE <<local[Confirmed!Source(f)], remote[Confirmed!Source(f)]>>
        <3>1. f \in Nat /\ (f <= Len(stream) => f \in 1 .. Len(stream))
            BY InvTypes
        <3> QED
            BY <3>1, <1>2, <1>4, <1>5
    <2> QED
        BY <2>1, <2>2
<1>8. first' \in {first} \cup (IF first = 0 /\ Ends(stream') THEN {Len(stream') + 1} ELSE {})
    <2>1. CASE Ends(world) /\ first = 0
        <3>1. confirmed = next - 1
            BY <1>1, <2>1 DEF Inv, EndKnown
        <3>2. \A f \in 1 .. confirmed : world[f] = Real(f)
            BY <1>1, <3>1, InvTypes DEF Inv, Core, ConfirmedReal, Valid
        <3>3. world = [f \in 1 .. confirmed |-> world[f]] /\ stream' = [f \in 1 .. confirmed |-> stream'[f]]
            BY <1>1, <1>2, <3>1, LenProperties, InvTypes DEF Worlds
        <3>4. stream' = world
            BY <1>2, <3>2, <3>3
        <3>5. Len(stream') + 1 = next
            BY <1>2, <3>1, InvTypes
        <3> QED
            BY <1>1, <2>1, <3>4, <3>5
    <2>2. CASE ~(Ends(world) /\ first = 0)
        BY <1>1, <2>2
    <2> QED
        BY <2>1, <2>2
<1>9. \E n \in Len(stream) .. Frames :
         /\ \A f \in Len(stream) + 1 .. n :
               local[Confirmed!Source(f)] # Unknown /\ remote[Confirmed!Source(f)] # Unknown
         /\ stream' = [f \in 1 .. n |-> IF f <= Len(stream) THEN stream[f]
                                        ELSE <<local[Confirmed!Source(f)], remote[Confirmed!Source(f)]>>]
    BY <1>3, <1>6, <1>7
<1> QED
    BY <1>1, <1>8, <1>9 DEF Confirmed!Play

\* What the spectators are sent is a lockstep game on the real inputs, and the
\* delay after a round begins only when that game has ended the round.
THEOREM PublishesLockstep == Spec => ImplementsLockstep
<1>1. Init => Confirmed!Init
    BY DEF Init, Confirmed!Init
<1>2. Inv /\ [Next]_vars => [Confirmed!Next]_(Confirmed!vars)
    <2> SUFFICES ASSUME Inv, [Next]_vars PROVE [Confirmed!Next]_(Confirmed!vars)
        OBVIOUS
    <2>1. CASE Capture \/ Arrive
        BY <2>1, LearnStep DEF Confirmed!Next
    <2>2. CASE EnterStep
        BY <2>2, PlayStep DEF Confirmed!Next
    <2>3. CASE SkipPresent \/ BeforePresent \/ BeginReplay \/ ContinueReplay \/ Step \/ GiveUp
        BY <2>3 DEF SkipPresent, BeforePresent, BeginReplay, ContinueReplay, Step, GiveUp, Confirmed!vars
    <2>4. CASE UNCHANGED vars
        BY <2>4 DEF vars, Confirmed!vars
    <2> QED
        BY <2>1, <2>2, <2>3, <2>4 DEF Next, GameThread
<1> QED
    BY <1>1, <1>2, RollbackInvariant, PTL DEF Spec, ImplementsLockstep, Confirmed!Spec
=============================================================================
