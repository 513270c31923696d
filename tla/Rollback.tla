------------------------------ MODULE Rollback ------------------------------
(***************************************************************************)
(* One side's game thread during a battle with rollback: it simulates      *)
(* frames with predicted inputs, and when a real input turns out to differ *)
(* it restores the snapshot of that frame and simulates again up to the    *)
(* present before it shows an image.                                       *)
(*                                                                         *)
(* Modelled are SceneRunner::Step (its battle part), BeforePresent and     *)
(* ContinueReplay, the order in which GameFrameOrchestrator calls them,    *)
(* PredictionHistory, RollbackStates and PostRoundDelay.  The input thread *)
(* and the network thread are the actions Capture and Arrive: own inputs   *)
(* are taken in order, the other player's arrive in any order.             *)
(*                                                                         *)
(* The state of the game is the sequence of inputs it has been fed with,   *)
(* so two states are equal only when every input is.  Inputs are numbered  *)
(* so that frame f is fed with input f before the extra delay (the code    *)
(* adds inputLead on both sides).                                          *)
(***************************************************************************)
EXTENDS Integers, Sequences, FiniteSetsExt

CONSTANTS
    Frames,     \* bound: frames 1..Frames are simulated
    Inputs,     \* the input values
    Limit,      \* frames that may be unconfirmed, BurstRollback (20) in the code
    Slots,      \* size of the two rings, RollbackHistoryFrames (32) in the code
    Aheads,     \* how far Capture() may be ahead of the frame's input: D - inputLead
    Extra,      \* the agreed R: extra delay after the end of a round
    Ends(_)     \* is the game fed with these inputs past the end of the round?

Neutral == 0
Unknown == -1

\* NetplaySettings::MaxDelay, the greatest input delay D
MaxDelay == 8

ASSUME ConstantsAssumption ==
    /\ Frames \in Nat
    /\ Inputs \subseteq Nat
    /\ Neutral \in Inputs
    /\ Limit \in Nat \ {0}
    /\ Slots \in Nat /\ Slots > Limit
    /\ Aheads \subseteq -1 .. MaxDelay
    /\ Extra \in Nat \ {0}
    /\ Ends(<<>>) = FALSE

LaneEnd == Frames + Max(Aheads \cup {0})

Worlds == Seq(Inputs \X Inputs)

VARIABLES
    ahead,      \* D - inputLead; it never changes within a session
    local,      \* local[i]: own input i, Unknown until it is taken
    remote,     \* remote[i]: the other player's input i, Unknown until received
    world,      \* the state of the game: what it has been fed with
    next,       \* FrameSequence::Next, also PredictionHistory::next_
    confirmed,  \* PredictionHistory::confirmed_
    entries,    \* PredictionHistory::entries_, the inputs used, by slot
    snaps,      \* RollbackStates::slots_, the states saved, by slot
    pending,    \* runtime.pendingReplay: where a replay is to begin, or 0
    replay,     \* runtime.replayFrame: the next frame to replay, or 0
    target,     \* runtime.replayTarget: where the replay ends
    first,      \* PostRoundDelay::first
    stream,     \* what has been published to the spectators
    pc          \* the callback that is due, see Callbacks

vars == <<ahead, local, remote, world, next, confirmed, entries, snaps, pending,
          replay, target, first, stream, pc>>

\* "after": GameFrameOrchestrator::OnAfterPresent; "simulate": Step past its
\* entry; "check": OnPresent; "failed": SceneRunner::Fail has ended the session;
\* "stopped": a wait was cancelled or ran out of time.
Callbacks == {"after", "simulate", "check", "failed", "stopped"}

Slot(f) == f % Slots

Init ==
    /\ ahead \in Aheads
    /\ local = [i \in 0 .. LaneEnd |-> IF i <= ahead THEN Neutral ELSE Unknown]
    /\ remote = [i \in 1 .. LaneEnd |-> Unknown]
    /\ world = <<>>
    /\ next = 1
    /\ confirmed = 0
    /\ entries = [s \in 0 .. Slots - 1 |-> [frame |-> 0, local |-> 0, remote |-> 0]]
    /\ snaps = [s \in 0 .. Slots - 1 |-> [frame |-> 0, world |-> <<>>]]
    /\ pending = 0
    /\ replay = 0
    /\ target = 0
    /\ first = 0
    /\ stream = <<>>
    /\ pc = "after"

-----------------------------------------------------------------------------
(* The other threads. *)

\* The input thread takes the next own input.
Capture ==
    /\ \E i \in 0 .. LaneEnd, v \in Inputs :
          /\ local[i] = Unknown
          /\ \A j \in 0 .. i - 1 : local[j] # Unknown
          /\ local' = [local EXCEPT ![i] = v]
    /\ UNCHANGED <<ahead, remote, world, next, confirmed, entries, snaps, pending,
                   replay, target, first, stream, pc>>

\* The network thread stores one of the other player's inputs.
Arrive ==
    /\ \E i \in 1 .. LaneEnd, v \in Inputs :
          /\ remote[i] = Unknown
          /\ remote' = [remote EXCEPT ![i] = v]
    /\ UNCHANGED <<ahead, local, world, next, confirmed, entries, snaps, pending,
                   replay, target, first, stream, pc>>

-----------------------------------------------------------------------------
(* What the game thread knows. *)

\* PostRoundDelay::Source: from first on the last input is held for Extra
\* frames, then inputs are taken Extra frames later than before.
SourceFrom(start, f) ==
    IF start = 0 \/ f < start THEN f
    ELSE IF f - start < Extra THEN start - 1 ELSE f - Extra

Source(f) == SourceFrom(first, f)

\* ReadAlignedLocal, ReadAlignedRemote
Local(f) == local[Source(f)]
Remote(f) == remote[Source(f)]

LocalKnown(f) == Local(f) # Unknown
RemoteKnown(f) == Remote(f) # Unknown
BothKnown(f) == LocalKnown(f) /\ RemoteKnown(f)

\* PredictionHistory::Get
Entry(f) == entries[Slot(f)]
Held(f) == Entry(f).frame = f

\* PredictionHistory::Prediction: what history h says was used one frame earlier.
Before(f, h, lane) ==
    IF f > 1 /\ h[Slot(f - 1)].frame = f - 1 THEN h[Slot(f - 1)][lane] ELSE Neutral

Unconfirmed == confirmed + 1 .. next - 1

\* IGameMemory::CanRollback: input is not locked on both sides.
CanRollback == ~Ends(world)

\* Mistake: the limit is forgotten.
NeverFull(c) == TRUE

\* PredictionHistory::CanPredict, with everything up to c confirmed
CanPredict(c) == next - c <= Limit

\* Step: prediction is over once the end of the round is confirmed.
AllowPrediction == CanRollback /\ first = 0

-----------------------------------------------------------------------------
(* PredictionHistory::Reconcile: what is known now corrects the inputs used. *)

Wrong(f) ==
    \/ LocalKnown(f) /\ Entry(f).local # Local(f)
    \/ RemoteKnown(f) /\ Entry(f).remote # Remote(f)

\* Mistake: the search ends at the first frame that is not confirmed yet.
FirstWrongBeforeGap ==
    LET wrong == {f \in Unconfirmed : Wrong(f) /\ \A g \in confirmed + 1 .. f : BothKnown(g)}
    IN IF wrong = {} THEN 0 ELSE Min(wrong)

\* The frame to go back to: the first whose entry is lost, else the first that
\* was fed with something else than what is known now.
FirstWrong ==
    LET lost == {f \in Unconfirmed : ~Held(f)}
        wrong == {f \in Unconfirmed : Wrong(f)}
    IN IF lost # {} THEN Min(lost) ELSE IF wrong # {} THEN Min(wrong) ELSE 0

\* The frames that the search reaches.
Scanned == {f \in Unconfirmed : \A g \in confirmed + 1 .. f : Held(g)}

\* Confirmed are the frames up to the first of which an input is missing.
NowConfirmed == Max({confirmed} \cup
    {f \in Scanned : \A g \in confirmed + 1 .. f : BothKnown(g)})

Corrected ==
    [s \in 0 .. Slots - 1 |->
        IF \E f \in Scanned : Slot(f) = s
        THEN LET f == entries[s].frame
             IN [frame |-> f,
                 local |-> IF LocalKnown(f) THEN Local(f) ELSE entries[s].local,
                 remote |-> IF RemoteKnown(f) THEN Remote(f) ELSE entries[s].remote]
        ELSE entries[s]]

-----------------------------------------------------------------------------
(* GameFrameOrchestrator::OnPresent, SceneRunner::BeforePresent. *)

Replaying == replay # 0 /\ replay < target

\* Mistake: the end of a round is not waited out.
DrainsCapacityOnly == ~CanPredict(confirmed) => BothKnown(confirmed + 1)

\* The wait "rollback boundary drain": at the end of a round everything must
\* be known; with no room left to predict, the oldest unconfirmed frame.
Drained ==
    IF Ends(world) THEN \A f \in Unconfirmed : BothKnown(f)
    ELSE ~CanPredict(confirmed) => BothKnown(confirmed + 1)

\* A replay that is under way keeps the image back.
SkipPresent ==
    /\ pc = "check"
    /\ Replaying
    /\ pc' = "after"
    /\ UNCHANGED <<ahead, local, remote, world, next, confirmed, entries, snaps,
                   pending, replay, target, first, stream>>

\* Otherwise a finished replay is closed and all that is known is compared with
\* what was used; a difference starts another replay instead of the image.
BeforePresent ==
    /\ pc = "check"
    /\ ~Replaying
    /\ Drained
    /\ replay' = 0
    /\ entries' = Corrected
    /\ confirmed' = NowConfirmed
    /\ pending' = FirstWrong
    /\ pc' = "after"
    /\ UNCHANGED <<ahead, local, remote, world, next, snaps, target, first, stream>>

-----------------------------------------------------------------------------
(* Simulating a frame again. *)

\* What PredictionHistory keeps of frame f.
Recorded(f, h, l, r) ==
    [h EXCEPT ![Slot(f)] = [frame |-> f, local |-> l, remote |-> r]]

\* Mistake: a replay saves no snapshots.
NoReplaySnapshot(f, c) == FALSE

\* PredictionHistory::NeedsReplaySnapshot, with everything up to c confirmed
NeedsReplaySnapshot(f, c) == f > c

Saved(f, w) == [snaps EXCEPT ![Slot(f)] = [frame |-> f, world |-> w]]

\* One frame of ContinueReplay, f, on the state w, with the history h that is
\* confirmed up to c.  Inputs still missing repeat those of the frame before.
Resimulate(f, w, h, c) ==
    LET l == IF LocalKnown(f) THEN Local(f) ELSE Before(f, h, "local")
        r == IF RemoteKnown(f) THEN Remote(f) ELSE Before(f, h, "remote")
    IN IF h[Slot(f)].frame # f
       THEN /\ pc' = "failed"
            /\ UNCHANGED <<world, entries, snaps, replay>>
       ELSE /\ entries' = Recorded(f, h, l, r)
            /\ snaps' = IF NeedsReplaySnapshot(f, c) THEN Saved(f, w) ELSE snaps
            /\ world' = Append(w, <<l, r>>)
            /\ replay' = f + 1
            /\ pc' = "check"

\* BeginRollback and the first frame of the replay
RestoreAndResimulate(f, h, c) ==
    IF snaps[Slot(f)].frame # f
    THEN /\ pc' = "failed"
         /\ UNCHANGED <<world, entries, snaps, replay, target>>
    ELSE /\ target' = next
         /\ Resimulate(f, snaps[Slot(f)].world, h, c)

\* Mistake: the request for a replay is not taken off.
KeepsPending == pending

\* A request for a replay is taken off when the replay begins.
TakenOff == 0

\* ContinueReplay, called by OnAfterPresent, begins a replay ...
BeginReplay ==
    /\ pc = "after"
    /\ pending # 0
    /\ pending' = TakenOff
    /\ RestoreAndResimulate(pending, entries, confirmed)
    /\ UNCHANGED <<ahead, local, remote, next, confirmed, first, stream>>

\* ... or goes on with one.
ContinueReplay ==
    /\ pc = "after"
    /\ pending = 0
    /\ replay # 0
    /\ IF replay = target
       THEN pc' = "failed" /\ UNCHANGED <<world, entries, snaps, replay>>
       ELSE Resimulate(replay, world, entries, confirmed)
    /\ UNCHANGED <<ahead, local, remote, next, confirmed, pending, target, first, stream>>

-----------------------------------------------------------------------------
(* SceneRunner::Step *)

\* What may be published: confirmed frames.
Publishable == confirmed

\* The entry of Step: newly confirmed inputs are published, and once the end
\* of the round is confirmed the extra delay begins.
EnterStep ==
    /\ pc = "after"
    /\ pending = 0
    /\ replay = 0
    /\ next <= Frames
    /\ stream' = stream \o [i \in 1 .. Publishable - Len(stream) |->
                               <<Entry(Len(stream) + i).local, Entry(Len(stream) + i).remote>>]
    /\ first' = IF Ends(world) /\ first = 0 THEN next ELSE first
    /\ pc' = "simulate"
    /\ UNCHANGED <<ahead, local, remote, world, next, confirmed, entries, snaps,
                   pending, replay, target>>

\* WaitForCapture
Captured == local[next + ahead] # Unknown

\* The frame can be fed at once, with real or with predicted inputs.
NoWait == CanPredict(confirmed) /\ (BothKnown(next) \/ AllowPrediction)

\* PredictionHistory::ReadyToResume, the wait "remote input"
ReadyToResume ==
    IF AllowPrediction /\ ~CanPredict(confirmed)
    THEN BothKnown(confirmed + 1)
    ELSE \A f \in confirmed + 1 .. next : BothKnown(f)

\* An own input that is missing repeats the last one that was taken.
FedLocal(h) ==
    IF LocalKnown(next) THEN Local(next)
    ELSE IF local[Source(next) - 1] # Unknown THEN local[Source(next) - 1]
    ELSE Before(next, h, "local")

\* A missing input of the other player repeats the last one used.
FedRemote(h) == IF RemoteKnown(next) THEN Remote(next) ELSE Before(next, h, "remote")

\* The frame is simulated with history h, confirmed up to c.
Simulate(h, c) ==
    /\ confirmed' = c
    /\ IF ~BothKnown(next) /\ ~(AllowPrediction /\ CanPredict(c))
       THEN /\ pc' = "failed"
            /\ entries' = h
            /\ UNCHANGED <<world, next, snaps>>
       ELSE /\ snaps' = IF CanRollback THEN Saved(next, world) ELSE snaps
            /\ entries' = Recorded(next, h, FedLocal(h), FedRemote(h))
            /\ world' = Append(world, <<FedLocal(h), FedRemote(h)>>)
            /\ next' = next + 1
            /\ pc' = "check"
    /\ UNCHANGED <<replay, target>>

\* The frame is simulated at once, or after a wait; what has arrived in the
\* meantime is reconciled first, and may call for a replay.
Step ==
    /\ pc = "simulate"
    /\ Captured
    /\ IF NoWait THEN Simulate(entries, confirmed)
       ELSE /\ ReadyToResume
            /\ IF FirstWrong = 0 THEN Simulate(Corrected, NowConfirmed)
               ELSE /\ confirmed' = NowConfirmed
                    /\ UNCHANGED next
                    /\ RestoreAndResimulate(FirstWrong, Corrected, NowConfirmed)
    /\ UNCHANGED <<ahead, local, remote, pending, first, stream>>

\* A wait ends without what it waits for: cancelled, peer silent, or 3 s over.
GiveUp ==
    /\ \/ pc = "check" /\ ~Replaying /\ ~Drained
       \/ pc = "simulate" /\ ~(Captured /\ (NoWait \/ ReadyToResume))
    /\ pc' = "stopped"
    /\ UNCHANGED <<ahead, local, remote, world, next, confirmed, entries, snaps,
                   pending, replay, target, first, stream>>

GameThread == SkipPresent \/ BeforePresent \/ BeginReplay \/ ContinueReplay \/ EnterStep \/ Step

Next == Capture \/ Arrive \/ GameThread \/ GiveUp

Spec == Init /\ [][Next]_vars

\* The input clock and the packets of a peer that is alive go on, and the game
\* calls its callbacks.
FairSpec == Spec /\ WF_vars(Capture) /\ WF_vars(Arrive) /\ WF_vars(GameThread)

-----------------------------------------------------------------------------
(* Properties. *)

\* Type invariant, with the ranges of the frame counters.
TypeOK ==
    /\ ahead \in Aheads
    /\ local \in [0 .. LaneEnd -> Inputs \cup {Unknown}]
    /\ remote \in [1 .. LaneEnd -> Inputs \cup {Unknown}]
    /\ world \in Worlds /\ Len(world) < next
    /\ next \in 1 .. Frames + 1
    /\ confirmed \in 0 .. next - 1
    /\ entries \in [0 .. Slots - 1 -> [frame : 0 .. Frames, local : Inputs, remote : Inputs]]
    /\ snaps \in [0 .. Slots - 1 -> [frame : 0 .. Frames, world : Worlds]]
    /\ pending \in 0 .. next - 1
    /\ replay \in 0 .. next /\ (pending # 0 => replay = 0)
    /\ target \in 0 .. next
    /\ first \in 0 .. next
    /\ stream \in Worlds
    /\ pc \in Callbacks

\* The two rings are large enough and the steps are in the right order: no
\* rollback finds its snapshot or its history overwritten, no frame is due
\* without an input, no replay is left open.  (The branches that call Fail.)
NeverFails == pc # "failed"

\* Nothing is being replayed or about to be.
Settled == pending = 0 /\ ~Replaying

\* Once a replay is over, the game has been fed with the real inputs of both
\* players on every confirmed frame, whatever was predicted, restored and
\* replayed before.  No stale snapshot or old prediction survives.
ConfirmedIsTruth ==
    Settled => \A f \in 1 .. confirmed : world[f] = <<Local(f), Remote(f)>>

\* An image is presented only of a state in which every real input known at
\* that moment has been used, also those of frames after one still missing
\* (PredictionHistory.hpp:46).
PresentsAllKnown ==
    [][(pc = "check" /\ pc' = "after" /\ pending' = 0 /\ replay' = 0) =>
          \A f \in 1 .. next - 1 :
             /\ LocalKnown(f) => world[f][1] = Local(f)
             /\ RemoteKnown(f) => world[f][2] = Remote(f)]_vars

\* What the spectators are sent is a lockstep game on the real inputs, and the
\* delay after a round begins only when that game has ended the round.
Confirmed == INSTANCE Lockstep WITH game <- stream
ImplementsLockstep == Confirmed!Spec

\* While the peer's inputs and the clock keep coming, the game goes on: replays
\* end, and waits end.
Progress == <>(next > Frames \/ pc = "stopped")

\* Both sides feed their game alike (harness/compare_rollback_pair.py compares
\* the [REC] lines of all confirmed frames): after the round has ended in frame
\* e, this side feeds what the other feeds when it noticed the end in frame e.
FedLikePeer ==
    Settled => \A e \in 1 .. confirmed :
        (Ends(SubSeq(world, 1, e)) /\ ~Ends(SubSeq(world, 1, e - 1))) =>
            \A f \in e + 1 .. confirmed :
                world[f] = <<local[SourceFrom(e + 1, f)], remote[SourceFrom(e + 1, f)]>>
=============================================================================
