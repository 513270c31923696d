----------------------------- MODULE EpochStart -----------------------------
(***************************************************************************)
(* The agreement on the start time of an epoch (a round) between the host  *)
(* and the client of a session: EpochStartGate of sync/EpochStart.hpp, the *)
(* part of SyncCodec that carries its state in every packet, and the wait  *)
(* of SceneRunner that polls the gate.                                     *)
(*                                                                         *)
(* The host offers a start time, the client accepts it, the host commits,  *)
(* the client commits.  Nothing is sent as an event: each side keeps       *)
(* sending the latest state of its gate, and keeps the newest state it has *)
(* received.  The network loses, duplicates and reorders packets, so a     *)
(* packet once sent stays in net and may be received any number of times,  *)
(* or never.                                                               *)
(*                                                                         *)
(* Times of both sides are written in one time base; what the client's     *)
(* clock estimate gets wrong is an element of Errors.  An epoch is its     *)
(* ordinal (the code multiplies it by 65536).                              *)
(***************************************************************************)
EXTENDS Integers

CONSTANTS
    MaxEpoch,   \* bound: epochs 1..MaxEpoch are played
    Horizon,    \* bound: the last instant of the clock
    Guard,      \* the code's guard, 100 ms, in ticks
    Rtts,       \* round-trip estimates the host may read, in ticks
    Errors      \* errors of the client's estimate of a host time, in ticks

ASSUME ConstantsAssumption ==
    /\ MaxEpoch \in Nat
    /\ Horizon \in Nat
    /\ Guard \in Nat \ {0}
    /\ Rtts \subseteq Nat
    /\ Errors \subseteq Int

Host == "host"
Client == "client"
Sides == {Host, Client}
Other(p) == IF p = Host THEN Client ELSE Host

-----------------------------------------------------------------------------
(* The state of a gate, as it is kept and as it is sent. *)

None == 0
Ready == 1
Offer == 2
Accepted == 3
Commit == 4
Committed == 5

Gates == [epoch : Nat, serial : Nat, ticks : Int, stage : None .. Committed]

NoGate == [epoch |-> 0, serial |-> 0, ticks |-> 0, stage |-> None]

ReadyGate(e) == [epoch |-> e, serial |-> 0, ticks |-> 0, stage |-> Ready]

\* EpochStart::Valid
Valid(g) ==
    IF g.epoch = 0 THEN g = NoGate
    ELSE /\ g.stage \in Ready .. Committed
         /\ IF g.stage = Ready THEN g.serial = 0 /\ g.ticks = 0
                               ELSE g.serial > 0 /\ g.ticks > 0

\* EpochStart::NewerThan; a state is "newer" than itself.
NewerThan(g, old) ==
    /\ Valid(g)
    /\ \/ g.epoch > old.epoch
       \/ g.epoch = old.epoch /\ g.serial > old.serial
       \/ /\ g.epoch = old.epoch
          /\ g.serial = old.serial
          /\ g.ticks = old.ticks
          /\ g.stage >= old.stage

\* Mistake: the offer's serial and time are left out of the comparison.
MatchesEpochOnly(g, other) == g.epoch = other.epoch

\* EpochStart::Matches
Matches(g, other) ==
    /\ g.epoch = other.epoch
    /\ g.serial = other.serial
    /\ g.ticks = other.ticks

Clamp(x, lo, hi) == IF x < lo THEN lo ELSE IF x > hi THEN hi ELSE x

\* The host clamps the estimate to 1 s before it uses it.
ClampedRtt(r) == Clamp(r, 0, 10 * Guard)

\* How far ahead of now an offer lies: 3 round trips and 200 ms, between
\* 500 ms and 2500 ms.
Lead(r) == Clamp(3 * r + 2 * Guard, 5 * Guard, 25 * Guard)

-----------------------------------------------------------------------------
VARIABLES
    now,        \* the clock
    gate,       \* gate[p]: EpochStartGate::local, also SharedSyncState::localEpochStart
    due,        \* due[p]: EpochStartGate::dueTicks
    peer,       \* peer[p]: SharedSyncState::peerEpochStart, the newest state received
    peerTicks,  \* SharedSyncState::peerEpochStartLocalTicks of the client
    phase,      \* phase[p]: where side p stands, see Phases
    net         \* the packets sent so far

vars == <<now, gate, due, peer, peerTicks, phase, net>>

\* "waiting": in the wait "epoch future start"; "armed": the gate has answered
\* Armed and the start time is about to be taken; "playing": the input clock
\* runs from due; "failed": SceneRunner::Fail has ended the session.
Phases == {"idle", "waiting", "armed", "playing", "failed"}

Packets == [from : Sides, start : Gates]

Init ==
    /\ now = 0
    /\ gate = [p \in Sides |-> NoGate]
    /\ due = [p \in Sides |-> 0]
    /\ peer = [p \in Sides |-> NoGate]
    /\ peerTicks = 0
    /\ phase = [p \in Sides |-> "idle"]
    /\ net = {}

-----------------------------------------------------------------------------
(* Boundaries between epochs. *)

\* The drain of the previous epoch: side p goes on only when the other side
\* has consumed what p consumed, hence plays this epoch or has left it.
PreviousEpochDrained(p) ==
    gate[p].epoch > 0 =>
        \/ gate[Other(p)].epoch = gate[p].epoch /\ phase[Other(p)] = "playing"
        \/ gate[Other(p)].epoch = gate[p].epoch + 1

\* The first epoch of the session, or the one after a round that has run.
EnterEpoch(p) ==
    /\ \/ phase[p] = "idle"
       \/ phase[p] = "playing" /\ now >= due[p]
    /\ gate[p].epoch < MaxEpoch
    /\ PreviousEpochDrained(p)
    /\ gate' = [gate EXCEPT ![p] = ReadyGate(gate[p].epoch + 1)]
    /\ due' = [due EXCEPT ![p] = 0]
    /\ phase' = [phase EXCEPT ![p] = "waiting"]
    /\ UNCHANGED <<now, peer, peerTicks, net>>

-----------------------------------------------------------------------------
(* The network thread. *)

\* Every packet built while the side is in an epoch carries the gate's state.
Send(p) ==
    /\ gate[p].epoch > 0
    /\ net' = net \cup {[from |-> p, start |-> gate[p]]}
    /\ UNCHANGED <<now, gate, due, peer, peerTicks, phase>>

\* The client converts the host's time with its clock estimate of the moment,
\* or stores 0 when a change of clock source has just discarded the estimate.
Estimates(t) == {t + e : e \in Errors} \cup {0}

\* Mistake: the host's time is converted for the first state received only.
ReceiveConvertsOnce(p, m) ==
    /\ m.from = Other(p)
    /\ NewerThan(m.start, peer[p])
    /\ peer' = [peer EXCEPT ![p] = m.start]
    /\ IF p = Client /\ peerTicks = 0 THEN peerTicks' \in Estimates(m.start.ticks)
                                      ELSE UNCHANGED peerTicks
    /\ UNCHANGED <<now, gate, due, phase, net>>

Receive(p, m) ==
    /\ m.from = Other(p)
    /\ NewerThan(m.start, peer[p])
    /\ peer' = [peer EXCEPT ![p] = m.start]
    /\ IF p = Client THEN peerTicks' \in Estimates(m.start.ticks)
                     ELSE UNCHANGED peerTicks
    /\ UNCHANGED <<now, gate, due, phase, net>>

-----------------------------------------------------------------------------
(* EpochStartGate::Update, polled by the wait "epoch future start". *)

CanUpdate(p) ==
    /\ phase[p] = "waiting"
    /\ peer[p].epoch = gate[p].epoch
    /\ Valid(peer[p])

\* A first offer, or a new one because the time left to the last is too short
\* for the commit to come back.
NeedsOffer(rtt) ==
    \/ gate[Host].stage = Ready
    \/ gate[Host].stage = Offer /\ due[Host] - now < rtt + Guard

NewOffer(rtt) ==
    [epoch |-> gate[Host].epoch, serial |-> gate[Host].serial + 1,
     ticks |-> now + Lead(rtt), stage |-> Offer]

\* The host commits to an offer the client has accepted.
Committing(g) ==
    IF g.stage = Offer /\ peer[Host].stage = Accepted /\ Matches(g, peer[Host])
    THEN [g EXCEPT !.stage = Commit]
    ELSE g

\* Mistake: the host goes without waiting for the client's commit.
HostResultOnAccepted(g, t) ==
    IF g.stage # Commit THEN "waiting"
    ELSE IF now >= t THEN "failed"
    ELSE IF peer[Host].stage >= Accepted /\ Matches(g, peer[Host]) THEN "armed"
    ELSE "waiting"

HostResult(g, t) ==
    IF g.stage # Commit THEN "waiting"
    ELSE IF now >= t THEN "failed"
    ELSE IF peer[Host].stage = Committed /\ Matches(g, peer[Host]) THEN "armed"
    ELSE "waiting"

HostUpdate ==
    /\ CanUpdate(Host)
    /\ \E r \in Rtts :
          LET rtt == ClampedRtt(r)
              offered == IF NeedsOffer(rtt) THEN NewOffer(rtt) ELSE gate[Host]
              t == IF NeedsOffer(rtt) THEN offered.ticks ELSE due[Host]
              g == Committing(offered)
          IN /\ gate' = [gate EXCEPT ![Host] = g]
             /\ due' = [due EXCEPT ![Host] = t]
             /\ phase' = [phase EXCEPT ![Host] = HostResult(g, t)]
    /\ UNCHANGED <<now, peer, peerTicks, net>>

\* The client takes an offer that is newer than the one it holds, if enough
\* time is left, and fixes its own start time there and then.
TakesOffer ==
    /\ peer[Client].stage = Offer
    /\ peer[Client].serial > gate[Client].serial
    /\ peerTicks - now >= Guard

ClientAccept ==
    /\ CanUpdate(Client)
    /\ TakesOffer
    /\ gate' = [gate EXCEPT ![Client] = [peer[Client] EXCEPT !.stage = Accepted]]
    /\ due' = [due EXCEPT ![Client] = peerTicks]
    /\ UNCHANGED <<now, peer, peerTicks, phase, net>>

\* The host's commit reaches the client: in time it commits and is armed, too
\* late it ends the session.
ClientCommit ==
    /\ CanUpdate(Client)
    /\ peer[Client].stage = Commit
    /\ gate[Client].stage = Accepted
    /\ Matches(gate[Client], peer[Client])
    /\ IF now >= due[Client]
       THEN /\ phase' = [phase EXCEPT ![Client] = "failed"]
            /\ UNCHANGED gate
       ELSE /\ gate' = [gate EXCEPT ![Client].stage = Committed]
            /\ phase' = [phase EXCEPT ![Client] = "armed"]
    /\ UNCHANGED <<now, due, peer, peerTicks, net>>

-----------------------------------------------------------------------------
(* After the wait. *)

\* The start time must still lie ahead when the input clock is set to it.
StartInputClock(p) ==
    /\ phase[p] = "armed"
    /\ phase' = [phase EXCEPT ![p] = IF due[p] <= now THEN "failed" ELSE "playing"]
    /\ UNCHANGED <<now, gate, due, peer, peerTicks, net>>

\* The wait ends without the gate's answer: it is cancelled, the peer has
\* fallen silent, or 30 s have passed.
GiveUp(p) ==
    /\ phase[p] = "waiting"
    /\ phase' = [phase EXCEPT ![p] = "failed"]
    /\ UNCHANGED <<now, gate, due, peer, peerTicks, net>>

Tick ==
    /\ now < Horizon
    /\ now' = now + 1
    /\ UNCHANGED <<gate, due, peer, peerTicks, phase, net>>

Next ==
    \/ Tick
    \/ HostUpdate
    \/ ClientAccept
    \/ ClientCommit
    \/ \E p \in Sides :
          \/ EnterEpoch(p)
          \/ Send(p)
          \/ \E m \in net : Receive(p, m)
          \/ StartInputClock(p)
          \/ GiveUp(p)

Spec == Init /\ [][Next]_vars

-----------------------------------------------------------------------------
(* Properties. *)

\* Type invariant: gates and received states are well formed (what Valid lets
\* pass), clocks and start times are in range.
TypeOK ==
    /\ now \in 0 .. Horizon
    /\ gate \in [Sides -> Gates]
    /\ peer \in [Sides -> Gates]
    /\ \A p \in Sides : Valid(gate[p]) /\ Valid(peer[p])
    /\ due \in [Sides -> Int]
    /\ peerTicks \in Int
    /\ phase \in [Sides -> Phases]
    /\ net \subseteq Packets

Going(p) == phase[p] \in {"armed", "playing"}

\* When both sides go in the same epoch they hold the same offer, and their
\* start times differ by no more than the client's clock estimate was wrong
\* when it took that offer (EpochStart.hpp:54, "fixed on receipt").
AgreedStart ==
    (Going(Host) /\ Going(Client) /\ gate[Host].epoch = gate[Client].epoch) =>
        /\ Matches(gate[Host], gate[Client])
        /\ due[Client] - due[Host] \in Errors

\* The host goes only when the client has committed to the very offer the host
\* goes by; it is never left to start a round alone on an offer the client
\* replaced or never took.  (The client may be left alone: its commit is
\* the last message, and the host gives up if it never hears of it.)
HostNeverAlone ==
    (Going(Host) /\ gate[Host].epoch = gate[Client].epoch) =>
        /\ gate[Client].stage = Committed
        /\ Matches(gate[Host], gate[Client])

\* Once the client has committed, the host is committed to the same offer: no
\* packet in flight, however old, brings the host to offer another time.
CommitBinds ==
    (gate[Client].stage = Committed /\ gate[Host].epoch = gate[Client].epoch) =>
        /\ gate[Host].stage = Commit
        /\ Matches(gate[Host], gate[Client])

\* A start time moves only with a new offer: later packets and later clock
\* estimates for the same offer leave it alone (EpochStart.hpp:54).
DueFixedPerOffer ==
    [][\A p \in Sides :
          (gate[p].serial > 0 /\ Matches(gate[p], gate'[p])) => due'[p] = due[p]]_vars

\* The host never commits to a start that is closer than the guard: it offers
\* again instead (EpochStart.hpp:39).
CommitLeavesTime ==
    [][(gate[Host].stage # Commit /\ gate'[Host].stage = Commit) =>
          due'[Host] - now >= Guard]_vars

\* The refinement mapping.
Progress(p) == IF phase[p] = "failed" THEN "out" ELSE IF Going(p) THEN "going" ELSE phase[p]

Decision == IF gate[Host].stage = Commit THEN {gate[Host].ticks} ELSE {}

Goal(p) == IF Going(p) THEN {gate[p].ticks} ELSE {}

Agreement == INSTANCE StartAgreement WITH
    epoch <- [p \in Sides |-> gate[p].epoch],
    state <- [p \in Sides |-> Progress(p)],
    decided <- Decision,
    bound <- gate[Client].stage = Committed,
    goal <- [p \in Sides |-> Goal(p)]

\* The packet exchange implements the abstract agreement: one decision per
\* epoch, the client bound before the host goes, everyone by the decided time.
ImplementsAgreement == Agreement!Spec
=============================================================================
