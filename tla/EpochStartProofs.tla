-------------------------- MODULE EpochStartProofs --------------------------
(***************************************************************************)
(* Proofs about EpochStart, for every clock horizon, guard, set of round   *)
(* trips and set of estimation errors.                                     *)
(*                                                                         *)
(* The safety properties are not inductive: they speak of gates, while a   *)
(* step is taken on a state received long ago.  The strengthening says of  *)
(* every state in flight or stored what the sender has done since.         *)
(***************************************************************************)
EXTENDS EpochStart, TLAPS

StagesOf(p) == IF p = Host THEN {None, Ready, Offer, Commit}
                           ELSE {None, Ready, Accepted, Committed}

\* g is a state that side p has published: p has not gone back behind it, and
\* a commitment is p's last word in its epoch.
Published(p, g) ==
    /\ g \in Gates
    /\ Valid(g)
    /\ g.stage \in StagesOf(p)
    /\ NewerThan(gate[p], g)
    /\ (g.stage \in {Commit, Committed} /\ g.epoch = gate[p].epoch) => gate[p] = g

NetPublished == \A m \in net : Published(m.from, m.start)

PeerPublished == \A p \in Sides : Published(Other(p), peer[p])

\* What the phase of a side says of its gate.
PhaseOfGate ==
    \A p \in Sides :
        /\ gate[p].stage \in StagesOf(p)
        /\ phase[p] = "idle" <=> gate[p].epoch = 0
        /\ Going(p) => gate[p].stage \in {Commit, Committed}
        /\ phase[p] = "waiting" => gate[p].stage # Committed

\* A side that lags behind the other is about to enter the other's epoch, and
\* a side that goes has heard of the other in its own epoch.
EpochsApart ==
    \A p \in Sides :
        /\ gate[p].epoch > gate[Other(p)].epoch =>
              /\ gate[p].epoch = gate[Other(p)].epoch + 1
              /\ phase[Other(p)] \in {"idle", "playing"}
        /\ Going(p) => gate[p].epoch <= gate[Other(p)].epoch

\* The client holds nothing the host has not offered.
ClientHolds ==
    /\ gate[Client].epoch > gate[Host].epoch => gate[Client].stage = Ready
    /\ gate[Client].epoch = gate[Host].epoch =>
          /\ gate[Client].serial <= gate[Host].serial
          /\ (gate[Client].serial > 0 /\ gate[Client].serial = gate[Host].serial) =>
                gate[Client].ticks = gate[Host].ticks

\* Where the start times come from.
DueTimes ==
    /\ gate[Host].serial > 0 => due[Host] = gate[Host].ticks
    /\ gate[Client].serial > 0 => due[Client] - gate[Client].ticks \in Errors
    /\ peerTicks \in Estimates(peer[Client].ticks)

IInv ==
    /\ TypeOK
    /\ NetPublished
    /\ PeerPublished
    /\ PhaseOfGate
    /\ EpochsApart
    /\ ClientHolds
    /\ DueTimes
    /\ CommitBinds
    /\ HostNeverAlone

USE ConstantsAssumption
USE DEF Host, Client, Sides, Other, None, Ready, Offer, Accepted, Commit, Committed

-----------------------------------------------------------------------------
(* Gates only move forward. *)

\* The order of gate states is transitive.
LEMMA NewerThanTransitive ==
    ASSUME NEW g \in Gates, NEW h \in Gates, NEW k \in Gates,
           NewerThan(g, h), NewerThan(h, k)
    PROVE  NewerThan(g, k)
BY DEF NewerThan, Gates

\* How a step may change the gate of side p.
Advances(p) ==
    /\ gate'[p] \in Gates
    /\ Valid(gate'[p])
    /\ gate'[p].stage \in StagesOf(p)
    /\ NewerThan(gate'[p], gate[p])
    /\ (gate[p].stage \in {Commit, Committed} /\ gate'[p].epoch = gate[p].epoch) =>
          gate'[p] = gate[p]

\* What a side has published stays published when its gate advances.
LEMMA PublishedStays ==
    ASSUME NEW p \in Sides, NEW g, gate[p] \in Gates, Published(p, g), Advances(p)
    PROVE  Published(p, g)'
<1>1. NewerThan(gate'[p], g)
    BY NewerThanTransitive DEF Published, Advances
<1>2. ASSUME g.stage \in {Commit, Committed}, g.epoch = gate'[p].epoch
      PROVE  gate'[p] = g
    <2>1. gate[p].epoch = g.epoch
        BY <1>2 DEF Published, Advances, NewerThan, Gates
    <2>. QED BY <1>2, <2>1 DEF Published, Advances
<1>. QED BY <1>1, <1>2 DEF Published, Valid, NewerThan, StagesOf

\* A gate that does not change advances.
LEMMA UnchangedAdvances ==
    ASSUME NEW p \in Sides, IInv, gate'[p] = gate[p]
    PROVE  Advances(p)
BY DEF IInv, TypeOK, PhaseOfGate, Advances, NewerThan, Gates

\* When both gates advance and nothing new is sent or stored, all that is in
\* flight or stored is still published.
LEMMA AllPublishedStay ==
    ASSUME IInv, \A p \in Sides : Advances(p), UNCHANGED <<peer, net>>
    PROVE  NetPublished' /\ PeerPublished'
<1>1. \A p \in Sides : gate[p] \in Gates
    BY DEF IInv, TypeOK
<1>2. ASSUME NEW m \in net PROVE Published(m.from, m.start)'
    <2>1. m.from \in Sides /\ Published(m.from, m.start)
        BY DEF IInv, TypeOK, Packets, NetPublished
    <2>. QED BY <1>1, <2>1, PublishedStays
<1>3. ASSUME NEW p \in Sides PROVE Published(Other(p), peer[p])'
    <2>1. Other(p) \in Sides /\ Published(Other(p), peer[p])
        BY DEF IInv, PeerPublished
    <2>2. peer'[p] = peer[p]
        OBVIOUS
    <2>. QED BY <1>1, <2>1, <2>2, PublishedStays
<1>. QED BY <1>2, <1>3 DEF NetPublished, PeerPublished

-----------------------------------------------------------------------------
(* One lemma per action: it preserves the inductive invariant. *)

LEMMA EstimatesAreTimes == ASSUME NEW t \in Int PROVE Estimates(t) \subseteq Int
<1>. SUFFICES ASSUME NEW e \in Errors PROVE t + e \in Int
    BY DEF Estimates
<1>. QED BY DEF ConstantsAssumption

LEMMA EnterEpochKeeps ==
    ASSUME NEW p \in Sides, IInv, EnterEpoch(p)
    PROVE  IInv'
<1>1. TypeOK'
    BY DEF IInv, TypeOK, EnterEpoch, ReadyGate, Gates, Valid, Phases
<1>2. \A q \in Sides : Advances(q)
    <2>1. Advances(p)
        BY <1>1 DEF IInv, TypeOK, EnterEpoch, ReadyGate, Gates, Advances, NewerThan, StagesOf, Valid
    <2>2. gate'[Other(p)] = gate[Other(p)]
        BY DEF IInv, TypeOK, EnterEpoch
    <2>. QED BY <2>1, <2>2, UnchangedAdvances
<1>3. NetPublished' /\ PeerPublished'
    BY <1>2, AllPublishedStay DEF EnterEpoch
<1>4. PhaseOfGate'
    BY DEF IInv, TypeOK, PhaseOfGate, EnterEpoch, ReadyGate, Gates, Going, StagesOf
<1>5. EpochsApart'
    BY DEF IInv, TypeOK, EpochsApart, PhaseOfGate, EnterEpoch, PreviousEpochDrained, ReadyGate, Gates,
           Going
<1>6. ClientHolds'
    <2>1. CASE p = Client
        BY <2>1 DEF IInv, TypeOK, ClientHolds, EnterEpoch, ReadyGate, Gates
    <2>2. CASE p = Host
        BY <2>2 DEF IInv, TypeOK, Valid, ClientHolds, EpochsApart, EnterEpoch, ReadyGate, Gates
    <2>. QED BY <2>1, <2>2
<1>7. DueTimes'
    BY DEF IInv, TypeOK, DueTimes, EnterEpoch, ReadyGate, Gates, Estimates
<1>8. CommitBinds' /\ HostNeverAlone'
    <2>1. CASE p = Client
        \* The host goes in the epoch the client has just left, or lags behind.
        <3>1. gate'[Client].stage = Ready /\ gate'[Client].epoch = gate[Client].epoch + 1
            BY <2>1 DEF IInv, TypeOK, EnterEpoch, ReadyGate
        <3>2. gate[Host].epoch = gate[Client].epoch + 1 => ~Going(Host)
            BY <2>1 DEF IInv, TypeOK, EpochsApart, EnterEpoch, Gates, Going
        <3>. QED
            BY <2>1, <3>1, <3>2 DEF IInv, TypeOK, CommitBinds, HostNeverAlone, EnterEpoch, Gates, Going
    <2>2. CASE p = Host
        <3>1. gate'[Client].epoch = gate'[Host].epoch => gate[Client].stage = Ready
            BY <2>2 DEF IInv, TypeOK, ClientHolds, EnterEpoch, ReadyGate, Gates
        <3>2. ~Going(Host)'
            BY <2>2 DEF IInv, TypeOK, EnterEpoch, Going
        <3>. QED
            BY <2>2, <3>1, <3>2 DEF IInv, TypeOK, CommitBinds, HostNeverAlone, EnterEpoch, Gates
    <2>. QED BY <2>1, <2>2
<1>. QED BY <1>1, <1>3, <1>4, <1>5, <1>6, <1>7, <1>8 DEF IInv

LEMMA SendKeeps ==
    ASSUME NEW p \in Sides, IInv, Send(p)
    PROVE  IInv'
<1>1. TypeOK'
    BY DEF IInv, TypeOK, Send, Packets
<1>2. Published(p, gate[p])'
    BY DEF IInv, TypeOK, PhaseOfGate, Send, Published, NewerThan, Gates
<1>3. \A q \in Sides : Advances(q)
    BY UnchangedAdvances DEF Send
<1>4. NetPublished'
    <2>1. ASSUME NEW m \in net PROVE Published(m.from, m.start)'
        BY <1>3, PublishedStays DEF IInv, TypeOK, Packets, NetPublished
    <2>. QED BY <1>2, <2>1 DEF NetPublished, Send
<1>5. PeerPublished'
    BY DEF IInv, PeerPublished, Published, Send
<1>. QED
    BY <1>1, <1>4, <1>5 DEF IInv, PhaseOfGate, EpochsApart, ClientHolds, DueTimes, CommitBinds, HostNeverAlone,
                            Going, Send

LEMMA ReceiveKeeps ==
    ASSUME NEW p \in Sides, NEW m \in net, IInv, Receive(p, m)
    PROVE  IInv'
<1>1. m.from = Other(p) /\ m.start \in Gates /\ Published(Other(p), m.start)
    BY DEF IInv, TypeOK, Packets, NetPublished, Receive
<1>2. peerTicks' \in Int
    <2>1. m.start.ticks \in Int
        BY <1>1 DEF Gates
    <2>. QED BY <2>1, EstimatesAreTimes DEF IInv, TypeOK, Receive
<1>3. TypeOK'
    BY <1>1, <1>2 DEF IInv, TypeOK, Receive, NewerThan
<1>4. NetPublished'
    BY DEF IInv, NetPublished, Published, Receive
<1>5. PeerPublished'
    BY <1>1 DEF IInv, TypeOK, PeerPublished, Published, Receive
<1>6. DueTimes'
    BY <1>1 DEF IInv, TypeOK, DueTimes, Receive
<1>. QED
    BY <1>3, <1>4, <1>5, <1>6 DEF IInv, PhaseOfGate, EpochsApart, ClientHolds, CommitBinds, HostNeverAlone,
                                  Going, Receive

\* Polling the host's gate.  A new offer is newer than all that came before; a
\* commit keeps the offer; the host is armed by a client that has committed.
LEMMA HostUpdateKeeps ==
    ASSUME IInv, HostUpdate
    PROVE  IInv'
<1> DEFINE offered(rtt) == IF NeedsOffer(rtt) THEN NewOffer(rtt) ELSE gate[Host]
           t(rtt) == IF NeedsOffer(rtt) THEN offered(rtt).ticks ELSE due[Host]
           g(rtt) == Committing(offered(rtt))
<1>1. PICK rtt \in Nat :
          /\ gate' = [gate EXCEPT ![Host] = g(rtt)]
          /\ due' = [due EXCEPT ![Host] = t(rtt)]
          /\ phase' = [phase EXCEPT ![Host] = HostResult(g(rtt), t(rtt))]
    <2>1. \A r \in Rtts : ClampedRtt(r) \in Nat
        BY DEF ConstantsAssumption, ClampedRtt, Clamp
    <2>. QED BY <2>1 DEF HostUpdate
<1>2. /\ CanUpdate(Host)
      /\ gate[Host] \in Gates /\ Valid(gate[Host]) /\ gate[Host].epoch > 0
      /\ gate[Host].stage \in {Ready, Offer, Commit}
      /\ peer[Host] \in Gates /\ Published(Client, peer[Host])
      /\ UNCHANGED <<now, peer, peerTicks, net>>
    <2>1. CanUpdate(Host) /\ UNCHANGED <<now, peer, peerTicks, net>>
        BY DEF HostUpdate
    <2>2. gate[Host].epoch > 0 /\ gate[Host].stage # None
        BY <2>1 DEF IInv, TypeOK, PhaseOfGate, CanUpdate, Valid, Gates
    <2>. QED BY <2>1, <2>2 DEF IInv, TypeOK, PeerPublished, PhaseOfGate, StagesOf
<1> DEFINE o == offered(rtt)
<1>3. NewOffer(rtt) \in Gates /\ Valid(NewOffer(rtt)) /\ NewOffer(rtt).ticks > 0
    <2>1. now \in Nat /\ Lead(rtt) \in Nat /\ Lead(rtt) > 0
        BY DEF IInv, TypeOK, ConstantsAssumption, Lead, Clamp
    <2>. QED BY <1>2, <2>1 DEF NewOffer, Gates, Valid
<1>4. /\ o \in Gates /\ Valid(o) /\ o.epoch = gate[Host].epoch
      /\ o.stage \in {Offer, Commit}
      /\ o = gate[Host] \/ (o.serial = gate[Host].serial + 1 /\ o.stage = Offer /\ gate[Host].stage # Commit)
      /\ o.stage = Commit => o = gate[Host]
      /\ t(rtt) \in Int /\ t(rtt) = o.ticks
    BY <1>2, <1>3 DEF NeedsOffer, NewOffer, IInv, TypeOK, DueTimes, Gates, Valid
<1> HIDE DEF offered, t
<1>5. /\ g(rtt) \in Gates /\ Valid(g(rtt)) /\ Matches(g(rtt), o)
      /\ g(rtt) = o \/ (o.stage = Offer /\ g(rtt).stage = Commit)
    <2>1. CASE g(rtt) = o
        BY <1>4, <2>1 DEF Matches
    <2>2. CASE g(rtt) = [o EXCEPT !.stage = Commit] /\ o.stage = Offer
        <3>1. g(rtt) \in Gates
            BY <1>4, <2>2 DEF Gates
        <3>2. /\ g(rtt).epoch = o.epoch /\ g(rtt).serial = o.serial /\ g(rtt).ticks = o.ticks
              /\ g(rtt).stage = Commit
            BY <1>4, <2>2 DEF Gates
        <3>. QED BY <1>4, <2>2, <3>1, <3>2 DEF Valid, Matches, NoGate
    <2>. QED BY <2>1, <2>2 DEF Committing
<1> HIDE DEF g
<1>6. gate'[Host] = g(rtt) /\ gate'[Client] = gate[Client] /\ due'[Host] = t(rtt) /\ due'[Client] = due[Client]
    BY <1>1 DEF IInv, TypeOK
<1>7. phase'[Host] \in {"waiting", "armed", "failed"} /\ phase'[Client] = phase[Client]
    BY <1>1 DEF IInv, TypeOK, HostResult
<1>8. phase'[Host] = "armed" =>
          /\ gate'[Host].stage = Commit
          /\ peer[Host].stage = Committed
          /\ Matches(gate'[Host], peer[Host])
    BY <1>1, <1>6 DEF IInv, TypeOK, HostResult
<1>9. TypeOK'
    <2>1. gate' \in [Sides -> Gates] /\ due' \in [Sides -> Int] /\ phase' \in [Sides -> Phases]
        BY <1>1, <1>4, <1>5, <1>6, <1>7 DEF IInv, TypeOK, Phases
    <2>. QED BY <1>2, <1>5, <1>6, <2>1 DEF IInv, TypeOK
<1>10. \A q \in Sides : Advances(q)
    <2>1. Advances(Host)
        BY <1>2, <1>4, <1>5, <1>6 DEF Advances, StagesOf, NewerThan, Matches, Gates
    <2>. QED BY <1>6, <2>1, UnchangedAdvances
<1>11. NetPublished' /\ PeerPublished'
    BY <1>2, <1>10, AllPublishedStay
<1>12. PhaseOfGate'
    BY <1>2, <1>4, <1>5, <1>6, <1>7, <1>8 DEF IInv, PhaseOfGate, CanUpdate, StagesOf, Matches, Going
<1>13. gate'[Host].epoch = gate[Host].epoch /\ gate'[Client] = gate[Client]
    BY <1>4, <1>5, <1>6 DEF Matches
<1>14. phase'[Host] = "armed" =>
          /\ gate[Client].epoch >= gate[Host].epoch
          /\ gate[Client].epoch = gate[Host].epoch => gate[Client] = peer[Host]
    <2>1. ASSUME phase'[Host] = "armed" PROVE peer[Host].epoch = gate[Host].epoch /\ peer[Host].stage = Committed
        BY <1>8, <1>13, <2>1 DEF Matches
    <2>. QED BY <1>2, <2>1 DEF IInv, TypeOK, Gates, Published, NewerThan
<1>15. EpochsApart'
    BY <1>2, <1>7, <1>13, <1>14 DEF IInv, TypeOK, EpochsApart, CanUpdate, Gates, Going
<1>16. ClientHolds'
    BY <1>2, <1>4, <1>5, <1>6, <1>13 DEF IInv, TypeOK, ClientHolds, Matches, Gates
<1>17. DueTimes'
    BY <1>2, <1>4, <1>5, <1>6 DEF IInv, DueTimes, Matches
<1>18. CommitBinds'
    <2>1. ASSUME gate[Client].stage = Committed, gate[Host].epoch = gate[Client].epoch
          PROVE  gate'[Host] = gate[Host]
        <3>1. gate[Host].stage = Commit
            BY <2>1 DEF IInv, CommitBinds
        <3>. QED BY <1>4, <1>5, <1>6, <3>1
    <2>. QED BY <1>13, <2>1 DEF IInv, CommitBinds, Matches
<1>19. HostNeverAlone'
    BY <1>2, <1>7, <1>8, <1>13, <1>14 DEF HostNeverAlone, Going, Matches, CanUpdate
<1>. QED BY <1>9, <1>11, <1>12, <1>15, <1>16, <1>17, <1>18, <1>19 DEF IInv

\* The client takes an offer: newer than the one it holds, so the host is not
\* committed and the client is not either.
LEMMA ClientAcceptKeeps ==
    ASSUME IInv, ClientAccept
    PROVE  IInv'
<1>1. /\ gate[Client] \in Gates /\ Valid(gate[Client]) /\ gate[Client].epoch > 0
      /\ gate[Client].stage \in {Ready, Accepted}
      /\ peer[Client] \in Gates /\ Valid(peer[Client]) /\ Published(Host, peer[Client])
      /\ peer[Client].epoch = gate[Client].epoch /\ peer[Client].serial > gate[Client].serial
      /\ peer[Client].stage = Offer /\ peer[Client].ticks > 0
      /\ phase[Client] = "waiting"
    <2>1. gate[Client].epoch > 0 /\ gate[Client].stage \notin {None, Committed}
        BY DEF IInv, TypeOK, PhaseOfGate, ClientAccept, CanUpdate, Valid, Gates
    <2>2. Published(Other(Client), peer[Client])
        BY DEF IInv, PeerPublished
    <2>3. gate[Client].stage \in StagesOf(Client)
        BY DEF IInv, PhaseOfGate
    <2>. QED
        BY <2>1, <2>2, <2>3 DEF IInv, TypeOK, ClientAccept, CanUpdate, TakesOffer, StagesOf, Valid, NoGate, Gates
<1>2. peerTicks - peer[Client].ticks \in Errors
    <2>1. peerTicks # 0
        BY DEF IInv, TypeOK, ConstantsAssumption, ClientAccept, TakesOffer
    <2>2. PICK e \in Errors : peerTicks = peer[Client].ticks + e
        BY <2>1 DEF IInv, DueTimes, Estimates
    <2>3. e \in Int /\ peer[Client].ticks \in Int
        BY <1>1 DEF ConstantsAssumption, Gates
    <2>4. peerTicks - peer[Client].ticks = e
        BY <2>2, <2>3
    <2>. QED BY <2>4
<1> DEFINE k == [peer[Client] EXCEPT !.stage = Accepted]
<1>3. /\ k \in Gates /\ Valid(k)
      /\ k.epoch = gate[Client].epoch /\ k.serial = peer[Client].serial /\ k.ticks = peer[Client].ticks
      /\ k.stage = Accepted
    BY <1>1 DEF Gates, Valid, NoGate
<1>4. /\ gate'[Client] = k /\ gate'[Host] = gate[Host]
      /\ due'[Client] = peerTicks /\ due'[Host] = due[Host]
      /\ UNCHANGED <<now, peer, peerTicks, phase, net>>
    BY DEF IInv, TypeOK, ClientAccept
<1> HIDE DEF k
<1>5. TypeOK'
    <2>1. gate' \in [Sides -> Gates] /\ due' \in [Sides -> Int]
        BY <1>3 DEF IInv, TypeOK, ClientAccept, k
    <2>. QED BY <1>3, <1>4, <2>1 DEF IInv, TypeOK
<1>6. \A q \in Sides : Advances(q)
    <2>1. Advances(Client)
        BY <1>1, <1>3, <1>4 DEF Advances, StagesOf, NewerThan, Gates
    <2>. QED BY <1>4, <2>1, UnchangedAdvances
<1>7. NetPublished' /\ PeerPublished'
    BY <1>4, <1>6, AllPublishedStay
<1>8. PhaseOfGate'
    BY <1>1, <1>3, <1>4 DEF IInv, PhaseOfGate, StagesOf, Going
<1>9. EpochsApart'
    BY <1>3, <1>4 DEF IInv, EpochsApart, Going
<1>10. ClientHolds'
    \* The host's epoch is not behind the epoch of the offer.
    BY <1>1, <1>3, <1>4 DEF IInv, TypeOK, ClientHolds, Published, NewerThan, Gates
<1>11. DueTimes'
    BY <1>2, <1>3, <1>4 DEF IInv, DueTimes
<1>12. CommitBinds'
    BY <1>3, <1>4 DEF CommitBinds
<1>13. HostNeverAlone'
    BY <1>1, <1>3, <1>4 DEF IInv, HostNeverAlone, Going
<1>. QED BY <1>5, <1>7, <1>8, <1>9, <1>10, <1>11, <1>12, <1>13 DEF IInv

\* The client commits to what the host has committed to.
LEMMA ClientCommitKeeps ==
    ASSUME IInv, ClientCommit
    PROVE  IInv'
<1>1. /\ gate[Client] \in Gates /\ Valid(gate[Client]) /\ gate[Client].stage = Accepted
      /\ gate[Client].epoch > 0
      /\ gate[Host] \in Gates
      /\ Published(Host, peer[Client]) /\ peer[Client].stage = Commit
      /\ Matches(gate[Client], peer[Client])
      /\ phase[Client] = "waiting"
    <2>1. Published(Other(Client), peer[Client])
        BY DEF IInv, PeerPublished
    <2>2. gate[Client].epoch > 0
        BY DEF IInv, TypeOK, PhaseOfGate, ClientCommit, CanUpdate, Gates
    <2>. QED BY <2>1, <2>2 DEF IInv, TypeOK, ClientCommit, CanUpdate
<1>2. /\ gate[Host].epoch >= gate[Client].epoch
      /\ gate[Host].epoch = gate[Client].epoch =>
            gate[Host].stage = Commit /\ Matches(gate[Host], gate[Client])
    BY <1>1 DEF Published, NewerThan, Matches, Gates
<1>3. CASE now >= due[Client]
    <2>1. /\ UNCHANGED <<now, gate, due, peer, peerTicks, net>>
          /\ phase' = [phase EXCEPT ![Client] = "failed"]
        BY <1>3 DEF ClientCommit
    <2>2. phase'[Client] = "failed" /\ phase'[Host] = phase[Host] /\ phase' \in [Sides -> Phases]
        BY <2>1 DEF IInv, TypeOK, Phases
    <2>3. TypeOK' /\ NetPublished' /\ PeerPublished' /\ ClientHolds' /\ DueTimes' /\ CommitBinds'
        BY <2>1, <2>2 DEF IInv, TypeOK, NetPublished, PeerPublished, Published, ClientHolds, DueTimes, CommitBinds
    <2>4. PhaseOfGate'
        BY <1>1, <2>1, <2>2 DEF IInv, PhaseOfGate, Going
    <2>5. EpochsApart'
        BY <1>1, <2>1, <2>2 DEF IInv, EpochsApart, Going
    <2>6. HostNeverAlone'
        BY <2>1, <2>2 DEF IInv, HostNeverAlone, Going
    <2>. QED BY <2>3, <2>4, <2>5, <2>6 DEF IInv
<1>4. CASE ~(now >= due[Client])
    <2> DEFINE k == [gate[Client] EXCEPT !.stage = Committed]
    <2>1. /\ k \in Gates /\ Valid(k)
          /\ k.epoch = gate[Client].epoch /\ k.serial = gate[Client].serial /\ k.ticks = gate[Client].ticks
          /\ k.stage = Committed
        BY <1>1 DEF Gates, Valid, NoGate
    <2>2. gate' = [gate EXCEPT ![Client] = k] /\ phase' = [phase EXCEPT ![Client] = "armed"]
        BY <1>1, <1>4 DEF IInv, TypeOK, ClientCommit
    <2>3. /\ gate'[Client] = k /\ gate'[Host] = gate[Host]
          /\ phase'[Client] = "armed" /\ phase'[Host] = phase[Host]
          /\ UNCHANGED <<now, due, peer, peerTicks, net>>
        BY <2>2 DEF IInv, TypeOK, ClientCommit
    <2> HIDE DEF k
    <2>4. TypeOK'
        BY <2>1, <2>2, <2>3 DEF IInv, TypeOK, Phases
    <2>5. \A q \in Sides : Advances(q)
        <3>1. Advances(Client)
            BY <1>1, <2>1, <2>3 DEF Advances, StagesOf, NewerThan, Gates
        <3>. QED BY <2>3, <3>1, UnchangedAdvances
    <2>6. NetPublished' /\ PeerPublished'
        BY <2>3, <2>5, AllPublishedStay
    <2>7. PhaseOfGate'
        BY <1>1, <2>1, <2>3 DEF IInv, PhaseOfGate, StagesOf, Going
    <2>8. EpochsApart'
        BY <1>1, <1>2, <2>1, <2>3 DEF IInv, TypeOK, EpochsApart, Going, Gates
    <2>9. ClientHolds' /\ DueTimes'
        BY <1>1, <1>2, <2>1, <2>3 DEF IInv, ClientHolds, DueTimes, Gates
    <2>10. CommitBinds' /\ HostNeverAlone'
        BY <1>2, <2>1, <2>3 DEF IInv, CommitBinds, HostNeverAlone, Matches, Going
    <2>. QED BY <2>4, <2>6, <2>7, <2>8, <2>9, <2>10 DEF IInv
<1>. QED BY <1>3, <1>4

LEMMA StartInputClockKeeps ==
    ASSUME NEW p \in Sides, IInv, StartInputClock(p)
    PROVE  IInv'
<1>1. /\ UNCHANGED <<now, gate, due, peer, peerTicks, net>>
      /\ phase' \in [Sides -> Phases] /\ phase[p] = "armed"
      /\ phase'[p] \in {"playing", "failed"} /\ phase'[Other(p)] = phase[Other(p)]
    BY DEF IInv, TypeOK, Phases, StartInputClock
<1>2. TypeOK' /\ NetPublished' /\ PeerPublished' /\ ClientHolds' /\ DueTimes' /\ CommitBinds'
    BY <1>1 DEF IInv, TypeOK, NetPublished, PeerPublished, Published, ClientHolds, DueTimes, CommitBinds
<1>3. PhaseOfGate' /\ EpochsApart' /\ HostNeverAlone'
    BY <1>1 DEF IInv, PhaseOfGate, EpochsApart, HostNeverAlone, Going
<1>. QED BY <1>2, <1>3 DEF IInv

LEMMA GiveUpKeeps ==
    ASSUME NEW p \in Sides, IInv, GiveUp(p)
    PROVE  IInv'
<1>1. /\ UNCHANGED <<now, gate, due, peer, peerTicks, net>>
      /\ phase' \in [Sides -> Phases] /\ phase[p] = "waiting"
      /\ phase'[p] = "failed" /\ phase'[Other(p)] = phase[Other(p)]
    BY DEF IInv, TypeOK, Phases, GiveUp
<1>2. TypeOK' /\ NetPublished' /\ PeerPublished' /\ ClientHolds' /\ DueTimes' /\ CommitBinds'
    BY <1>1 DEF IInv, TypeOK, NetPublished, PeerPublished, Published, ClientHolds, DueTimes, CommitBinds
<1>3. PhaseOfGate' /\ EpochsApart' /\ HostNeverAlone'
    BY <1>1 DEF IInv, PhaseOfGate, EpochsApart, HostNeverAlone, Going
<1>. QED BY <1>2, <1>3 DEF IInv

LEMMA TickKeeps ==
    ASSUME IInv, Tick
    PROVE  IInv'
BY DEF IInv, TypeOK, ConstantsAssumption, NetPublished, PeerPublished, Published, PhaseOfGate, EpochsApart,
       ClientHolds, DueTimes, CommitBinds, HostNeverAlone, Going, Tick

-----------------------------------------------------------------------------
(* The invariant, and what follows from it. *)

LEMMA InitInvariant == Init => IInv
BY DEF Init, IInv, TypeOK, ConstantsAssumption, NetPublished, PeerPublished, Published, PhaseOfGate,
       EpochsApart, ClientHolds, DueTimes, CommitBinds, HostNeverAlone, Going, Estimates, NoGate,
       Gates, Valid, NewerThan, StagesOf, Phases, Packets

LEMMA StutterKeeps == ASSUME IInv, UNCHANGED vars PROVE IInv'
BY DEF vars, IInv, TypeOK, NetPublished, PeerPublished, Published, PhaseOfGate, EpochsApart, ClientHolds,
       DueTimes, CommitBinds, HostNeverAlone, Going

LEMMA NextKeeps == ASSUME IInv, [Next]_vars PROVE IInv'
<1>1. CASE Tick
    BY <1>1, TickKeeps
<1>2. CASE HostUpdate
    BY <1>2, HostUpdateKeeps
<1>3. CASE ClientAccept
    BY <1>3, ClientAcceptKeeps
<1>4. CASE ClientCommit
    BY <1>4, ClientCommitKeeps
<1>5. ASSUME NEW p \in Sides,
             \/ EnterEpoch(p)
             \/ Send(p)
             \/ \E m \in net : Receive(p, m)
             \/ StartInputClock(p)
             \/ GiveUp(p)
      PROVE  IInv'
    BY <1>5, EnterEpochKeeps, SendKeeps, ReceiveKeeps, StartInputClockKeeps, GiveUpKeeps
<1>6. CASE UNCHANGED vars
    BY <1>6, StutterKeeps
<1>. QED BY <1>1, <1>2, <1>3, <1>4, <1>5, <1>6 DEF Next

\* Every reachable state satisfies the inductive invariant: whatever is in
\* flight or stored has been published by its sender, and no sender has gone
\* back behind what it has published.
THEOREM Invariant == Spec => []IInv
<1>1. IInv /\ [Next]_vars => IInv'
    BY NextKeeps
<1>. QED BY InitInvariant, <1>1, PTL DEF Spec

\* Gates, received states and packets are always well formed.
THEOREM TypeCorrect == Spec => []TypeOK
<1>1. IInv => TypeOK
    BY DEF IInv
<1>. QED BY Invariant, <1>1, PTL

\* The host starts a round only if the client has committed to the same offer.
THEOREM HostIsNeverAlone == Spec => []HostNeverAlone
<1>1. IInv => HostNeverAlone
    BY DEF IInv
<1>. QED BY Invariant, <1>1, PTL

\* A committed client finds the host committed to the same offer.
THEOREM CommitIsBinding == Spec => []CommitBinds
<1>1. IInv => CommitBinds
    BY DEF IInv
<1>. QED BY Invariant, <1>1, PTL

\* Two sides that go in one epoch go by the same offer, and their start times
\* differ by the client's estimation error alone.
THEOREM StartIsAgreed == Spec => []AgreedStart
<1>1. IInv => AgreedStart
    <2>. SUFFICES ASSUME IInv, Going(Host), Going(Client), gate[Host].epoch = gate[Client].epoch
                  PROVE  Matches(gate[Host], gate[Client]) /\ due[Client] - due[Host] \in Errors
        BY DEF AgreedStart
    <2>1. Matches(gate[Host], gate[Client])
        BY DEF IInv, HostNeverAlone
    <2>2. gate[Client].serial > 0
        BY DEF IInv, TypeOK, PhaseOfGate, Valid, NoGate
    <2>. QED BY <2>1, <2>2 DEF IInv, DueTimes, Matches
<1>. QED BY Invariant, <1>1, PTL

-----------------------------------------------------------------------------
(* Action properties. *)

\* A start time moves only with a new offer.
THEOREM DueIsFixedPerOffer == Spec => DueFixedPerOffer
<1>1. ASSUME IInv, [Next]_vars, NEW p \in Sides, gate[p].serial > 0, Matches(gate[p], gate'[p])
      PROVE  due'[p] = due[p]
    <2>1. CASE HostUpdate /\ p = Host
        \* A new offer has another serial.
        <3>1. PICK r \in Rtts :
                  LET offered == IF NeedsOffer(ClampedRtt(r)) THEN NewOffer(ClampedRtt(r)) ELSE gate[Host]
                  IN /\ gate'[Host] = Committing(offered)
                     /\ ~NeedsOffer(ClampedRtt(r)) => due'[Host] = due[Host]
            BY <1>1, <2>1 DEF HostUpdate, IInv, TypeOK
        <3>2. CASE ~NeedsOffer(ClampedRtt(r))
            BY <2>1, <3>1, <3>2
        <3>3. CASE NeedsOffer(ClampedRtt(r))
            <4>1. Committing(NewOffer(ClampedRtt(r))).serial = gate[Host].serial + 1
                BY DEF Committing, NewOffer
            <4>. QED BY <1>1, <2>1, <3>1, <3>3, <4>1 DEF Matches, IInv, TypeOK, Gates
        <3>. QED BY <3>2, <3>3
    <2>2. CASE ClientAccept /\ p = Client
        <3>1. gate'[Client].serial = peer[Client].serial /\ peer[Client].serial > gate[Client].serial
            BY <1>1, <2>2 DEF ClientAccept, TakesOffer, IInv, TypeOK, Gates
        <3>. QED BY <1>1, <2>2, <3>1 DEF Matches, IInv, TypeOK, Gates
    <2>3. ASSUME NEW q \in Sides, EnterEpoch(q)
          PROVE  due'[p] = due[p]
        <3>1. q = p => gate'[p].epoch = gate[p].epoch + 1
            BY <1>1, <2>3 DEF EnterEpoch, ReadyGate, IInv, TypeOK
        <3>2. q # p
            BY <1>1, <3>1 DEF Matches, IInv, TypeOK, Gates
        <3>. QED BY <1>1, <2>3, <3>2 DEF EnterEpoch, IInv, TypeOK
    <2>4. CASE \/ Tick \/ ClientCommit \/ UNCHANGED vars
               \/ \E q \in Sides : \/ Send(q) \/ StartInputClock(q) \/ GiveUp(q)
                                   \/ \E m \in net : Receive(q, m)
        BY <2>4 DEF Tick, ClientCommit, vars, Send, StartInputClock, GiveUp, Receive
    <2>5. CASE (HostUpdate /\ p = Client) \/ (ClientAccept /\ p = Host)
        BY <1>1, <2>5 DEF HostUpdate, ClientAccept, IInv, TypeOK
    <2>. QED BY <1>1, <2>1, <2>2, <2>3, <2>4, <2>5 DEF Next
<1>2. IInv /\ [Next]_vars =>
          [\A p \in Sides : (gate[p].serial > 0 /\ Matches(gate[p], gate'[p])) => due'[p] = due[p]]_vars
    BY <1>1
<1>. QED BY Invariant, <1>2, PTL DEF Spec, DueFixedPerOffer

\* The host commits only while at least the guard is left.
THEOREM CommitLeavesGuard == Spec => CommitLeavesTime
<1>1. ASSUME IInv, Next, gate[Host].stage # Commit, gate'[Host].stage = Commit
      PROVE  due'[Host] - now >= Guard
    <2>1. CASE HostUpdate
        <3>1. PICK r \in Rtts :
                  LET rtt == ClampedRtt(r)
                      offered == IF NeedsOffer(rtt) THEN NewOffer(rtt) ELSE gate[Host]
                  IN /\ gate'[Host] = Committing(offered)
                     /\ due'[Host] = IF NeedsOffer(rtt) THEN offered.ticks ELSE due[Host]
            BY <1>1, <2>1 DEF HostUpdate, IInv, TypeOK
        <3>2. ClampedRtt(r) \in Nat /\ Lead(ClampedRtt(r)) \in Nat /\ Lead(ClampedRtt(r)) >= Guard
            BY DEF ConstantsAssumption, ClampedRtt, Clamp, Lead
        <3>3. now \in Nat /\ due[Host] \in Int /\ gate[Host].stage \in {None, Ready, Offer, Commit}
            BY <1>1 DEF IInv, TypeOK, PhaseOfGate, StagesOf
        <3>4. CASE NeedsOffer(ClampedRtt(r))
            BY <3>1, <3>2, <3>3, <3>4 DEF NewOffer, ConstantsAssumption
        <3>5. CASE ~NeedsOffer(ClampedRtt(r))
            <4>1. gate[Host].stage = Offer
                BY <1>1, <3>1, <3>5 DEF Committing
            <4>. QED BY <3>1, <3>2, <3>3, <3>5, <4>1 DEF NeedsOffer, ConstantsAssumption
        <3>. QED BY <3>4, <3>5
    <2>2. ASSUME NEW q \in Sides, EnterEpoch(q)
          PROVE  FALSE
        BY <1>1, <2>2 DEF EnterEpoch, ReadyGate, IInv, TypeOK
    <2>3. CASE \/ Tick \/ ClientAccept \/ ClientCommit
               \/ \E q \in Sides : \/ Send(q) \/ StartInputClock(q) \/ GiveUp(q)
                                   \/ \E m \in net : Receive(q, m)
        BY <1>1, <2>3 DEF Tick, ClientAccept, ClientCommit, Send, StartInputClock, GiveUp, Receive, IInv, TypeOK
    <2>. QED BY <1>1, <2>1, <2>2, <2>3 DEF Next
<1>2. IInv /\ [Next]_vars =>
          [(gate[Host].stage # Commit /\ gate'[Host].stage = Commit) => due'[Host] - now >= Guard]_vars
    BY <1>1
<1>. QED BY Invariant, <1>2, PTL DEF Spec, CommitLeavesTime

-----------------------------------------------------------------------------
(* Refinement: every step of the packet exchange is a step of the abstract  *)
(* agreement, or none.                                                      *)

\* A step that changes neither epochs, stages, times nor phases is invisible.
LEMMA InvisibleStep ==
    ASSUME UNCHANGED <<gate, phase>>
    PROVE  UNCHANGED Agreement!vars
BY DEF Agreement!vars, Progress, Decision, Goal, Going

LEMMA EnterImplements ==
    ASSUME NEW p \in Sides, IInv, EnterEpoch(p)
    PROVE  Agreement!Next
<1>1. /\ gate'[p] = ReadyGate(gate[p].epoch + 1) /\ gate'[Other(p)] = gate[Other(p)]
      /\ phase'[p] = "waiting" /\ phase'[Other(p)] = phase[Other(p)]
    BY DEF IInv, TypeOK, EnterEpoch
<1>2. gate[p] \in Gates /\ gate[Other(p)] \in Gates /\ gate'[p].epoch = gate[p].epoch + 1
    BY <1>1 DEF IInv, TypeOK, ReadyGate
<1>3. Progress(p) \in {"idle", "going"} /\ Progress(p)' = "waiting" /\ Progress(Other(p))' = Progress(Other(p))
    BY <1>1 DEF EnterEpoch, Progress, Going
<1>4. Goal(p)' = {} /\ Goal(Other(p))' = Goal(Other(p))
    BY <1>1 DEF Goal, Going
<1>5. /\ Decision' = IF p = Host THEN {} ELSE Decision
      /\ p = Client => gate'[Client].stage # Committed
      /\ p # Client => gate'[Client] = gate[Client]
    <2>1. gate'[p].stage = Ready
        BY <1>1 DEF ReadyGate
    <2>. QED BY <1>1, <2>1 DEF Decision
<1>6. gate[p].epoch > 0 =>
          \/ gate[Other(p)].epoch = gate[p].epoch /\ Progress(Other(p)) = "going"
          \/ gate[Other(p)].epoch = gate[p].epoch + 1
    BY DEF EnterEpoch, PreviousEpochDrained, Progress, Going
<1>7. Agreement!Enter(p)
    <2>1. gate[p].epoch < MaxEpoch
        BY DEF EnterEpoch
    <2>. QED
        BY <1>1, <1>2, <1>3, <1>4, <1>5, <1>6, <2>1 DEF Agreement!Enter, Agreement!Host, Agreement!Client,
           Agreement!Other, Agreement!Sides
<1>. QED BY <1>7 DEF Agreement!Next, Agreement!Sides, Agreement!Host, Agreement!Client

\* A side that fails drops out.
LEMMA FailImplements ==
    ASSUME NEW p \in Sides, IInv, phase[p] \in {"waiting", "armed"},
           phase' = [phase EXCEPT ![p] = "failed"], UNCHANGED gate
    PROVE  Agreement!Next
<1>1. phase'[p] = "failed" /\ phase'[Other(p)] = phase[Other(p)]
    BY DEF IInv, TypeOK
<1>2. Agreement!Drop(p)
    BY <1>1 DEF Progress, Decision, Goal, Going, Agreement!Drop, Agreement!Host, Agreement!Client,
                Agreement!Sides
<1>. QED BY <1>2 DEF Agreement!Next, Agreement!Sides, Agreement!Host, Agreement!Client

LEMMA StartInputClockImplements ==
    ASSUME NEW p \in Sides, IInv, StartInputClock(p)
    PROVE  Agreement!Next \/ UNCHANGED Agreement!vars
<1>1. CASE due[p] <= now
    BY <1>1, FailImplements DEF StartInputClock
<1>2. CASE ~(due[p] <= now)
    <2>1. phase'[p] = "playing" /\ phase[p] = "armed" /\ phase'[Other(p)] = phase[Other(p)] /\ gate' = gate
        BY <1>2 DEF StartInputClock, IInv, TypeOK
    <2>. QED BY <2>1 DEF Agreement!vars, Progress, Decision, Goal, Going
<1>. QED BY <1>1, <1>2

\* The client binds itself to the host's decision.
LEMMA ClientCommitImplements ==
    ASSUME IInv, ClientCommit
    PROVE  Agreement!Next
<1>1. /\ phase[Client] = "waiting" /\ gate[Client].epoch = peer[Client].epoch
      /\ Published(Host, peer[Client]) /\ peer[Client].stage = Commit
      /\ Matches(gate[Client], peer[Client])
    <2>1. Published(Other(Client), peer[Client])
        BY DEF IInv, PeerPublished
    <2>. QED BY <2>1 DEF ClientCommit, CanUpdate
<1>2. gate[Host].epoch = gate[Client].epoch
    \* The host cannot be ahead of a client that waits.
    BY <1>1 DEF IInv, TypeOK, EpochsApart, Published, NewerThan, Gates
<1>3. gate[Host] = peer[Client]
    BY <1>1, <1>2 DEF Published
<1>4. CASE now >= due[Client]
    BY <1>1, <1>4, FailImplements DEF ClientCommit
<1>5. CASE ~(now >= due[Client])
    <2>1. /\ gate'[Host] = gate[Host] /\ phase'[Client] = "armed" /\ phase'[Host] = phase[Host]
          /\ gate'[Client].epoch = gate[Client].epoch /\ gate'[Client].ticks = gate[Client].ticks
          /\ gate'[Client].stage = Committed
        BY <1>5 DEF ClientCommit, IInv, TypeOK, Gates
    <2>2. gate[Client].ticks = gate[Host].ticks /\ gate[Host].stage = Commit
        BY <1>1, <1>3 DEF Matches
    <2>3. Agreement!Bind
        BY <1>1, <1>2, <2>1, <2>2 DEF Progress, Decision, Goal, Going, Agreement!Bind, Agreement!Host,
            Agreement!Client, Agreement!Sides
    <2>. QED BY <2>3 DEF Agreement!Next
<1>. QED BY <1>4, <1>5

LEMMA ClientAcceptImplements ==
    ASSUME IInv, ClientAccept
    PROVE  UNCHANGED Agreement!vars
<1>1. /\ gate'[Host] = gate[Host] /\ gate'[Client].epoch = gate[Client].epoch
      /\ gate'[Client].stage = Accepted /\ phase[Client] = "waiting" /\ phase' = phase
    BY DEF ClientAccept, CanUpdate, IInv, TypeOK, Gates
<1>2. gate[Client].stage # Committed
    BY <1>1 DEF IInv, PhaseOfGate
<1>. QED BY <1>1, <1>2 DEF Agreement!vars, Progress, Decision, Goal, Going

\* An offer is invisible, a commit is the decision, and an armed host goes by
\* it with a client that is bound.
LEMMA HostUpdateImplements ==
    ASSUME IInv, HostUpdate
    PROVE  Agreement!Next \/ UNCHANGED Agreement!vars
<1>1. PICK r \in Rtts :
          LET rtt == ClampedRtt(r)
              offered == IF NeedsOffer(rtt) THEN NewOffer(rtt) ELSE gate[Host]
              t == IF NeedsOffer(rtt) THEN offered.ticks ELSE due[Host]
              g == Committing(offered)
          IN /\ gate' = [gate EXCEPT ![Host] = g]
             /\ due' = [due EXCEPT ![Host] = t]
             /\ phase' = [phase EXCEPT ![Host] = HostResult(g, t)]
    BY DEF HostUpdate
<1> DEFINE rtt == ClampedRtt(r)
           offered == IF NeedsOffer(rtt) THEN NewOffer(rtt) ELSE gate[Host]
           t == IF NeedsOffer(rtt) THEN offered.ticks ELSE due[Host]
           g == Committing(offered)
<1>2. /\ phase[Host] = "waiting" /\ peer[Host].epoch = gate[Host].epoch
      /\ gate[Host] \in Gates /\ gate[Client] \in Gates /\ peer[Host] \in Gates
      /\ gate[Host].stage \in {Ready, Offer, Commit}
      /\ Published(Client, peer[Host])
      /\ now \in Nat /\ due[Host] \in Int
    <2>1. /\ phase[Host] = "waiting" /\ peer[Host].epoch = gate[Host].epoch
          /\ Valid(gate[Host]) /\ gate[Host].stage \in StagesOf(Host)
          /\ gate[Host] \in Gates
          /\ phase[Host] = "idle" <=> gate[Host].epoch = 0
        BY DEF HostUpdate, CanUpdate, IInv, TypeOK, PhaseOfGate
    <2>2. gate[Host].stage # None
        BY <2>1 DEF Valid, Gates
    <2>. QED BY <2>1, <2>2 DEF IInv, TypeOK, PeerPublished, StagesOf
<1>3. rtt \in Nat /\ Lead(rtt) \in Nat /\ Lead(rtt) > 0
    BY DEF ConstantsAssumption, ClampedRtt, Clamp, Lead
<1>4. /\ offered \in Gates /\ offered.epoch = gate[Host].epoch
      /\ offered.stage = gate[Host].stage \/ gate[Host].stage # Commit
      /\ gate[Host].stage = Commit => offered = gate[Host]
      /\ offered.stage \in {Offer, Commit}
      /\ offered.stage = Commit => offered = gate[Host]
      /\ t \in Int
      /\ offered.stage = Offer => t > now
    <2>1. CASE NeedsOffer(rtt)
        BY <1>2, <1>3, <2>1 DEF NeedsOffer, NewOffer, Gates
    <2>2. CASE ~NeedsOffer(rtt)
        BY <1>2, <1>3, <2>2 DEF NeedsOffer, ConstantsAssumption
    <2>. QED BY <2>1, <2>2
<1> HIDE DEF offered, t, rtt
<1>5. /\ g.epoch = gate[Host].epoch
      /\ gate[Host].stage = Commit => g = gate[Host]
      /\ (g.stage = Commit /\ gate[Host].stage # Commit) => t > now /\ peer[Host].stage = Accepted
    BY <1>4 DEF Committing, Gates
<1> HIDE DEF g
<1>6. /\ gate'[Host] = g /\ gate'[Client] = gate[Client]
      /\ phase'[Host] = HostResult(g, t) /\ phase'[Client] = phase[Client]
    BY <1>1 DEF IInv, TypeOK, rtt, offered, t, g
<1>7. CASE gate[Host].stage = Commit
    <2>1. gate' = gate
        BY <1>1, <1>5, <1>7 DEF IInv, TypeOK, rtt, offered, t, g
    <2>2. CASE phase'[Host] = "waiting"
        BY <1>2, <1>6, <2>1, <2>2 DEF Agreement!vars, Progress, Decision, Goal, Going
    <2>3. CASE phase'[Host] = "failed"
        <3>1. phase' = [phase EXCEPT ![Host] = "failed"]
            BY <1>1, <1>6, <2>3 DEF rtt, offered, t, g
        <3>. QED BY <1>2, <2>1, <3>1, FailImplements
    <2>4. CASE phase'[Host] = "armed"
        <3>1. peer[Host].stage = Committed /\ Matches(gate[Host], peer[Host])
            BY <1>5, <1>6, <1>7, <2>4 DEF HostResult
        <3>2. gate[Client].epoch = gate[Host].epoch
            \* The client cannot be ahead of a host that waits.
            BY <1>2 DEF IInv, EpochsApart, Published, NewerThan, Gates
        <3>3. gate[Client].stage = Committed
            BY <1>2, <3>1, <3>2 DEF Published
        <3>4. /\ Progress(Host) = "waiting" /\ Progress(Host)' = "going"
              /\ Progress(Client)' = Progress(Client)
            BY <1>2, <1>6, <2>1, <2>4 DEF Progress, Going
        <3>5. /\ Goal(Host)' = Decision /\ Goal(Client)' = Goal(Client)
              /\ Decision' = Decision /\ Decision # {}
            BY <1>6, <1>7, <2>1, <2>4 DEF Goal, Going, Decision
        <3>6. Agreement!HostGo
            BY <2>1, <3>2, <3>3, <3>4, <3>5 DEF Agreement!HostGo, Agreement!Host,
                Agreement!Client, Agreement!Sides, Sides, Host, Client
        <3>. QED BY <3>6 DEF Agreement!Next
    <2>. QED BY <1>6, <2>2, <2>3, <2>4 DEF HostResult
<1>8. CASE gate[Host].stage # Commit /\ g.stage = Commit
    <2>1. phase'[Host] = "waiting"
        BY <1>2, <1>4, <1>5, <1>6, <1>8 DEF HostResult
    <2>2. \A p \in Sides : gate'[p].epoch = gate[p].epoch /\ Progress(p)' = Progress(p) /\ Goal(p)' = Goal(p)
        BY <1>2, <1>5, <1>6, <2>1 DEF Progress, Goal, Going
    <2>3. Progress(Host) = "waiting" /\ Decision = {} /\ Decision' = {g.ticks}
        BY <1>2, <1>6, <1>8 DEF Progress, Decision, Going
    <2>4. (gate[Client].stage = Committed)' = (gate[Client].stage = Committed)
        BY <1>6
    <2>5. Agreement!Decide
        BY <2>2, <2>3, <2>4 DEF Agreement!Decide, Agreement!Host, Agreement!Client, Agreement!Sides
    <2>. QED BY <2>5 DEF Agreement!Next
<1>9. CASE gate[Host].stage # Commit /\ g.stage # Commit
    <2>1. phase'[Host] = "waiting"
        BY <1>6, <1>9 DEF HostResult
    <2>. QED BY <1>2, <1>5, <1>6, <1>9, <2>1 DEF Agreement!vars, Progress, Decision, Goal, Going
<1>. QED BY <1>7, <1>8, <1>9

LEMMA NextImplements ==
    ASSUME IInv, [Next]_vars
    PROVE  [Agreement!Next]_(Agreement!vars)
<1>1. CASE HostUpdate
    BY <1>1, HostUpdateImplements
<1>2. CASE ClientAccept
    BY <1>2, ClientAcceptImplements
<1>3. CASE ClientCommit
    BY <1>3, ClientCommitImplements
<1>4. ASSUME NEW p \in Sides, EnterEpoch(p) \/ StartInputClock(p) \/ GiveUp(p)
      PROVE  [Agreement!Next]_(Agreement!vars)
    <2>1. CASE GiveUp(p)
        BY <2>1, FailImplements DEF GiveUp
    <2>. QED BY <1>4, <2>1, EnterImplements, StartInputClockImplements
<1>5. CASE \/ Tick \/ UNCHANGED vars
           \/ \E p \in Sides : Send(p) \/ \E m \in net : Receive(p, m)
    BY <1>5, InvisibleStep DEF Tick, vars, Send, Receive
<1>. QED BY <1>1, <1>2, <1>3, <1>4, <1>5 DEF Next

\* The packet exchange implements the abstract agreement.
THEOREM AgreementIsImplemented == Spec => ImplementsAgreement
<1>1. Init => Agreement!Init
    BY DEF Init, NoGate, Progress, Decision, Goal, Going, Agreement!Init, Agreement!Sides, Agreement!Host,
           Agreement!Client
<1>2. IInv /\ [Next]_vars => [Agreement!Next]_(Agreement!vars)
    BY NextImplements
<1>. QED BY Invariant, <1>1, <1>2, PTL DEF Spec, ImplementsAgreement, Agreement!Spec
=============================================================================
