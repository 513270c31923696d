# A verification of CCCaster_verB

CCCaster_verB lets two people play MELTY BLOOD Actress Again over the network. Both machines run
the same deterministic game and exchange nothing but inputs. A match is therefore correct when both
games are fed with the same inputs in the same frames, from the same state of the random number
generator, and when neither side is left waiting for the other. This directory models the code that
has to bring this about, checks the models with TLC on small instances and proves the most
important properties with TLAPS for every value of the constants.

Paths below are relative to `src/src/src/`. `PROJECT.json` maps every definition of the models to
the lines it is translated from.

1. [The system](#the-system)
2. [The modules](#the-modules)
3. [The runs](#the-runs)
4. [The proofs](#the-proofs)
5. [Findings](#findings)
6. [Not modelled](#not-modelled)
7. [Plan](#plan)

## The system

Each side runs three threads.

- The **game thread** is the game's own. `hook/` calls `GameFrameOrchestrator` around every frame,
  and that calls `SceneRunner::Step`, `BeforePresent` and `ContinueReplay`. It decides which inputs
  a frame is fed with, when to wait, when to replay, and when to go on to the next epoch.
- The **input thread** (`InputTimeline`, run by `NetplaySession::InputThreadMain`) samples the
  player's controller on a clock of its own and writes the inputs of future frames.
- The **network thread** (`NetplaySession`, `SyncCodec`) packs the side's whole shared state into
  every packet, sends it again and again, and merges what it receives into `SharedSyncState`.

Nothing is acknowledged packet by packet. Every packet is a snapshot of what its sender says at the
moment, and the receiver merges it so that nothing it knows goes back. Correctness hangs on
whether each field can be lost, repeated and overtaken, and whether a side that has gone on still
says what the other one needs. That is the subject of most of the modules.

Around the games there are **launchers** (`cli_launcher/`, `gui_launcher/`, `p2p/`), one process per
side that finds a partner and a route, starts the game, hands its socket over to it, and outlives it
to tell the other side why it ended. Their steps cross on the network, and with the crash of a
process, the end of a time limit and the player who changes his mind.

A session is a sequence of **epochs**: character selection, round, round, rematch menu and so on.
Frame numbers start again in each epoch (`FrameSequence`, 65536 frames each).

| Part | State | Operations | Hard because | Correct when |
| --- | --- | --- | --- | --- |
| Epoch start, `sync/EpochStart.hpp` | gate: serial, stage, time | Ready, Offer, Accepted, Commit, Committed | offers cross acceptances; clocks differ; the start time passes meanwhile | a round starts on both sides at the same time or the host does not start |
| Rollback, `rollback/PredictionHistory.hpp`, `rollback/RollbackStates.hpp`, `engine/SceneRunner.cpp` | predicted inputs, snapshots, replay position | predict, reconcile, restore, replay, publish | inputs arrive in the middle of a replay; rings overwrite; the round may end in a mispredicted frame | what is confirmed equals a game without prediction |
| Input exchange, `network/SyncCodec.cpp`, `sync/MatchInputBuffer.hpp` | two rings, acknowledgement | capture, send two windows, store, confirm | loss of more than a packet's inputs; rings without a check | no input is overwritten that is still needed; all arrive |
| Epoch change, `engine/SceneRunner.cpp`, `sync/FrameSequence.hpp` | token, consumed frame, seed | drain, begin, barrier, seed | who goes on stops sending the old epoch | nobody is stranded; a round begins on both sides |
| Rematch menu, `sync/RetrySelection.hpp` | choice, acknowledgement | choose, merge, release | no last acknowledgement | same result, nobody forced |
| Character selection, `sync/SelectionState.hpp`, `sync/SettingsCommands.hpp` | revision, choices, command | choose, request settings, merge, release | settings change while the other confirms | same characters, stage and settings |
| Input clock, `sync/InputTimeline.cpp`, `timing/` | deadline, generation, phase correction | begin, pump, pause | a worker wakes for a clock that was restarted | no capture for an old clock |
| Clock estimation, `sync/NetplayClock.cpp`, `timing/PeerClockModel.hpp` | samples, estimate | sample, estimate | floating point | bounded error |
| Handshake and keepalive, `sync/NetplaySession.cpp`, `sync/BoundedWait.hpp` | mode, READY heard, clock samples, frames since the last packet | wait, say READY, measure, count, lose the peer | who counts says READY no more; cancellation, loss, timeout and readiness at once | nobody counts alone |
| Spectators, `spectator/` | queue, archive, a cursor per spectator, playback | publish, collect, serve, cut off, play back | full queue, archive that wraps, late and slow spectator, game in another scene | a gapless part of the confirmed game, always playable |
| Peer-to-peer session, `p2p/Session.cpp`, `network/UdpSocket.cpp` | session, addresses, selected route | ask, admit, punch, acknowledge, select, confirm | requests twice on two ways; routers that change addresses; the last confirmation lost; packets of a failed session | both use one route or the host does not go on |
| Start-up negotiation, `cli_launcher/network_wrapper/`, `StartupNegotiation.hpp` | candidates, selection, nonces | probe, punch, select, accept, lock | two families; old programs; a partner who has gone on | one partner, the same route, nobody left behind |
| Matching, `p2p/Matching.cpp`, `gui_launcher/MatchingController.hpp` | invitation, match, launch | invite, accept, confirm, launch, call off | crossing invitations; lost messages; training to be closed first | both in one match, or both free again |
| Public listing, `p2p/Matching.cpp`, `p2p/MatchingCleanup.cpp` | journal, worker, revision | announce, list, withdraw, recover | crash between any two steps; a post that failed may have arrived | who is gone is not listed |
| Closing, `SessionClosePacket.hpp`, `SessionCloseMonitor.hpp` | reasons, notices | close, tell, answer | read by game or launcher; both close at once; lost notices | both players are told the same |
| Hand-over between threads, `timing/BoundarySlot.hpp`, `common/DeadlineExecutor.cpp` | sequence number, slots | write, read, wait | torn reads | a value that was written |
| Emblem and palette transfer, `shared_contracts/PlayerEmblem.hpp` | chunks | send, receive | lost and repeated chunks | complete or absent |
| UDP, game memory, hooks, overlay, training, launchers | | | I/O | |

The hazards of these parts, with the line where each bites and the properties that answer to it,
are listed in `PROJECT.json`; those that no run covers are in the plan.

How the parts meet. A match begins with the **matching** service, whose accepted invitation gives
the launchers their codes, or with a code or hash that players pass on by hand. `MainController`
takes a code to a **peer-to-peer session** and a hash to the **start-up negotiation**; both leave a
socket, an address and a pair of nonces. With these it starts the game, whose network thread makes
the **handshake**. From then on the game thread goes through epochs: **epoch change**, **epoch
start**, **rollback** or a **menu**, with the **input exchange** below all of them, and publishes to
the **spectators**. When the game ends, **closing** is the launcher's.

## The modules

| Module | Part | Extends or composes |
| --- | --- | --- |
| `StartAgreement` | what an epoch start promises | |
| `EpochStart` | the exchange of gates | implements `StartAgreement` |
| `EpochStartProofs` | proofs | extends `EpochStart` |
| `Lockstep` | what a battle with rollback promises | |
| `Rollback` | one side's game thread in a battle | implements `Lockstep` |
| `RollbackProofs` | proofs | extends `Rollback` |
| `InputExchange` | capture, packets and rings of two sides | |
| `InputExchangeProofs` | proofs | extends `InputExchange` |
| `EpochBarrier` | from epoch to epoch | |
| `EpochBarrierProofs` | proofs | extends `EpochBarrier` |
| `Decision` | what a menu promises | |
| `Menu` | the sides and the numbers of menus, for the next two | |
| `Retry` | the rematch menu | extends `Menu`, implements `Decision` |
| `Selection` | the character selection | extends `Menu`, implements `Decision` |
| `MenuProofs` | proofs of both menus | extends `Selection` and `Retry` |
| `Pairing` | what the search for a route promises | |
| `PeerSession` | connection by code | implements `Pairing` |
| `Startup` | connection by hash | |
| `Session` | handshake, keepalive and end of two games | |
| `Connecting` | `MainController`: what becomes of a code, of a hash, and of the game | composes `PeerSession`, `Startup`, `Session` |
| `ConnectingProofs` | proofs of all three and of their composition | extends `Connecting` |
| `Matching` | invitations, matches and the controller's games | |
| `Listing` | one registration, its journal and its worker | |
| `MatchingService` | the matching client whole | composes `Matching`, `Listing` |
| `MatchingServiceProofs` | proofs | extends `MatchingService` |
| `Spectators` | from the players' game to the spectators' | |
| `SpectatorsProofs` | proofs | extends `Spectators` |
| `MC...` | constants of the small instances | extend their modules |

Operators introduced by a comment *Mistake:* are no part of a model. Each is a plausible wrong
version of the definition that follows it, kept to show that a property notices the difference.

### EpochStart

*State.* `gate[p]` is the local `EpochStart` (epoch, serial, stage, time), `peer[p]` the one
received, `due[p]` the start time in the side's own reading of the host's clock, `net` the packets.
*Actions.* `EnterEpoch` is `EpochStartGate::Begin`, `HostUpdate`, `ClientAccept` and `ClientCommit`
are the branches of `Update`, `Send` and `Receive` the field in `SyncCodec`, `StartInputClock` the
moment `SceneRunner` starts the clock, `GiveUp` a wait that is cancelled or times out, `Tick` time.
*Abstraction.* The client's estimate of the host's clock is the true time plus one of a set
`Errors`, chosen anew for each packet. `StartAgreement` says what remains: an offer is made,
taken, committed, and from then on never changes.

The client may be left alone when the host gives up after sending the commit. No exchange over a
lossy network can rule that out; `HostNeverAlone` states the half that the code does give.

### Rollback

*State.* `world`, the state of the game, is the sequence of inputs it has been fed with, so two
states are equal only if every input is. `entries` and `snaps` are the rings of `PredictionHistory`
and `RollbackStates` with `Slots` places, `next` and `confirmed` its counters, `pending`, `replay`
and `target` the fields of the runtime that steer a replay, `first` that of `PostRoundDelay`, and
`stream` what the spectators have been sent. *Actions.* `EnterStep` and `Step` are the battle part
of `SceneRunner::Step`, split where it waits; `BeforePresent` and `BeginReplay`/`ContinueReplay` are
the callbacks, in the order in which `GameFrameOrchestrator` makes them. `Capture` and `Arrive` are
the other threads: own inputs come in order, the peer's in any order, both between any two steps of
the game thread. `GiveUp` is a wait that ends without its inputs.
*Abstraction.* `Ends`, a constant operator on what the game was fed with, stands for the end of a
round, on which `CanRollback` depends. Frame *f* is fed with input *f*: the code's `inputLead` is
in `Ahead`, the distance between the input captured and the frame simulated, D - inputLead.
`Lockstep` is the game without prediction: it waits for both inputs of each frame, and publishes it.

### InputExchange

*State.* `head`, `applied` and `consumed` are the frames captured, simulated and confirmed, `ring`
the peer's inputs by slot, `ack` the peer's confirmed frame as far as it is known. The own ring is
determined by `head`: a frame is there until the one `Slots` later is written.
*Actions.* `Capture` is the input thread with its overflow, `Send` builds the newest window and the
repair window behind the acknowledgement, `Receive` stores a packet, `Simulate` and `Confirm` are
the game thread. *Abstraction.* One epoch; an input is the number of its frame. `Limit` is how far
the game may be ahead of the confirmed frame: `BurstRollback` with rollback and 1 without. The
guard on `Skew` in `Capture` is an assumption on the environment: nothing but the two clocks'
common rate (`PhaseFollower`, `NetworkPacing`) keeps the input threads together.

### EpochBarrier

*State.* What the game thread does (`pc`), its epoch and frame, the fields of `SharedSyncState` that
other sides see (`token`, `consumed`, `menu`, `seed`), what is remembered for the rematch menu
(`previous`, and with `tail` how many inputs up to it the ring still holds), what has been received
(`peer`, `inputs`), and how far the input clock has captured (`head`). *Actions.* `Begin` and `Publish` are the
two halves of a boundary: the token is set after everything else, and a packet may be built
between them. `BeginMenu` enters an independent menu, without drain and barrier. `LookAtBarrier`
and `TakeSeed` are the waits at the start of a round. *Abstraction.* A menu is left on a
condition that is necessary in the code, news that the peer is in the same menu; what the menus
agree on is `Retry` and `Selection`. A frame is played when the peer's input is there, so prediction
is left to `Rollback`, where it only lets a side show more than it has confirmed. The input clock
goes on while the game waits, up to `Backlog` inputs (`Capture`). A packet holds `Window` inputs, the
newest or those behind the acknowledgement (`RepairEnd`); from the rematch menu it holds those up to
`previous` that the ring still has (`SendsTail`), and nothing bounds how far behind the peer may be.
`Reuse` is an input captured in that menu: it takes a place of the ring, and the first of the
inputs resent that lose theirs are the oldest, since the codec reads backwards from the newest and
stops at the first it does not find. Inputs received for an epoch that was left are forgotten
(`Kept`): the code keeps them in the ring and reads them no more.

Somebody may be stranded in the rematch menu in three ways, which `LeftBehind` names. The other
side ended the battle a frame earlier (finding 2). Or this side is further behind than a packet is
long: the menu is entered without the drain that other boundaries have, the input clock may be
568 inputs ahead, and ten are resent. Or it comes to them late: the base of the menu is 65536 frames
after that of the round, which is 136 places further in a ring of 600, so the menu's inputs, one in
each frame, come to the round's last ones within ten seconds. The confirmed
frames of the two games are no further apart than the delay, the prediction limit of 20 and the inputs
captured during a stall, so it takes a burst of loss at the end of a match.

### Retry and Selection

*State.* In the selection `local` and `peer` stand for `localSelection` and `peerSelection`, `net` for
the packets, `plan` for what a side has left a menu with; in the rematch menu it is `localRetry`,
`peerRetry`, `netRetry` and `result`, and the names of the actions end in `Retry`. *Actions.* `Enter`
begins a menu, `Choose` (in the selection `Confirm`, `ChooseStage` and `Request`) is the player, `Step` one
frame of the menu, `Send` and `Receive` the packet's field with `Accept`. A menu is entered when both sides have left the menu
before, because a round that both enter together lies between them (`EnteredTogether` in
`EpochBarrier`). *Abstraction.* In `Selection` one value stands for character, moon and color and
one for the settings D and R.

`Decision` is the abstract specification of both: every side decides at most once on a menu, and
no two sides decide differently. A rematch decides on *again* or *select*; a selection on the
characters, the stage and the settings together.

### PeerSession and Pairing

*State.* The host's phase, session, addresses tried, fixed route and the sessions it has answered;
of each guest its phase, session and route; what has been sent. A route is a pair of addresses, the
host's as the guest sees it and the guest's as the host sees it, and `nat`, fixed at the beginning,
says what the routers make of each. *Actions.* Requests over relay and local network
(`GuestAsks`, `HostAccepts`, `Refuses`), codes copied by hand (`HostPastes`, `GuestCopies`),
the packets of `Session::Punch` in both directions (`HostPunches`, `GuestAcks`, `HostNotesPath`,
`HostFixes`, `HostSelects`, `GuestTakes`, `HostPairs`), the answers that `UdpSocket` gives for a
guest that has gone on (`GuestTakesAgain`), and the ends of the time limits. A host that fails
begins again with the same sockets, up to `Attempts` times. *Abstraction.* Whatever was sent may
arrive at any later time and any number of times or never. What is encrypted is read by the peer
alone. `Pairing` says what is promised: at most one offer per session, a guest takes an offer for
good, and the host goes on only on an offer that was taken.

### Startup, Session and Connecting

*Startup.* `look` is the search of `DualRouteNegotiator::SelectRoute` (candidates by family, direct
and then punched, the selection), `talk` the agreement of `SessionNegotiator::RunNegotiation`.
Packets are probes, selections and their confirmations; the relay matches joiners with the host. The
host may begin anew, with late packets of the old search under way. `GameReplies` is the game that
answers for a side that has finished. A nonce is the name of its side. Which route is best is left
open, so every usable one may be chosen.

*Session.* `mode` and `heard` are the network thread's (`WaitReady`, `WaitStart`, `Counting`;
whether READY was heard, how many samples the clock has). `shared` is the part of the memory shared
by game and launcher that says who has closed and why, `told` what the player was told, `final` the
state of `SessionCloseMonitor::Finish`. A game may fail at any time (a crash, the 15 seconds of the
launcher, the 30 of the handshake); `TransportFails` overwrites what was noted before, as
`NetplayManager.cpp:83` does.

*Connecting* follows one of the three: `kind` says which. What one leaves to the next is a
partner and a route, so no step of one is a step of another.

### Matching, Listing and MatchingService

*Matching.* `client` is the state of the matching thread (invitation out, invitations in, match,
launch), `events` and `commands` the queues to and from `MatchingController`, `game` the
controller's game or training. Messages to a player arrive in order or are lost; a
post may fail also after it has arrived. `left` bounds what players and faults do, one record for
each scenario.
*Listing.* `step` is the next thing the client's thread does to the outside, in the order of the
code: save the withdrawal in the journal, tell the worker, announce, list. A crash may come before
each. `board` is the public directory, read by revision. `worker` is the cleanup process, which posts
what it holds when the client is gone; a program started later recovers the journal.
*MatchingService* interleaves the two on the one thread the client has: no message is read while a
registration is announced, withdrawn or ended, and the end of the registration ends the match.

### Spectators

*State.* `stream` is everything the players' game would publish, `queue` and `archive` are rings
that hold numbers of records, `viewer` a spectator's cursor, what is under way to it, its buffer and
the scene of its game. *Actions.* The publishing places of `SceneRunner` (`PublishSelecting` and so
on), `Collect` and `Serve` of the worker, `CutOff` of a spectator too slow, `Receive` and `Playback`
of the spectator's game, `GiveUp` its wait for a record in the battle that ends after 30 seconds. When
a match ends, the spectator's game shows the menu in the same frame as the players', a frame later or
a frame earlier: `spectator/Playback.cpp:193` says that the last frame may differ, and
`engine/SceneRunner.cpp:1713` says it of the players. A game that is early meets the players' last
input in the menu, and line 204 ends the program. *Abstraction.* The kind of a record and its number
stand for its content; a heartbeat and the speed of the playback are left out. A connection that is lost
and a stream that is taken for invalid show the same message (`engine/SceneRunner.cpp:991`); here the
first is `Close`.

## The runs

| Run | Question | Bounds |
| --- | --- | --- |
| `epoch_start` | Do both sides agree on the start, or not start? | 1 epoch, 7 ticks, 2 round-trip times, clock wrong by one tick either way |
| `rollback` | Is the confirmed game the real game, and does it get on? | 4 frames, 2 inputs, 2 unconfirmed frames, rings of 3; D > 0, and D = 0 with the input lead |
| `rollback_pair` | Finding 1 | 4 frames |
| `input_exchange` | Is every input kept until it is no longer needed, and does every input arrive? | 5 frames, rings of 3, 1 input in a window, a backlog of 2, D = 0, no prediction, input clocks 1 apart, 2 packets under way |
| `epoch_barrier` | Is anybody stranded or alone at an epoch change, and do both get through? | round, round, rematch, selection, round, each round of 2 frames; 1 input in a packet, input clock up to 1 ahead, 1 place of the end taken by the menu, 1 packet under way |
| `epoch_barrier_tail` | Finding 2 | round of 2 or 3 frames, rematch; D = 1, 2 inputs in a packet, input clock never ahead, the menu takes no place |
| `retry` | Do both leave the menu with the same result, and do both leave it? | 2 menus, 2 packets under way |
| `selection` | Do both leave with the same plan, the second time and with settings that change? | 2 selections with 2 packets under way; 1 selection, 2 settings, one request per side |
| `connecting` | Do two players get a route and a partner, does nobody stay alone, are both told the same? | by code: 2 guests, 2 addresses on each side, 3 kinds of routers, 2 attempts; by hash: 2 joiners, 2 families, 2 rounds; the game: 2 reasons, 2 clock samples |
| `matching` | Are players in a match in it together, free again afterwards, and off the list when gone? | 2 players, up to 2 invitations, 1 fault of each kind, one lister with up to 8 revisions, 1 failed post of the worker |
| `matching_training` | Finding 3 | 2 players, 1 invitation |
| `spectators` | Is what a spectator sees the match, and all of it in the end? | 10 records, queue of 2, archive of 4, 2 records under way, 1 buffered |

*Why the bounds are enough.* The rings wrap in every run that has rings: more frames or records are
written than they have slots, with the smallest margin the assumptions allow. Four frames let a round
end in a mispredicted frame and be played on. One packet under way can be lost, repeated and delayed
past what its sender does next; with two, one overtakes another. In `input_exchange` two packets
are under way so that an old one comes after a newer one has written its place again; with
prediction as well the instance is beyond TLC, and the run takes the limit 1 of lockstep. The distances
of prediction are proved for every limit, and `rollback` has prediction with arrival in any order. In
`epoch_barrier` a packet of one input and a clock one ahead are the fewest with which a side is
further behind than a packet is long, so that somebody is stranded before the rematch in the run
itself, while the two rounds in a row are where the drain must prevent it. Two inputs are enough for a
prediction to be wrong. The second menu, session or attempt is where a packet of the first can do
harm, and a third repeats the second because packets carry the number of what they belong to. Two
guests are the fewest of whom one can disturb the other, two invitations the fewest that cross.
Two routes are the fewest between which a choice can go wrong, and the three routers are those on
which every pair of addresses works, only what leaves from outside comes back, and an answer comes
from another address than the packet was sent to. Two samples of the clock (the code wants ten) are
enough for one side to have an estimate while the other has begun on its own. In `matching` faults
come one kind at a time, in the seven scenarios of `MCMatching`; all together are beyond TLC.
What the runs leave to be desired in size the proofs make up for in `EpochStart`, `Rollback`,
`InputExchange`, `Retry`, `Session`, `Listing` and `Spectators`.

*Deadlock.* The models other than `EpochStart` come to an end at their last frame, menu, attempt or
record, or with the programs gone, and their configurations do not check for deadlock. That the
system does not stop earlier is what the liveness properties say. In `EpochStart` time goes on to the
horizon and stays there.

*Fairness.* Liveness is stated for sides that stay alive: their threads run (weak fairness of each
thread's steps) and, in the menus, players decide. The network may lose and repeat any number of
packets but not every one of those that carry the same thing.

- In the epochs and menus the code builds and sends the present packet again at every tick and with
  every keepalive, so strong fairness is assumed of the arrival of a packet that the sender keeps
  building, and in `InputExchange` of a packet that tells its receiver something new. There nothing
  makes an input clock overflow while the game waits, so that an overflow excuses no side that is
  left waiting.
- In `PeerSession`, `Startup` and `Session` what was sent stays deliverable, because it is sent
  again as long as its sender is in that state; weak fairness of its arrival says that one of the
  repetitions gets through. Nothing is assumed of time limits or players. A side whose peer is
  gone hears nothing more, so its disconnect counter runs out. Of a kind of connection that is not
  followed no step is enabled, so its fairness asks for nothing.
- In `MatchingService` the client's thread, the controller, the worker, a program started later
  and a reader go on; a message that has arrived is handled. A lost message is lost: what frees
  the players then are the time limits, whose end the thread notices (`Handle`).
- In `Spectators` the worker, the connection, the playback and the closing of a broadcast that is
  over go on; whether and when players play on is free.
- No fairness is assumed of `GiveUp`, of faults and crashes, of losses (other than that nothing
  stays under way for ever in `InputExchange`) or in `EpochStart`, where only safety is stated
  because a gate that runs into the timeout is a legal end.

*What the properties say.*

- `AgreedStart`, `HostNeverAlone`: the start of a round is the same offer on both sides, and the host
  never starts without the client's commitment. `ImplementsAgreement` is the refinement of
  `StartAgreement`.
- `NeverFails`, `ConfirmedIsTruth`, `PresentsAllKnown`, `Progress`: no replay finds its snapshot or
  entry overwritten, the snapshots and inputs up to the confirmed frame are those of the real game, no
  image is shown that known inputs contradict, and the game reaches its last frame.
  `ImplementsLockstep` is the refinement of `Lockstep`: the spectators get exactly the game both
  would have played with all inputs in time.
- `NeededInputKept`, `ReceivedInputKept`, `EveryInputConfirmed`: the unchecked rings never lose an
  input that is still needed, and the repair window always carries what the peer waits for.
- `StrandedByRematchOnly`: into the next round nobody takes along an input the other one waits for, and
  into the rematch menu only one it has too little room to resend. `EnteredTogether`, `NoFalseAlarm`: a
  round begins on both sides, and late packets are not taken for a violation. `EverybodyArrives`: who
  is not stranded gets through. `NobodyStranded`, without exceptions, is what the comment of finding 2
  promises.
- `NobodyForced`, `AsChosen`, `NothingPending`, `ImplementsDecision`, `RetryDecision`, `EverybodyLeaves`,
  `EverybodyLeavesRetry`: in the menus.
- `AcceptedNotRefused`, `PathsLeadToGuest`, `TheyMeet`: a guest that was accepted is not told the
  host is busy, nothing late makes the host select a dead route, and two sides that keep trying
  meet. `ImplementsPairing` is the refinement of `Pairing`.
- `OnePartner`, `NobodyIsLeft`: who starts its game has one partner, on the same route and with its
  nonce, and nobody is left negotiating with a game that has started. The second holds because the
  game answers while it is not yet counting, and a game that counts has heard the other side's
  game (`Session`), whose launcher then negotiates no more; within the 30 seconds for which it
  answers, as the code has it.
- `NobodyPlaysAlone`, `ReportsAgree`: when one side counts the other comes to count too or the first
  ends, although who counts says READY no more; and what a player is told of the other's end is
  what that side was told, through whichever of game and launcher the notice came.
- `PairedRoles`, `GameKeepsMatch`, `NobodyHangs`, `InvitationsMeet`: two clients in a match are in it
  together with opposite roles, a match outlives its game, who is between waiting and
  playing gets out of it, and invitations that cross become one match.
- `WithdrawalReady`, `OwnListingStays`, `NothingLeftListed`: of the listing, at every crash.
- `StreamIntact`, `SentAwayForCause`, `CatchesUp`: a spectator is sent a gapless part of the match; it
  is sent away only when nothing has come in the battle or its own game has ended the match a frame
  early, and for every other record its game is in the right scene; and if it stays, it sees all that is
  played.

## The proofs

`tlapm` checks eight modules of proofs. All properties below hold for every value of the constants
that the named assumptions admit.

**EpochStartProofs.** From `ConstantsAssumption`. The inductive invariant says that every gate
stored or under way was published by its sender (`Published` relates such a gate to what
its sender is now), and that a sender never goes back behind what it has published; the safety properties follow
because a host at a commit has offered nothing newer. Proved: `TypeOK`, `AgreedStart`,
`HostNeverAlone`, `CommitBinds`, `DueFixedPerOffer`, `CommitLeavesTime` and the refinement
`ImplementsAgreement`, for any number of epochs, offers and packets and any set of clock errors.

**RollbackProofs.** From `ConstantsAssumption`, for any game (`Ends` is an arbitrary operator), any
number of frames and inputs, any set of distances between capture and simulation up to the largest
delay a player can set (`MaxDelay`), any prediction limit and any rings with more places than that
limit. None of the properties is inductive: that the restored snapshot is the right one hangs on
what was predicted for every frame since, on what has arrived meanwhile and on which places of the
rings have been written again. The invariant is therefore mostly about the history alone. `Core`
says how far `world`, `next` and `confirmed` can be apart (`Distances`), that everything since the
last confirmed frame is still in its place (`Recent`), that what is confirmed is real
(`ConfirmedReal`), that every other frame was simulated with what its entry says
(`SimulatedAsUsed`), and that each frame that may yet be found wrong has a snapshot of the world that led
to it (`Restorable`). Four things happen to a history, each with a lemma that says
what it keeps: it is compared with what is known (`Reconciled`), a snapshot is restored
(`Restored`), a frame is simulated again (`Resimulated`), a frame is simulated for the first time
(`Simulated`). The actions of the game thread are made of these. The rest of the invariant says
where a replay stands (`Control`), that the end of a round is taken for one only when
it is confirmed (`EndKnown`), and what was published (`Published`). Proved: `TypeOK`, `NeverFails`,
`ConfirmedIsTruth`, `PresentsAllKnown` and the refinement `ImplementsLockstep`. The proof needs
`Slots > Limit` and no more, which is what the code asserts of its own values, 20 and 32
(`shared_contracts/NetplaySettings.hpp:13`).

**InputExchangeProofs.** From `ConstantsAssumption` and `RingAssumption`,
`Backlog + Limit + Skew <= Slots + 1`. The invariant has two parts. Nothing is invented: what a ring,
a packet or an acknowledgement holds, its origin has. And the distances: confirmed, simulated and
captured frames of the two sides form a chain whose length is at most `Slots`. That two frames which
share a slot are `Slots` apart (`SlotsApart`) then gives `NeededInputKept` and `ReceivedInputKept`.
With the values of the code, 600 slots, a backlog of 568 and 20 frames of prediction, the assumption
says that the two input clocks may be 13 frames apart; this is the margin the constant 32 in
`InputTimeline::PumpTicksImpl` really leaves.

**EpochBarrierProofs.** From `ConstantsAssumption`, for any session (`Phases`, any sequence of
selections, rounds and rematch menus), any length of a round, any `Late` and any number of packets.
What is known of the other side is old but never wrong (`Heard`, `Told`); what a side publishes fits
the place where it is (`Own`: where the game thread stands, which frames are captured and counted,
what is remembered in a menu, what was waited for). The part the properties hang on is `Apart`: a
side is one epoch ahead at most, and it has left a round which the other still plays only when that
one was through the barrier, only with every input captured that the other needs, and for the next
round only when the other had played this one to the end.
Proved: `TypeOK`, `EnteredTogether`, `NoFalseAlarm`.

`StrandedByRematchOnly` needs one more condition, stated as a hypothesis (`OnlyRematchStrands`).
`RematchFirst`: from a battle the game goes to the next round or to the rematch menu, never straight to
the selection; that is the game's own order of scenes, and after it `previous` is set. `NobodyStranded`
needs besides that a round ends on the same frame on both sides (`Late = 0`) and that
`Lookahead + Backlog + Reused < Window` (`NobodyIsStranded`). Then a side in the menu holds whatever the
other side, which cannot be further behind, still waits for. The code does not provide for either: the
first is finding 2, and with a packet of ten inputs and an overflow at 568 the second holds only as
long as the network keeps the two games together and the menu is young.

**MenuProofs.** Two menus, one argument: what a side is told of the other is old but never wrong, and
who leaves takes with it only what neither side can still change.

*The character selection*, from `ConstantsAssumption`, for any number of selections, characters, stages,
settings, requests and packets. Every state that is known or under way is one its sender has been in:
the same revision has the same contents, and a final state has the last revision of its menu (`Earlier`).
An acknowledgement names a revision that has been heard (`Acks`). The host carries out a command only in
the menu in which it was given, and the client's settings are those of the host's revision that it
acknowledges (`Commands`). A side that is released knows that nothing is left to be said: both characters
and the stage are chosen, every command is carried out, and the client has acknowledged the host's
last revision (`Finished`, `Releases`). Who has left has left with what both of them show (`Agreed`, `Leaves`), so the second to
leave, who decides on its own copy, leaves with the same. Proved: `TypeOK`, `AsChosen`,
`NothingPending` and the refinement `ImplementsDecision`.

*The rematch menu*, from `RetryAssumption`, for any number of menus and packets. Besides the
knowledge (`RetryKnowledge`) and the order in which menus are left (`RetryOrder`), a result is
backed by choices that stand (`Backed`): who leaves for another fight has chosen it and so has the
other, who goes back has chosen it or the other has. Without `Backed` the agreement is not inductive,
because the second side decides on its own copy of the choices. Proved: `RetryTypeOK`, `NobodyForced`
and the refinement `RetryDecision`.

**MatchingServiceProofs.** One registration, from `ConstantsAssumption`, for any number of revisions
and of failed posts.
`WithdrawalReady` is not inductive: what is saved changes hands. The invariant says that for
everything listed and not yet withdrawn a newer withdrawal is in the journal and, while the worker
is there, in what the worker holds (`Fit`, `Ready`), that the client's next step agrees with what it
has saved and remembers (`Order`), that revisions for the end are kept back (`Reserve`), and that
nobody else acts for the registration before it is over (`Alone`). The hard case is the
worker, which saves what it holds in the place of what is saved, although the client may have failed
to tell it of the newest; it does no harm because a client that has failed once (`healthy`) lists
nothing more. Proved: the types, `WithdrawalReady`, `OwnListingStays`.

The whole client, from `ServiceAssumption` (who lists is a player, and a registration begins fresh or
with some revisions left): a step of the pairing leaves the listing's
variables alone or is, to the listing, one of its own steps, so the invariant carries over:
`WithdrawalReady`, `OwnListingStays`.

The pairing, from `PlayersAssumption`, for any number of players, invitations and faults (the runs have
two players). That two clients in one match are in it with each other is not inductive: each
enters on its own. The invariant `PairInv` follows the number of a match. It is given out once (`Below`)
and offered by one message, if any (`BoxInv`); as long as it is offered, its host alone may be in the
match, with the player who is asked, and no command about it waits there (`OfferTrue`); so who takes the
offer, and the message with it, is the second and last. For the game, client and controller are taken
together with the two queues between them (`Play`): of a match there is one launch, which is still to be
taken, or its game runs, or its end has been reported, and a client whose match has not been launched
has no game and no launch. The end is reported no sooner, so a client that takes a report of the end may
forget the match. That nobody asks himself (`Strangers`) and that a match ends all requests (`OneEach`) is
needed on the way. Proved: `PairedRoles` and `GameKeepsMatch`, of `PairingSpec` and of the whole client,
where the only new step is that `Stop` closes the door first (`Pauses`).

**SpectatorsProofs.** From `ConstantsAssumption`, for any length of the stream, any ring sizes
and any number of spectators. How far writer and reader of a ring can be apart (`QueueRing`,
`ArchiveRing`) shows that a slot still holds the record it is read for; what is under way to a
spectator is then a line of consecutive numbers that ends at its cursor (`LineOf`), through connection,
buffer and playback.

A second invariant on top of it shows that the spectator's own game can always play what comes. The
stream tells a match in the order in which one is played (`Course`: `Allowed` says what the players can do
where they are, `Leads` where it takes them). So the record before the next one says where the players were,
and `Stands` says where the game of a spectator that comes to it has to be: the same phase, the same
menu choice, the match over or not. Whoever joins begins at a record from which a match can be watched
(`Starts`). The step that needs it all is a record taken by a game that lags behind: what the record lets
the game do next is what the record after it needs. At the end of a match there are three places where
a game may be (`SentAway`, `InStep` keep them apart): in the menu with the players' last input still
due, which is the one it cannot use, in the menu or still in the battle after it. Proved: `TypeOK`,
`StreamIntact`, `SentAwayForCause`.

**ConnectingProofs.** Three arguments of one kind: what is under way may arrive late, again or never,
so a packet must say of its sender something that stays true of it.

*By code*, from `PeerSession`'s `ConstantsAssumption`, for any number of guests, addresses, routers and
attempts. A guest that has begun keeps its session, and a route that the host has offered in a
session is the only one it ever offers in it (`OfferStands`); so a route that is named in a packet is the one
offered in its session, and that session is its reader's or its sender's (`DownTrue`, `UpTrue`). Sessions
of earlier attempts stay in the invariant because their packets do. Proved: `TypeOK`,
`AcceptedNotRefused`, `PathsLeadToGuest` and the refinement `ImplementsPairing`.

*By hash*, from `StartupAssumption`, which besides the code's own conditions says that `Nobody` is
not the name of a player, for any number of joiners and any network. Nobody who has taken a
route and heard a nonce takes another route or another nonce, so a probe that was true when it was sent stays
true (`ProbesTrue`). `OnePartner` says more than that two sides name each other: nobody else names
either. That follows because every joiner's partner is the host, and the host has one (`HeardTrue`).

*The end of a session*, from `SessionAssumption`, for any set of reasons. That both players are told the
same is not inductive, because what one is told has passed through the memory shared by game and
launcher, the launcher's reports, and notices and answers, any of which may be read by either. All of
it has one origin: a side fixes its reason when its game is gone, tells its own player, and neither
takes it back nor sends another (`GivesAsTold`). What a side knows was given (`KnowsAsGiven`), notices
come from who has given the reason and answers from who has told it (`NoticesTrue`,
`ConfirmedTrue`). Proved: `SessionTypeOK`, `ReportsAgree`.

The launcher as a whole implements the three (`PartsHold`), so all of this holds of it.

Every invariant, action property and refinement that a passing run checks is proved. Only
model-checked is liveness under fairness, which is outside the reach of the prover; so would be induction over data and
recursive operators, which the proved modules do not use.

## Findings

1. `rollback_pair`, `FedLikePeer`. `PostRoundDelay::Begin` (`engine/SceneRunner.cpp:1052`) starts the
   extra delay in the frame in which `Step` first sees the round ended. If the end lies in a frame
   that this side had mispredicted, that is a later frame than on the other side, and the confirmed
   frames between are fed with other inputs than there. `harness/compare_rollback_pair.py:88` and
   `harness/FakeGame.cpp:155` take the inputs to be the same. The game ignores inputs at that point, so
   the two games do not part; the comparison of recorded inputs may report a difference.
2. `epoch_barrier_tail`, `NobodyStranded`. On entering the rematch menu a side remembers the last
   frame it has confirmed itself (`engine/SceneRunner.cpp:1347`) and resends inputs up to that one
   (`network/SyncCodec.cpp:414`). The comment in `SyncCodec.cpp:413` says a peer that is still in the
   battle gets its last inputs, and `SceneRunner.cpp:1713` says that the end may differ by one frame.
   In that case the slower side's last input may have been lost and is not sent again. The run has
   room in its packets for all else; two more ways to lose the end of a battle here are described
   under `EpochBarrier`.
3. `matching_training`, `AlwaysFreeAgain`. Who trains while waiting is matched, and the launch waits
   in `pendingLaunch` until training has closed (`gui_launcher/MatchingController.hpp:158`). When
   the match is called off in that time the launch is dropped (`:166`), but the client is not told
   `finished`; it has noted the launch (`p2p/Matching.cpp:115`), keeps the match and refuses every
   other. The text at `:76` says that the registration can be used as it is. `NobodyHangs` states
   for all other courses what is false for this one.

## Not modelled

- UDP, game memory, snapshots, hooks, overlay, the graphical interface: I/O. The models take from
  them that packets are lost, repeated, delayed and reordered, and that a snapshot restores what was
  saved. These are also the larger part of the code by lines (tables of addresses, input devices,
  drawing), with no second actor and nothing a model could add.
- Clock estimation: a regression over floating-point samples. `EpochStart` takes its error as a
  constant set. The input clock: deadlines and phase correction in real time; its capture loop is in
  `InputExchange`.
- The order in which a bounded wait looks at its conditions, the hand-over between threads
  (`BoundarySlot`, `DeadlineExecutor`), emblems and palettes.
- Training, replay and other local scenes: one actor, no concurrency.
- In `Rollback`: the local rollback of training modes, the forced rollbacks of test builds, and
  `ReconcileInputWrites`, which compares the game's native input writes.
- In `InputExchange`: the values of inputs and `ConfirmConflicts`, and the end of an epoch's 65536
  frames.
- In `EpochBarrier`: what happens after a violation has been found (`Failed`).
- In `Selection`: the selection repeated for a random stage in a rematch, boss characters, extra
  colors, and driving the other player's cursor on the local screen. In `Retry`: the stage of the
  next fight.
- In `PeerSession`: cryptography, STUN, the code to watch a match. In `Startup`: the measured quality
  of a route, tokens of foreign sessions, programs without nonces, the relay's own connections.
- In `Session`: notices without nonces, a change of the clock's source, a packet of another version,
  a launcher that cannot take over the socket or end the game.
- In `Matching`: the permission to watch and the watchers, signatures. In `Listing`: the time a
  server asks to wait and the listings that expire after six hours.
- In `Spectators`: emblems, heartbeats, the greeting, time limits as times, speed and drawing. How often
  a spectator's game ends a match in another frame than the players' is decided in the game's memory.

## Plan

Done: the core of a match (`EpochStart`, `Rollback`, `InputExchange`, `EpochBarrier`, `Retry`,
`Selection`), the way to it (`PeerSession`, `Startup`, `Matching`, `Listing`), its two ends
(`Session`) and its spectators, with an abstract specification for five of them and proofs for all of them.

Next, models, with the hazards they are for:

- `MatchInputBuffer::RecordMismatch` (`sync/MatchInputBuffer.hpp:104`) raises a flag and then stores
  the frame, while the game thread takes both; the capture workers' generation
  (`sync/InputTimeline.cpp:95`); the sequence lock of `timing/BoundarySlot.hpp`.
- The order of cancellation, loss, timeout and readiness in `sync/BoundedWait.hpp`.
- The limits of `sync/FrameSequence.hpp:14`, where epoch and frame must end before they meet in 32
  bits, and the order of the peer's progress by token, send time and frame (`network/SyncCodec.cpp:239`).

Met while modelling and worth a look, though no comment or test is against them: the watch over the
transport overwrites a close that the peer has announced (`network/NetplayManager.cpp:83`), unlike
`Fail` (`engine/SceneRunner.cpp:315`), so that a side may name itself as the one who closed. In
`DualRouteNegotiator::SelectRoute` `selected` survives `beginPunch`, so unassisted IPv4 candidates are
passed over until the selection is sent again.
