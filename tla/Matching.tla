------------------------------ MODULE Matching ------------------------------
(***************************************************************************)
(* Players invite each other over a public relay.  Who accepts becomes the *)
(* host of a match: it offers the match, the other confirms, the host's    *)
(* game starts and gets a code, and with the code the other's game starts. *)
(* An invitation and a match can be called off at any time, by either      *)
(* player, by a time limit or by the end of a program.                     *)
(*                                                                         *)
(* Modelled are the pairing of the matching client (Invite, Accept, the    *)
(* commands, Receive and Tick) and MatchingController, which starts and    *)
(* watches the game.  A client handles one message or command at a time.   *)
(* Messages to a player arrive in order or are lost; a post may fail, also *)
(* after it has arrived.  Every invitation and match has a token of its    *)
(* own.  The permission to watch and the watchers are left out.            *)
(***************************************************************************)
EXTENDS Integers, Sequences, SequencesExt

CONSTANTS
    Players,   \* their registrations; the order is that of their ids
    Training,  \* those who train while they wait
    Tokens,    \* bound: invitations and matches
    Budgets    \* what players, time and network may do, see left

ASSUME PlayersAssumption ==
    /\ Players \subseteq Nat \ {0}
    /\ Training \subseteq Players
    /\ Tokens \in Nat

Nobody == 0
NoRequest == [id |-> 0, peer |-> Nobody]

VARIABLES
    client,   \* client[p]: the client of p
    inbox,    \* inbox[p]: messages on their way to p
    events,   \* events[p]: what the client has told the controller
    commands, \* commands[p]: what the controller has told the client
    game,     \* game[p]: the controller's game and its match
    tokens,   \* tokens used
    left      \* how much is left of everything that is bounded

pairingVars == <<client, inbox, events, commands, game, tokens, left>>

\* left.late: time limits may pass.  left.stops and left.crashes: whose
\* registration may end so.  The others are numbers.
Limits == {"invitations", "calls", "faults", "losses"}

PairingInit ==
    /\ client = [p \in Players |->
          [life |-> "registered", open |-> TRUE, state |-> "waiting", selected |-> NoRequest,
           match |-> 0, host |-> FALSE, launched |-> FALSE, code |-> FALSE, deadline |-> FALSE,
           outgoing |-> NoRequest, incoming |-> {}]]
    /\ inbox = [p \in Players |-> <<>>]
    /\ events = [p \in Players |-> <<>>]
    /\ commands = [p \in Players |-> <<>>]
    /\ game = [p \in Players |-> [phase |-> "none", match |-> 0]]
    /\ tokens = 0
    /\ left \in Budgets

Registered(p) == client[p].life = "registered"
Lives(p) == client[p].life # "crashed"
Spend(limit) == left[limit] > 0 /\ left' = [left EXCEPT ![limit] = @ - 1]

Message(type, p, to, id, match) ==
    [type |-> type, from |-> p, to |-> to, request |-> id, match |-> match]

\* Each player has a topic.  No two of the messages are to the same player.
Sent(box, messages) ==
    [p \in Players |-> IF Lives(p) THEN box[p] \o SetToSeq({m \in messages : m.to = p}) ELSE <<>>]

\* Whether the post succeeds that counts: it has arrived then, and it may have
\* arrived when it fails.
Posting(ok, arrived) ==
    \/ ok /\ arrived /\ UNCHANGED left
    \/ ~ok /\ arrived \in BOOLEAN /\ Spend("faults")

-----------------------------------------------------------------------------
(* Calling off. *)

\* Replies that refuse these requests; those that only say "pending" are left out.
Refusals(p, requests) == {Message("reply", p, r.peer, r.id, 0) : r \in requests}

\* Takes back the own invitation.
Recall(p, x) ==
    IF x.outgoing = NoRequest THEN {}
    ELSE {Message("cancel", p, x.outgoing.peer, x.outgoing.id, 0)}

\* Mistake: a match is forgotten although its game has been started.
AlwaysOver(x, finished) == TRUE

\* The match can be forgotten: its game has not been started or is over.
MatchOver(x, finished) == ~x.launched \/ finished

\* ResetMatch: the client x afterwards.
Reset(x, finished) ==
    IF MatchOver(x, finished)
    THEN [x EXCEPT !.selected = NoRequest, !.match = 0, !.code = FALSE, !.launched = FALSE,
                   !.deadline = FALSE,
                   !.state = IF x.life = "registered" THEN "waiting" ELSE "idle"]
    ELSE [x EXCEPT !.state = "ending", !.deadline = FALSE]

\* The controller is told to abort, unless the players are playing.
Aborting(x, finished) ==
    IF ~MatchOver(x, finished) /\ x.state # "playing"
    THEN <<[type |-> "abort", match |-> x.match, host |-> x.host]>> ELSE <<>>

Farewell(p, x) ==
    IF x.selected = NoRequest THEN {}
    ELSE {Message("end", p, x.selected.peer, x.selected.id, x.match)}

\* ResetMatch of player p, whose client is x.
ResetMatch(p, x, box, notify, finished) ==
    /\ client' = [client EXCEPT ![p] = Reset(x, finished)]
    /\ inbox' = IF notify THEN Sent(box, Farewell(p, x)) ELSE box
    /\ events' = [events EXCEPT ![p] = @ \o Aborting(x, finished)]

-----------------------------------------------------------------------------
(* Inviting and accepting. *)

Free(p) == Registered(p) /\ client[p].open /\ client[p].match = 0

\* Mistake: the time for the connection is not limited.
ConfirmingForEver(x, r, m, host) ==
    [x EXCEPT !.selected = r, !.match = m, !.host = host, !.state = "confirming",
              !.incoming = {}, !.outgoing = NoRequest]

\* With request r in the match m; all other requests are refused or taken back.
Confirming(x, r, m, host) ==
    [x EXCEPT !.selected = r, !.match = m, !.host = host, !.state = "confirming",
              !.deadline = TRUE, !.incoming = {}, !.outgoing = NoRequest]

RejectOthers(p, x, r) ==
    Refusals(p, {q \in x.incoming : q.id # r.id})
        \cup IF x.outgoing.id = r.id THEN {} ELSE Recall(p, x)

\* Accept, of player p whose client is x: the offer is posted first.
Accepting(p, x, r, box) ==
    /\ tokens < Tokens
    /\ tokens' = tokens + 1
    /\ \E ok, arrived \in BOOLEAN :
          /\ Posting(ok, arrived)
          /\ LET offer == {Message("offer", p, r.peer, r.id, tokens + 1)}
             IN inbox' = Sent(Sent(box, IF arrived THEN offer ELSE {}),
                              IF ok THEN RejectOthers(p, x, r) ELSE {})
          /\ client' = [client EXCEPT ![p] = IF ok THEN Confirming(x, r, tokens + 1, TRUE) ELSE x]

Accept(p) ==
    /\ Free(p)
    /\ \E r \in client[p].incoming : Accepting(p, client[p], r, inbox)
    /\ UNCHANGED <<events, commands, game>>

\* Who has been invited by the same player accepts instead.
Invite(p, q) ==
    /\ Free(p) /\ client[p].outgoing = NoRequest
    /\ q # p /\ client[q].life # "closed"
    /\ \A r \in client[p].incoming : r.peer # q
    /\ tokens < Tokens
    /\ tokens' = tokens + 1
    /\ left.invitations > 0
    /\ \E ok, arrived \in BOOLEAN :
          /\ ok => arrived
          /\ ~ok => left.faults > 0
          /\ left' = [left EXCEPT !.invitations = @ - 1, !.faults = IF ok THEN @ ELSE @ - 1]
          /\ inbox' = Sent(inbox, IF arrived THEN {Message("invite", p, q, tokens + 1, 0)} ELSE {})
          /\ client' = IF ok THEN [client EXCEPT ![p].outgoing = [id |-> tokens + 1, peer |-> q]]
                       ELSE client
    /\ UNCHANGED <<events, commands, game>>

-----------------------------------------------------------------------------
(* The player's other commands. *)

Reject(p) ==
    /\ Lives(p)
    /\ Spend("calls")
    /\ \E r \in client[p].incoming :
          /\ client' = [client EXCEPT ![p].incoming = @ \ {r}]
          /\ inbox' = Sent(inbox, Refusals(p, {r}))
    /\ UNCHANGED <<events, commands, game, tokens>>

Cancel(p) ==
    /\ Lives(p) /\ client[p].outgoing # NoRequest
    /\ Spend("calls")
    /\ client' = [client EXCEPT ![p].outgoing = NoRequest]
    /\ inbox' = Sent(inbox, Recall(p, client[p]))
    /\ UNCHANGED <<events, commands, game, tokens>>

CancelMatch(p) ==
    /\ Lives(p) /\ client[p].match # 0 /\ client[p].state # "playing"
    /\ Spend("calls")
    /\ ResetMatch(p, client[p], inbox, TRUE, FALSE)
    /\ UNCHANGED <<commands, game, tokens>>

\* The player pauses, or is busy with something else; and is back.
Suspend(p) ==
    /\ Lives(p) /\ client[p].open
    /\ Spend("calls")
    /\ client' = [client EXCEPT ![p].open = FALSE, ![p].incoming = {}, ![p].outgoing = NoRequest]
    /\ inbox' = Sent(inbox, Refusals(p, client[p].incoming) \cup Recall(p, client[p]))
    /\ UNCHANGED <<events, commands, game, tokens>>

Resume(p) ==
    /\ Registered(p) /\ ~client[p].open
    /\ client' = [client EXCEPT ![p].open = TRUE]
    /\ UNCHANGED <<inbox, events, commands, game, tokens, left>>

\* What StopRegistration does once the listing is withdrawn and the code closed.
\* A game that is played goes on.  (StopTrainingStandby drops a launch that waits.)
Unregister(p) ==
    /\ Registered(p) /\ p \in left.stops
    /\ LET x == [client[p] EXCEPT !.life = "closed", !.open = FALSE,
                                  !.incoming = {}, !.outgoing = NoRequest]
           box == Sent(inbox, Refusals(p, client[p].incoming) \cup Recall(p, client[p]))
       IN IF x.match # 0 /\ x.state # "playing"
          THEN ResetMatch(p, x, box, TRUE, FALSE)
          ELSE /\ client' = [client EXCEPT ![p] = IF x.match = 0 THEN [x EXCEPT !.state = "idle"]
                                                  ELSE x]
               /\ inbox' = box
               /\ UNCHANGED events
    /\ game' = [game EXCEPT ![p].phase = IF @ = "pending" THEN "dropped" ELSE @]
    /\ UNCHANGED <<commands, tokens, left>>

\* The program dies; its game goes on without it or not.
Die(p) ==
    /\ Lives(p) /\ p \in left.crashes
    /\ client' = [client EXCEPT ![p].life = "crashed"]
    /\ game' = [game EXCEPT ![p] = [phase |-> "none", match |-> 0]]
    /\ UNCHANGED <<inbox, events, commands, tokens, left>>

-----------------------------------------------------------------------------
(* Receive. *)

\* Mistake: an offer is taken for whatever invitation is open.
AnyOutgoing(p, m) == client[p].outgoing # NoRequest

\* It answers the invitation that is open.
AnswersOutgoing(p, m) ==
    client[p].outgoing = [id |-> m.request, peer |-> m.from]

\* It is about the match the player is in.
Active(p, m) ==
    /\ client[p].selected = [id |-> m.request, peer |-> m.from]
    /\ client[p].match = m.match /\ m.match # 0

\* Mistake: when invitations cross, each side waits for the other to accept.
NeverFirst(p, q) == FALSE

\* When invitations cross, the player with the smaller id accepts.
First(p, q) == p < q

\* The message that player p reads next, and the inboxes without it.
Comes(p, type) == Lives(p) /\ inbox[p] # <<>> /\ Head(inbox[p]).type = type
Incoming(p) == Head(inbox[p])
Taken(p) == [inbox EXCEPT ![p] = Tail(@)]
Asked(m) == [id |-> m.request, peer |-> m.from]

\* Invitations of the two players to each other become one.
ReceiveInvite(p) ==
    /\ Comes(p, "invite")
    /\ LET m == Incoming(p)
           x == client[p]
           known == \E r \in x.incoming : r.peer = m.from
           crossed == x.outgoing.peer = m.from
       IN \/ /\ ~Free(p)
             /\ inbox' = Sent(Taken(p), Refusals(p, {Asked(m)}))
             /\ UNCHANGED <<client, tokens, left>>
          \/ /\ Free(p) /\ ~known /\ crossed /\ First(p, m.from)
             /\ Accepting(p, [x EXCEPT !.outgoing = NoRequest, !.incoming = @ \cup {Asked(m)}],
                          Asked(m), Sent(Taken(p), Recall(p, x)))
          \/ /\ Free(p) /\ ~known /\ ~crossed
             /\ client' = [client EXCEPT ![p].incoming = @ \cup {Asked(m)}]
             /\ inbox' = Taken(p)
             /\ UNCHANGED <<tokens, left>>
          \/ /\ Free(p) /\ (known \/ (crossed /\ ~First(p, m.from)))
             /\ inbox' = Taken(p)
             /\ UNCHANGED <<client, tokens, left>>
    /\ UNCHANGED <<events, commands, game>>

ReceiveReply(p) ==
    /\ Comes(p, "reply")
    /\ client' = IF AnswersOutgoing(p, Incoming(p))
                 THEN [client EXCEPT ![p].outgoing = NoRequest] ELSE client
    /\ inbox' = Taken(p)
    /\ UNCHANGED <<events, commands, game, tokens, left>>

ReceiveCancel(p) ==
    /\ Comes(p, "cancel")
    /\ LET x == [client[p] EXCEPT !.incoming = @ \ {Asked(Incoming(p))}]
       IN IF x.selected = Asked(Incoming(p)) /\ x.state # "playing"
          THEN ResetMatch(p, x, Taken(p), FALSE, FALSE)
          ELSE client' = [client EXCEPT ![p] = x] /\ inbox' = Taken(p) /\ UNCHANGED events
    /\ UNCHANGED <<commands, game, tokens, left>>

\* The invited player has accepted: that is confirmed, or everything is dropped.
ReceiveOffer(p) ==
    /\ Comes(p, "offer")
    /\ LET m == Incoming(p)
           x == client[p]
           refused == RejectOthers(p, x, x.outgoing)
       IN IF Free(p) /\ AnswersOutgoing(p, m)
          THEN \E ok, arrived \in BOOLEAN :
                 /\ Posting(ok, arrived)
                 /\ inbox' = Sent(Sent(Taken(p), refused), IF arrived
                        THEN {Message("confirm", p, m.from, m.request, m.match)} ELSE {})
                 /\ client' = [client EXCEPT ![p] =
                        LET y == Confirming(x, x.outgoing, m.match, FALSE)
                        IN IF ok THEN y ELSE Reset(y, FALSE)]
          ELSE inbox' = Taken(p) /\ UNCHANGED <<client, left>>
    /\ UNCHANGED <<events, commands, game, tokens>>

\* The controller of p is told to start the game.
Launching(p, code) ==
    /\ client' = [client EXCEPT ![p].state = "connecting", ![p].launched = TRUE,
                                ![p].code = code]
    /\ events' = [events EXCEPT ![p] = Append(@,
          [type |-> "launch", match |-> client[p].match, host |-> client[p].host])]

\* The host starts first, the guest when it is given the code of the host's game.
ReceiveConfirm(p) ==
    /\ Comes(p, "confirm")
    /\ IF Active(p, Incoming(p)) /\ client[p].host /\ client[p].state = "confirming"
       THEN Launching(p, FALSE) ELSE UNCHANGED <<client, events>>
    /\ inbox' = Taken(p)
    /\ UNCHANGED <<commands, game, tokens, left>>

ReceiveConnect(p) ==
    /\ Comes(p, "connect")
    /\ IF Active(p, Incoming(p)) /\ ~client[p].host /\ client[p].state = "confirming"
       THEN Launching(p, TRUE) ELSE UNCHANGED <<client, events>>
    /\ inbox' = Taken(p)
    /\ UNCHANGED <<commands, game, tokens, left>>

ReceiveEnd(p) ==
    /\ Comes(p, "end")
    /\ IF Active(p, Incoming(p)) THEN ResetMatch(p, client[p], Taken(p), FALSE, FALSE)
       ELSE inbox' = Taken(p) /\ UNCHANGED <<client, events>>
    /\ UNCHANGED <<commands, game, tokens, left>>

\* An outage that is longer than the relay keeps messages, or a full queue.
Lose(p) ==
    /\ Lives(p) /\ inbox[p] # <<>>
    /\ Spend("losses")
    /\ inbox' = Taken(p)
    /\ UNCHANGED <<client, events, commands, game, tokens>>

Receive(p) ==
    \/ ReceiveInvite(p) \/ ReceiveReply(p) \/ ReceiveCancel(p)
    \/ ReceiveOffer(p) \/ ReceiveConfirm(p) \/ ReceiveConnect(p) \/ ReceiveEnd(p)

-----------------------------------------------------------------------------
(* Tick. *)

IncomingExpires(p) ==
    /\ Lives(p) /\ left.late
    /\ \E r \in client[p].incoming : client' = [client EXCEPT ![p].incoming = @ \ {r}]
    /\ UNCHANGED <<inbox, events, commands, game, tokens, left>>

OutgoingExpires(p) ==
    /\ Lives(p) /\ left.late /\ client[p].outgoing # NoRequest
    /\ client' = [client EXCEPT ![p].outgoing = NoRequest]
    /\ inbox' = Sent(inbox, Recall(p, client[p]))
    /\ UNCHANGED <<events, commands, game, tokens, left>>

\* No connection within the time for it.
DeadlinePasses(p) ==
    /\ Lives(p) /\ left.late /\ client[p].deadline
    /\ ResetMatch(p, client[p], inbox, TRUE, FALSE)
    /\ UNCHANGED <<commands, game, tokens, left>>

-----------------------------------------------------------------------------
(* The controller and its game.  A game runs, is ready when the host's code is
   reported, plays when it is connected; cancelled it is closed, and over it is
   still to be reported.  A launch is pending while training is closed for it. *)

Report(p, type, match) == commands' = [commands EXCEPT ![p] = Append(@, [type |-> type, match |-> match])]
Goes(p, phase) == game' = [game EXCEPT ![p].phase = phase]
Event(p, type) == Lives(p) /\ events[p] # <<>> /\ Head(events[p]).type = type
EventTaken(p) == events' = [events EXCEPT ![p] = Tail(@)]

\* Launch; it may fail, or another game may be running.
Launch(p, match) ==
    \/ game' = [game EXCEPT ![p] = [phase |-> "running", match |-> match]] /\ UNCHANGED commands
    \/ game' = [game EXCEPT ![p] = [phase |-> "none", match |-> 0]] /\ Report(p, "finished", match)

TakeLaunch(p) ==
    /\ Event(p, "launch") /\ game[p].phase \in {"none", "dropped"}
    /\ \/ Launch(p, Head(events[p]).match)
       \/ /\ p \in Training
          /\ game' = [game EXCEPT ![p] = [phase |-> "pending", match |-> Head(events[p]).match]]
          /\ UNCHANGED commands
    /\ EventTaken(p)
    /\ UNCHANGED <<client, inbox, tokens, left>>

TrainingCloses(p) ==
    /\ game[p].phase = "pending"
    /\ Launch(p, game[p].match)
    /\ UNCHANGED <<client, inbox, events, tokens, left>>

TakeAbort(p) ==
    /\ Event(p, "abort")
    /\ IF game[p].match = Head(events[p]).match /\ game[p].phase \in {"pending", "running", "ready"}
       THEN Goes(p, IF game[p].phase = "pending" THEN "dropped" ELSE "cancelled")
       ELSE UNCHANGED game
    /\ EventTaken(p)
    /\ UNCHANGED <<client, inbox, commands, tokens, left>>

ReportCode(p) ==
    /\ game[p].phase = "running" /\ client[p].host
    /\ Goes(p, "ready") /\ Report(p, "host_ready", game[p].match)
    /\ UNCHANGED <<client, inbox, events, tokens, left>>

\* The two games have found each other.
ReportPlaying(p) ==
    /\ game[p].phase = IF client[p].host THEN "ready" ELSE "running"
    /\ \E q \in Players \ {p} : game[q].match = game[p].match
                                   /\ game[q].phase \in {"running", "ready", "playing"}
    /\ Goes(p, "playing") /\ Report(p, "playing", game[p].match)
    /\ UNCHANGED <<client, inbox, events, tokens, left>>

\* The players have had enough, or a game finds no peer.
GameEnds(p) ==
    /\ game[p].phase \in {"running", "ready", "playing", "cancelled"}
    /\ Goes(p, "over")
    /\ UNCHANGED <<client, inbox, events, commands, tokens, left>>

ReportEnd(p) ==
    /\ game[p].phase = "over"
    /\ Report(p, "finished", game[p].match)
    /\ game' = [game EXCEPT ![p] = [phase |-> "none", match |-> 0]]
    /\ UNCHANGED <<client, inbox, events, tokens, left>>

Controller(p) ==
    \/ TakeLaunch(p) \/ TakeAbort(p) \/ TrainingCloses(p)
    \/ ReportCode(p) \/ ReportPlaying(p) \/ ReportEnd(p)

\* The client takes the controller's next command; one about another match is
\* passed over.
Command(p, type) ==
    Lives(p) /\ commands[p] # <<>> /\ Head(commands[p]).type = type
Meant(p) == client[p].match # 0 /\ Head(commands[p]).match = client[p].match
CommandTaken(p) == commands' = [commands EXCEPT ![p] = Tail(@)]

TakeHostReady(p) ==
    /\ Command(p, "host_ready") /\ CommandTaken(p)
    /\ LET x == [client[p] EXCEPT !.code = TRUE]
       IN IF Meant(p) /\ x.host /\ x.state = "connecting" /\ ~client[p].code
          THEN \E ok, arrived \in BOOLEAN :
                 /\ Posting(ok, arrived)
                 /\ LET connect == {Message("connect", p, x.selected.peer, x.selected.id, x.match)}
                        box == Sent(inbox, IF arrived THEN connect ELSE {})
                    IN IF ok THEN client' = [client EXCEPT ![p] = x] /\ inbox' = box /\ UNCHANGED events
                       ELSE ResetMatch(p, x, box, TRUE, FALSE)
          ELSE UNCHANGED <<client, inbox, events, left>>
    /\ UNCHANGED <<game, tokens>>

TakePlaying(p) ==
    /\ Command(p, "playing") /\ CommandTaken(p)
    /\ client' = IF Meant(p) THEN [client EXCEPT ![p].state = "playing", ![p].deadline = FALSE]
                 ELSE client
    /\ UNCHANGED <<inbox, events, game, tokens, left>>

TakeFinished(p) ==
    /\ Command(p, "finished") /\ CommandTaken(p)
    /\ IF Meant(p) THEN ResetMatch(p, client[p], inbox, TRUE, TRUE)
       ELSE UNCHANGED <<client, inbox, events>>
    /\ UNCHANGED <<game, tokens, left>>

TakeCommand(p) == TakeHostReady(p) \/ TakePlaying(p) \/ TakeFinished(p)

-----------------------------------------------------------------------------

Act(p) ==
    \/ Accept(p) \/ Reject(p) \/ Cancel(p) \/ CancelMatch(p) \/ Suspend(p) \/ Resume(p)

Handle(p) ==
    \/ Receive(p) \/ TakeCommand(p)
    \/ IncomingExpires(p) \/ OutgoingExpires(p) \/ DeadlinePasses(p)

\* What is not done by the client's own thread.
Around(p) == Lose(p) \/ Controller(p) \/ GameEnds(p)

PairingNext ==
    \E p \in Players :
        \/ Act(p) \/ Handle(p) \/ Around(p)
        \/ \E q \in Players : Invite(p, q)
        \/ Unregister(p) \/ Die(p)

PairingSpec == PairingInit /\ [][PairingNext]_pairingVars

\* Clients and controllers run, limits pass, and no game lasts for ever.
PairingFairness ==
    \A p \in Players :
        /\ WF_pairingVars(Handle(p))
        /\ WF_pairingVars(Controller(p) \/ GameEnds(p))

PairingFairSpec == PairingSpec /\ PairingFairness

-----------------------------------------------------------------------------
(* Properties. *)

\* Two clients that are in one match are in it with each other, over the same
\* invitation, one as the host and one as the guest; and there is no third.
PairedRoles ==
    \A p, q \in Players :
        p # q /\ client[p].match # 0 /\ client[p].match = client[q].match =>
            /\ client[p].selected = [id |-> client[q].selected.id, peer |-> q]
            /\ client[q].selected = [id |-> client[p].selected.id, peer |-> p]
            /\ client[p].host # client[q].host

\* A client does not forget a match of which a game runs or is about to start,
\* whatever is cancelled, times out or arrives late: it would be free for
\* another player while its game still plays.
GameKeepsMatch ==
    \A p \in Players : Lives(p) =>
        /\ game[p].phase \notin {"none", "dropped"} => game[p].match = client[p].match
        /\ \A i \in DOMAIN events[p] :
              events[p][i].type = "launch" => events[p][i].match = client[p].match

Waiting(p) == client[p].state \in {"waiting", "idle", "playing"} \/ ~Lives(p)

\* Whatever is lost or called off, who is in between is free again or plays at
\* last; unless its game was called off while training was being closed for it.
NobodyHangs ==
    left.late => \A p \in Players : []<>(Waiting(p) \/ game[p].phase = "dropped")

\* The registration can be used again after a connection has failed
\* (MatchingController.hpp:76), also for who trains while waiting.
AlwaysFreeAgain ==
    left.late => \A p \in Players : []<>Waiting(p)

\* Two players who invite each other come together, when nobody calls it off
\* and the network works.
Undisturbed ==
    /\ ~left.late /\ left.stops = {} /\ left.crashes = {}
    /\ \A l \in Limits : left[l] = 0

Cross(p, q) == client[p].outgoing.peer = q /\ client[q].outgoing.peer = p

InvitationsMeet ==
    \A p \in Players : \A q \in {r \in Players : p < r} :
        (Undisturbed /\ Cross(p, q))
            ~> (client[p].match # 0 /\ client[p].match = client[q].match)
=============================================================================
