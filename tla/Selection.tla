------------------------------ MODULE Selection ------------------------------
(***************************************************************************)
(* The character selection.  Each player confirms a character, the host    *)
(* also a stage; either may change the settings of the session (delay and  *)
(* rollback) before confirming, by commands that the host puts in order.   *)
(* Every side resends its whole state with a revision and acknowledges the *)
(* peer's, until it knows that the peer has its last revision and leaves.  *)
(*                                                                         *)
(* Modelled are SelectionState, SettingsCommands, the part of              *)
(* SceneRunner::Step that runs the menu and what it reads from the game's  *)
(* screen.  One setting stands for delay and rollback, one value for       *)
(* character, moon and color.  The epoch of a menu is its number.          *)
(***************************************************************************)
EXTENDS Menu, FiniteSets

CONSTANTS
    Characters, \* what a player can choose, numbers from 1
    Stages,     \* what the host can choose, numbers from 1
    Settings,   \* the settings, numbers from 1
    Default,    \* the settings the session starts with
    Sessions    \* the sessions: what is asked for, and the bounds of each

\* A session is a record: how many selections it has (menus), how often a side may
\* ask for other settings in each (requests, a bound) and for which (wanted), what
\* may be chosen in each (choices) and how many packets are under way at a time
\* (inFlight, a bound).
ASSUME ConstantsAssumption ==
    /\ Menus \in Nat
    /\ \A S \in {Characters, Stages, Settings} : S \subseteq Nat \ {0} /\ S # {}
    /\ Default \in Settings
    /\ \A d \in Sessions :
          /\ d.menus \in 1 .. Menus /\ d.requests \in Nat /\ d.inFlight \in Nat
          /\ d.wanted \subseteq Settings
          /\ DOMAIN d.choices = 1 .. Menus
          /\ \A m \in 1 .. Menus : d.choices[m] \subseteq Characters

Higher(a, b) == IF a > b THEN a ELSE b

VARIABLES
    session,    \* which of the sessions is played; it never changes
    screen,     \* screen[s]: the character and stage chosen in the game, 0 if none
    requested,  \* requested[s]: how many changes the player has requested
    queued,     \* queued[s]: SettingsCommands::queued, 0 if none
    pending,    \* pending[s]: SettingsCommands::pending, 0 if none
    settings,   \* settings[s]: SettingsCommands::delay and rollback
    local,      \* local[s]: localSelection
    peer,       \* peer[s]: peerSelection
    released,   \* released[s]: selectionReleased
    plan,       \* plan[m][s]: with what s has left menu m
    net         \* the packets under way

vars == <<session, screen, requested, queued, pending, settings, local, peer, released, plan, net>>

Blank == [epoch |-> 0, revision |-> 0, ack |-> 0, character |-> 0, stage |-> 0,
          serial |-> 0, command |-> 0, commandAck |-> 0, settings |-> 0]
None == [host |-> 0, client |-> 0, stage |-> 0, settings |-> 0]
Plans == [host : Characters, client : Characters, stage : Stages, settings : Settings]

Init ==
    /\ session \in Sessions
    /\ screen = [s \in Sides |-> [character |-> 0, stage |-> 0]]
    /\ requested = [s \in Sides |-> 0]
    /\ queued = [s \in Sides |-> 0]
    /\ pending = [s \in Sides |-> 0]
    /\ settings = [s \in Sides |-> Default]
    /\ local = [s \in Sides |-> Blank]
    /\ peer = [s \in Sides |-> Blank]
    /\ released = [s \in Sides |-> TRUE]
    /\ plan = [m \in 1 .. Menus |-> [s \in Sides |-> None]]
    /\ net = {}

InMenu(s) == local[s].epoch > 0 /\ plan[local[s].epoch][s] = None

-----------------------------------------------------------------------------
(* SelectionState. *)

\* Mistake: an older revision of the same menu replaces a newer one.
AcceptAnyRevision(old, m) ==
    IF m.epoch < old.epoch THEN old
    ELSE [m EXCEPT !.ack = IF m.epoch = old.epoch THEN Higher(@, old.ack) ELSE @]

\* Accept: older menus and revisions are ignored, the acknowledgement only grows.
Accept(old, m) ==
    IF m.epoch < old.epoch \/ (m.epoch = old.epoch /\ m.revision < old.revision) THEN old
    ELSE [m EXCEPT !.ack = IF m.epoch = old.epoch THEN Higher(@, old.ack) ELSE @]

\* Mistake: an acknowledgement of the present revision does not count.
PeerHasMore(a, b) ==
    /\ b.epoch = a.epoch
    /\ a.character # 0 /\ b.character # 0
    /\ b.ack > a.revision

\* PeerHasFinal: the peer has chosen and knows the present revision.
PeerHasFinal(a, b) ==
    /\ b.epoch = a.epoch
    /\ a.character # 0 /\ b.character # 0
    /\ b.ack >= a.revision

-----------------------------------------------------------------------------
(* The players. *)

Confirm(s, c) ==
    /\ InMenu(s) /\ screen[s].character = 0
    /\ c \in session.choices[local[s].epoch]
    /\ screen' = [screen EXCEPT ![s].character = c]
    /\ UNCHANGED <<session, requested, queued, pending, settings, local, peer, released, plan, net>>

\* The stage is chosen after both characters, on the host.
ChooseStage(g) ==
    /\ InMenu(Host) /\ screen[Host].stage = 0
    /\ screen[Host].character # 0 /\ peer[Host].epoch = local[Host].epoch
    /\ peer[Host].character # 0
    /\ screen' = [screen EXCEPT ![Host].stage = g]
    /\ UNCHANGED <<session, requested, queued, pending, settings, local, peer, released, plan, net>>

\* A request is dropped while another one is pending.
Request(s, v) ==
    /\ InMenu(s) /\ requested[s] < session.requests
    /\ v \in session.wanted
    /\ pending[s] = 0
    /\ requested' = [requested EXCEPT ![s] = @ + 1]
    /\ pending' = [pending EXCEPT ![s] = v]
    /\ queued' = [queued EXCEPT ![s] = v]
    /\ UNCHANGED <<session, screen, settings, local, peer, released, plan, net>>

-----------------------------------------------------------------------------
(* The game thread. *)

\* The next menu follows a round that both sides have entered together; the
\* boundary drops what is pending.
Enter(s) ==
    /\ ~InMenu(s)
    /\ local[s].epoch < session.menus
    /\ \A t \in Sides, m \in 1 .. local[s].epoch : plan[m][t] # None
    /\ local' = [local EXCEPT ![s] =
                   [Blank EXCEPT !.epoch = local[s].epoch + 1, !.revision = 1,
                                 !.settings = settings[s]]]
    /\ screen' = [screen EXCEPT ![s] = [character |-> 0, stage |-> 0]]
    /\ requested' = [requested EXCEPT ![s] = 0]
    /\ queued' = [queued EXCEPT ![s] = 0]
    /\ pending' = [pending EXCEPT ![s] = 0]
    /\ released' = [released EXCEPT ![s] = FALSE]
    /\ UNCHANGED <<session, settings, peer, plan, net>>

\* Mistake: what is known of the peer's last menu is used in this one.
KnownOfAnyMenu(s) == [peer[s] EXCEPT !.epoch = local[s].epoch]

\* What is known of the peer in this menu.
Known(s) == IF peer[s].epoch = local[s].epoch THEN peer[s] ELSE Blank

\* ReadLocalSelection: what the player has chosen since the last frame, each a
\* revision of its own.
ReadScreen(s) ==
    LET l == local[s]
        character == l.character = 0 /\ screen[s].character # 0
        stage == l.stage = 0 /\ screen[s].stage # 0
    IN [l EXCEPT !.character = screen[s].character, !.stage = screen[s].stage,
                 !.revision = @ + (IF character THEN 1 ELSE 0) + (IF stage THEN 1 ELSE 0)]

\* Mistake: the settings can be changed after the character is confirmed.
TakesAlways(s, l) == queued[s] # 0

\* An own command counts until the own character is confirmed.
Takes(s, l) == queued[s] # 0 /\ l.character = 0 /\ ~released[s]

\* The host takes a command of the client: acknowledged, and a new revision.
TakeCommand(l, p) == [l EXCEPT !.commandAck = p.serial, !.revision = @ + 1]

\* The state after the commands of this frame, and the settings with it.
HostCommands(l, p) ==
    LET own == Takes(Host, l)
        l1 == IF own THEN [l EXCEPT !.revision = @ + 1] ELSE l
        theirs == p.serial > l.commandAck /\ ~released[Host]
        l2 == IF theirs THEN TakeCommand(l1, p) ELSE l1
    IN [l2 EXCEPT !.settings = IF theirs THEN p.command
                               ELSE IF own THEN queued[Host]
                               ELSE settings[Host]]

\* The client goes by what the host says.
Follows(l, p) == p.settings

ClientCommands(l, p) ==
    LET l1 == IF Takes(Client, l)
              THEN [l EXCEPT !.command = queued[Client], !.serial = @ + 1, !.revision = @ + 1]
              ELSE l
    IN [l1 EXCEPT !.settings = IF p.epoch # 0 THEN Follows(l1, p) ELSE @]

\* An own command is over when it has been dropped, applied by the host, or
\* acknowledged to the client.
CommandOver(s, l, p) ==
    IF s = Host THEN queued[Host] # 0
    ELSE \/ queued[Client] # 0 /\ ~Takes(Client, ReadScreen(Client))
         \/ p.epoch # 0 /\ l.serial > 0 /\ p.commandAck = l.serial

\* settingsReady
SettingsReady(s, l, p) ==
    IF s = Host THEN pending'[Host] = 0 ELSE l.serial = 0 \/ p.commandAck = l.serial

\* One frame of the menu.
Step(s) ==
    /\ InMenu(s)
    /\ LET p == Known(s)
           l0 == ReadScreen(s)
           l1 == IF s = Host THEN HostCommands(l0, p) ELSE ClientCommands(l0, p)
           l == [l1 EXCEPT !.ack = p.revision]
           stage == IF s = Host THEN l.stage ELSE p.stage
       IN /\ local' = [local EXCEPT ![s] = l]
          /\ queued' = [queued EXCEPT ![s] = 0]
          /\ pending' = [pending EXCEPT ![s] = IF CommandOver(s, l, p) THEN 0 ELSE @]
          /\ settings' = [settings EXCEPT ![s] =
                             IF s = Host \/ p.epoch # 0 THEN l.settings ELSE @]
          /\ released' = [released EXCEPT ![s] =
                             \/ @
                             \/ PeerHasFinal(l, p) /\ stage # 0 /\ SettingsReady(s, l, p)]
    /\ UNCHANGED <<session, screen, requested, peer, plan, net>>

\* The game leaves the screen some frames after the release, and the round
\* that follows takes over the settings.
Leave(s) ==
    /\ InMenu(s) /\ released[s]
    /\ LET p == Known(s)
           h == IF s = Host THEN local[s] ELSE p
           c == IF s = Host THEN p ELSE local[s]
       IN plan' = [plan EXCEPT ![local[s].epoch][s] =
                     [host |-> h.character, client |-> c.character, stage |-> h.stage,
                      settings |-> settings[s]]]
    /\ UNCHANGED <<session, screen, requested, queued, pending, settings, local, peer, released, net>>

-----------------------------------------------------------------------------
(* The network thread. *)

Packet(s) == [from |-> s, state |-> local[s]]

\* Packets are sent all the time, and any of those under way may be lost.
Send(s) ==
    /\ Packet(s) \notin net
    /\ local[s].epoch > 0
    /\ \E kept \in SUBSET net :
          /\ Cardinality(kept \cup {Packet(s)}) <= session.inFlight
          /\ net' = kept \cup {Packet(s)}
    /\ UNCHANGED <<session, screen, requested, queued, pending, settings, local, peer, released, plan>>

Receive(s, m) ==
    /\ m.from = Other(s)
    /\ peer' = [peer EXCEPT ![s] = Accept(@, m.state)]
    /\ net' \in {net, net \ {m}}
    /\ UNCHANGED <<session, screen, requested, queued, pending, settings, local, released, plan>>

Next ==
    \/ \E s \in Sides :
          \/ \E c \in Characters : Confirm(s, c)
          \/ \E v \in Settings : Request(s, v)
          \/ Enter(s)
          \/ Step(s)
          \/ Leave(s)
          \/ Send(s)
          \/ \E m \in net : Receive(s, m)
    \/ \E g \in Stages : ChooseStage(g)

Spec == Init /\ [][Next]_vars

\* Both sides are alive, both players decide, and a packet that is built again
\* and again arrives in the end.
FairSpec ==
    /\ Spec
    /\ WF_vars(\E g \in Stages : ChooseStage(g))
    /\ \A s \in Sides :
          /\ WF_vars(\E c \in Characters : Confirm(s, c))
          /\ WF_vars(Enter(s))
          /\ WF_vars(Step(s))
          /\ WF_vars(Leave(s))
          /\ WF_vars(Send(s))
          /\ SF_vars(\E m \in net : m = Packet(Other(s)) /\ Receive(s, m))

-----------------------------------------------------------------------------
(* Properties. *)

\* Type invariant.
TypeOK ==
    /\ session \in Sessions
    /\ \A s \in Sides :
          /\ screen[s] \in [character : Characters \cup {0}, stage : Stages \cup {0}]
          /\ requested[s] \in 0 .. session.requests
          /\ {queued[s], pending[s]} \subseteq Settings \cup {0}
          /\ settings[s] \in Settings
          /\ released[s] \in BOOLEAN
          /\ local[s].serial <= requested[s]
          /\ local[s].revision <= 3 + 2 * session.requests
          /\ \A m \in 1 .. Menus : plan[m][s] \in Plans \cup {None}

Promise == INSTANCE Decision WITH Items <- 1 .. Menus, Values <- Plans, decided <- plan

\* Both sides go into the round with the same characters, the same stage and
\* the same settings, whatever commands and confirmations cross.
ImplementsDecision == Promise!Spec

\* Each player fights with the character that player has chosen, on the stage
\* the host has chosen.
AsChosen ==
    \A s, t \in Sides :
        LET m == local[t].epoch
        IN m > 0 /\ plan[m][s] # None =>
              /\ t = Host => /\ plan[m][s].host = screen[Host].character
                             /\ plan[m][s].stage = screen[Host].stage
              /\ t = Client => plan[m][s].client = screen[Client].character

\* A command is done or dropped when the menu is left: nobody plays with
\* settings that another player's command is still going to change.
NothingPending ==
    \A s \in Sides :
        LET o == Other(s)
            m == local[s].epoch
        IN m > 0 /\ plan[m][s] # None /\ local[o].epoch = m
              => /\ local[o].settings = plan[m][s].settings
                 /\ local[Host].commandAck = local[Client].serial

\* While both sides are alive and both players choose, both leave every menu.
EverybodyLeaves == <>(\A m \in 1 .. session.menus, s \in Sides : plan[m][s] # None)
=============================================================================
