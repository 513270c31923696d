------------------------------- MODULE Session -------------------------------
(***************************************************************************)
(* The session of two games that have been started for each other, from    *)
(* their handshake to the end.  The games say READY and measure each       *)
(* other's clock until each counts frames (NetplaySession::ThreadMain).    *)
(* When a player closes the game, when it fails or does not hear from the  *)
(* other one any more, it ends, and its launcher, which outlives it, tells *)
(* the other side why and waits for the answer (SessionCloseMonitor).      *)
(*                                                                         *)
(* Every limit of time may run out at any moment.  Packets arrive never,   *)
(* late and more than once.  Left out are programs without nonces, whose   *)
(* notice of the end has no reason, and a change of the clock's source.    *)
(***************************************************************************)
EXTENDS Integers

CONSTANTS
    Sides,   \* the two sides
    Reasons, \* what a player may end the game with
    Unknown, \* the game has ended by itself
    Untold,  \* nothing has been said
    Samples  \* measurements of the clock that make an estimate

ASSUME SessionAssumption ==
    /\ \E a, b \in Sides : a # b /\ Sides = {a, b}
    /\ Untold \notin Reasons \cup {Unknown}
    /\ Samples \in Nat \ {0}

VARIABLES
    mode,     \* mode[s]: what the game does
    heard,    \* heard[s]: what the game has received: anything, READY, measurements
    ticks,    \* what the games have sent; it may arrive never, late, more than once
    shared,   \* shared[s]: what game and launcher share of the end
    launcher, \* launcher[s]: what the launcher does
    told,     \* told[s]: what the launcher has told its player of both sides' end
    final,    \* final[s]: the launcher's exchange with the other launcher
    notices   \* what the launchers have sent

sessionVars == <<mode, heard, ticks, shared, launcher, told, final, notices>>

Opposite(s) == CHOOSE o \in Sides : o # s

Nothing == [packet |-> FALSE, ready |-> FALSE, samples |-> 0]

SessionInit ==
    /\ mode = [s \in Sides |-> "starting"]
    /\ heard = [s \in Sides |-> Nothing]
    /\ ticks = {} /\ notices = {}
    /\ shared = [s \in Sides |-> [own |-> Untold, closed |-> FALSE, peer |-> Unknown]]
    /\ launcher = [s \in Sides |-> "watching"]
    /\ told = [s \in Sides |-> [own |-> Untold, peer |-> Untold]]
    /\ final = [s \in Sides |->
                  [initiated |-> FALSE, reason |-> Unknown, confirmed |-> FALSE, remote |-> Untold]]

endVars == <<shared, launcher, told, final, notices>>

-----------------------------------------------------------------------------
(* The games *)

Running(s) == mode[s] \in {"WaitReady", "WaitStart", "Counting"}

GameStarts(s) ==
    /\ mode[s] = "starting"
    /\ mode' = [mode EXCEPT ![s] = "WaitReady"]
    /\ UNCHANGED <<heard, ticks, endVars>>

\* Mistake: READY is said only until the other one has said it.
SaysOnce(s) ==
    [from |-> s, ready |-> mode[s] = "WaitReady", echo |-> heard[s].packet]

\* What the game says now.  Who counts says READY no more.
Says(s) ==
    [from |-> s, ready |-> mode[s] # "Counting", echo |-> heard[s].packet]

\* One round of the network thread.  To a game that is gone nothing arrives.
Tick(s) ==
    /\ Running(s)
    /\ ticks' = ticks \cup {p \in {Says(s)} : mode[Opposite(s)] # "gone"}
    /\ mode' = [mode EXCEPT ![s] =
          CASE @ = "WaitReady" /\ heard[s].ready -> "WaitStart"
            [] @ = "WaitStart" /\ heard[s].samples = Samples -> "Counting"
            [] OTHER -> @]
    /\ UNCHANGED <<heard, endVars>>

\* A packet that echoes one of this side measures the clock, if it was fast enough.
GameReads(s, p) ==
    /\ Running(s) /\ p.from # s
    /\ \E n \in {0, 1} :
          /\ n = 1 => p.echo /\ heard[s].samples < Samples
          /\ heard' = [heard EXCEPT ![s] = [packet |-> TRUE, ready |-> @.ready \/ p.ready,
                                            samples |-> @.samples + n]]
    /\ UNCHANGED <<mode, ticks, endVars>>

\* Mistake: the last key pressed is the reason.
AsksLast(s, r) == [shared EXCEPT ![s].own = r]

\* The first reason stays (RequestLocalGameExit).
Asks(s, r) == [shared EXCEPT ![s].own = IF @ = Untold THEN r ELSE @]

\* The game only notes that the player wants to end it.
PlayerCloses(s, r) ==
    /\ mode[s] # "gone"
    /\ shared' = Asks(s, r)
    /\ UNCHANGED <<mode, heard, ticks, launcher, told, final, notices>>

GameReadsNotice(s, n) ==
    /\ Running(s) /\ n.from # s /\ ~n.ack
    /\ shared' = [shared EXCEPT ![s] = [own |-> @.own, closed |-> TRUE, peer |-> n.reason]]
    /\ UNCHANGED <<mode, heard, ticks, launcher, told, final, notices>>

\* The process ends, and with it what it knew and what could still reach it.
Dies(s) ==
    /\ mode' = [mode EXCEPT ![s] = "gone"]
    /\ heard' = [heard EXCEPT ![s] = Nothing]
    /\ ticks' = {p \in ticks : p.from = s /\ mode[Opposite(s)] # "gone"}
    /\ UNCHANGED <<launcher, told, final, notices>>

\* It crashes, gives up waiting for the handshake, or is ended by its launcher
\* that waits for the handshake as well.
GameFails(s) == mode[s] # "gone" /\ Dies(s) /\ UNCHANGED shared

\* Who counts and hears nothing for three seconds ends the game.
LosesPeer(s) == mode[s] = "Counting" /\ Dies(s) /\ UNCHANGED shared

\* The watch over a socket between peers gives up after 45 seconds and notes this
\* over anything noted before; the game then hears nothing more.
TransportFails(s) ==
    /\ Running(s) /\ Dies(s)
    /\ shared' = [shared EXCEPT ![s].closed = FALSE]

-----------------------------------------------------------------------------
(* The launchers *)

\* Report: what is new to the player.
Reported(s) ==
    [own |-> IF told[s].own = Untold THEN shared[s].own ELSE told[s].own,
     peer |-> IF shared[s].closed /\ told[s].peer = Untold THEN shared[s].peer ELSE told[s].peer]

\* Poll: the launcher sees that the game is to end, tells why and ends it.
Sees(s) ==
    /\ launcher[s] = "watching" /\ mode[s] # "gone"
    /\ shared[s].own # Untold \/ shared[s].closed
    /\ told' = [told EXCEPT ![s] = Reported(s)]
    /\ launcher' = [launcher EXCEPT ![s] = "ending"]
    /\ UNCHANGED <<mode, heard, ticks, shared, final, notices>>

Terminates(s) == launcher[s] = "ending" /\ mode[s] # "gone" /\ Dies(s) /\ UNCHANGED shared

\* Finish, when the game is gone.  Unless the other one has closed, this side has.
FinishBegins(s) ==
    /\ launcher[s] \in {"watching", "ending"} /\ mode[s] = "gone"
    /\ LET initiated == ~shared[s].closed \/ shared[s].own # Untold
           t == Reported(s)
       IN /\ told' = [told EXCEPT ![s] =
                [own |-> IF initiated /\ t.own = Untold THEN Unknown ELSE t.own, peer |-> t.peer]]
          /\ final' = [final EXCEPT ![s] =
                [initiated |-> initiated, confirmed |-> FALSE,
                 reason |-> IF shared[s].own = Untold THEN Unknown ELSE shared[s].own,
                 remote |-> IF t.peer = Untold THEN Untold ELSE shared[s].peer]]
    /\ launcher' = [launcher EXCEPT ![s] = "finishing"]
    /\ UNCHANGED <<mode, heard, ticks, shared, notices>>

Notice(s, ack, reason) == [from |-> s, ack |-> ack, reason |-> reason]

\* One round: answer the other side, and say why until it has answered.
FinishRound(s) ==
    /\ launcher[s] = "finishing"
    /\ LET f == final[s]
           answer == {Notice(s, TRUE, r) : r \in {f.remote} \ {Untold}}
           mine == IF f.initiated /\ ~f.confirmed THEN {Notice(s, FALSE, f.reason)} ELSE {}
       IN /\ told' = [told EXCEPT ![s].peer = IF @ = Untold THEN f.remote ELSE @]
          /\ notices' = notices \cup answer \cup mine
          /\ launcher' = [launcher EXCEPT ![s] =
                IF f.initiated /\ f.confirmed /\ f.remote = Untold THEN "over" ELSE @]
    /\ UNCHANGED <<mode, heard, ticks, shared, final>>

FinishReads(s, n) ==
    /\ launcher[s] = "finishing" /\ n.from # s
    /\ final' = IF n.ack THEN [final EXCEPT ![s].confirmed = @ \/ n.reason = final[s].reason]
                ELSE [final EXCEPT ![s].remote = n.reason]
    /\ UNCHANGED <<mode, heard, ticks, shared, launcher, told, notices>>

TimeIsUp(s) ==
    /\ launcher[s] = "finishing"
    /\ launcher' = [launcher EXCEPT ![s] = "over"]
    /\ UNCHANGED <<mode, heard, ticks, shared, told, final, notices>>

SessionNext ==
    \E s \in Sides :
        \/ GameStarts(s) \/ Tick(s) \/ \E p \in ticks : GameReads(s, p)
        \/ \E r \in Reasons : PlayerCloses(s, r)
        \/ \E n \in notices : GameReadsNotice(s, n) \/ FinishReads(s, n)
        \/ GameFails(s) \/ LosesPeer(s) \/ TransportFails(s)
        \/ Sees(s) \/ Terminates(s) \/ FinishBegins(s) \/ FinishRound(s) \/ TimeIsUp(s)

SessionSpec == SessionInit /\ [][SessionNext]_sessionVars

\* The threads run.  What a game keeps saying arrives in the end.  Who counts and
\* whose peer is gone hears nothing any more.
SessionFairness ==
    \A s \in Sides :
        /\ WF_sessionVars(Tick(s))
        /\ WF_sessionVars(\E p \in ticks : p = Says(Opposite(s)) /\ GameReads(s, p))
        /\ WF_sessionVars(mode[Opposite(s)] = "gone" /\ LosesPeer(s))

SessionFairSpec == SessionSpec /\ SessionFairness

-----------------------------------------------------------------------------
(* Properties *)

\* What may be said of an end, and what may have been said.
Said == Reasons \cup {Unknown}
Told == Said \cup {Untold}

\* Type invariant.
SessionTypeOK ==
    /\ mode \in [Sides -> {"starting", "WaitReady", "WaitStart", "Counting", "gone"}]
    /\ heard \in [Sides -> [packet : BOOLEAN, ready : BOOLEAN, samples : 0 .. Samples]]
    /\ ticks \subseteq [from : Sides, ready : BOOLEAN, echo : BOOLEAN]
    /\ shared \in [Sides -> [own : Told, closed : BOOLEAN, peer : Said]]
    /\ launcher \in [Sides -> {"watching", "ending", "finishing", "over"}]
    /\ told \in [Sides -> [own : Told, peer : Told]]
    /\ final \in [Sides -> [initiated : BOOLEAN, reason : Said, confirmed : BOOLEAN, remote : Told]]
    /\ notices \subseteq [from : Sides, ack : BOOLEAN, reason : Said]

\* What a player is told of the other side's end is what that side has told its own
\* player, and a notice that counts as received has been told to the other player,
\* whichever of game and launcher has read it and whoever closes in the meantime.
ReportsAgree ==
    \A s \in Sides :
        LET o == Opposite(s)
        IN /\ told[s].peer # Untold => told[o].own = told[s].peer
           /\ final[s].confirmed => told[o].peer = final[s].reason

\* Nobody goes on alone: when one side counts, the other one counts as well in the
\* end, or the first one's game ends.  In particular who counts, and says READY no
\* more, has not left the other one waiting for it.
Alone(s) == mode[s] = "Counting" /\ mode[Opposite(s)] # "Counting"

NobodyPlaysAlone == (\E s \in Sides : Alone(s)) ~> (\A s \in Sides : ~Alone(s))
=============================================================================
