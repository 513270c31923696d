-------------------------------- MODULE Retry --------------------------------
(***************************************************************************)
(* The rematch menu.  Each player chooses to fight once more or to go back *)
(* to the character selection; the choices and their acknowledgements are  *)
(* resent until both sides know the result and leave the menu with it.     *)
(*                                                                         *)
(* Modelled are RetrySelection, the part of SceneRunner::Step that runs    *)
(* the menu, and the field of SyncCodec's packets that carries it.  A side *)
(* that has left keeps resending what it last said, which may be all the   *)
(* other one still needs.                                                  *)
(***************************************************************************)
EXTENDS Menu, FiniteSets

CONSTANT InFlight   \* bound: packets of the menu under way at a time

ASSUME RetryAssumption == Menus \in Nat /\ InFlight \in Nat

\* 0 is no choice, 1 once more, 2 the character selection.
RetryChoices == 0 .. 2
NoResult == "none"
Again == "again"
Select == "select"

VARIABLES
    player,       \* player[s]: the choice made on the screen of s
    localRetry,   \* localRetry[s]: what s says of its menu
    peerRetry,    \* peerRetry[s]: what s knows of the other's menu
    result,       \* result[m][s]: with what s has left menu m
    netRetry      \* the packets under way

retryVars == <<player, localRetry, peerRetry, result, netRetry>>

RetryStates == [epoch : 0 .. Menus, choice : RetryChoices, ack : RetryChoices]
BlankRetry == [epoch |-> 0, choice |-> 0, ack |-> 0]

RetryInit ==
    /\ player = [s \in Sides |-> 0]
    /\ localRetry = [s \in Sides |-> BlankRetry]
    /\ peerRetry = [s \in Sides |-> BlankRetry]
    /\ result = [m \in 1 .. Menus |-> [s \in Sides |-> NoResult]]
    /\ netRetry = {}

InRetry(s) == localRetry[s].epoch > 0 /\ result[localRetry[s].epoch][s] = NoResult

-----------------------------------------------------------------------------
(* RetrySelection. *)

\* Mistake: the own choice decides.
OwnChoice(a, b) ==
    IF a.choice = 2 THEN Select ELSE IF a.choice = 1 THEN Again ELSE NoResult

\* Result: one player is enough to go back, both are needed to go on.
Result(a, b) ==
    IF a.epoch # b.epoch THEN NoResult
    ELSE IF 2 \in {a.choice, b.choice} THEN Select
    ELSE IF a.choice = 1 /\ b.choice = 1 THEN Again
    ELSE NoResult

\* CanRelease: the own choice, if there is one, is known to the peer.
CanRelease(a, b) ==
    /\ Result(a, b) # NoResult
    /\ a.ack = b.choice
    /\ a.choice # 0 => b.ack = a.choice

\* Accept: a newer menu replaces, an older one is ignored, and of the same menu
\* a choice or an acknowledgement is filled in and never changed.
AcceptRetry(old, m) ==
    LET in == [epoch |-> m.epoch, choice |-> m.choice, ack |-> m.ack]
        Clash(a, b) == a # 0 /\ b # 0 /\ a # b
    IN IF in.epoch < old.epoch THEN old
       ELSE IF in.epoch > old.epoch THEN in
       ELSE IF Clash(old.choice, in.choice) \/ Clash(old.ack, in.ack) THEN old
       ELSE [old EXCEPT !.choice = IF in.choice # 0 THEN in.choice ELSE @,
                        !.ack = IF in.ack # 0 THEN in.ack ELSE @]

-----------------------------------------------------------------------------
(* The game thread. *)

\* Between two menus lies a round that both sides enter together, so both have
\* left the menu before.
EnterRetry(s) ==
    /\ ~InRetry(s)
    /\ localRetry[s].epoch < Menus
    /\ \A t \in Sides, m \in 1 .. localRetry[s].epoch : result[m][t] # NoResult
    /\ localRetry' = [localRetry EXCEPT ![s] = [epoch |-> @.epoch + 1, choice |-> 0, ack |-> 0]]
    /\ player' = [player EXCEPT ![s] = 0]
    /\ UNCHANGED <<peerRetry, result, netRetry>>

\* The player decides on the screen.
Choose(s, c) ==
    /\ InRetry(s) /\ player[s] = 0
    /\ player' = [player EXCEPT ![s] = c]
    /\ UNCHANGED <<localRetry, peerRetry, result, netRetry>>

\* Mistake: what is known of the peer's last menu is used in this one.
ChoiceOfAnyMenu(s) == [peerRetry[s] EXCEPT !.epoch = localRetry[s].epoch]

\* What is known of the peer in this menu.
KnownRetry(s) == IF peerRetry[s].epoch = localRetry[s].epoch THEN peerRetry[s] ELSE BlankRetry

\* One frame of the menu.
StepRetry(s) ==
    /\ InRetry(s)
    /\ LET p == KnownRetry(s)
           l == [localRetry[s] EXCEPT !.choice = IF @ = 0 THEN player[s] ELSE @,
                                 !.ack = p.choice]
       IN /\ localRetry' = [localRetry EXCEPT ![s] = l]
          /\ result' = IF CanRelease(l, p)
                       THEN [result EXCEPT ![l.epoch][s] = Result(l, p)]
                       ELSE result
    /\ UNCHANGED <<player, peerRetry, netRetry>>

-----------------------------------------------------------------------------
(* The network thread. *)

\* Mistake: the field is sent only while the menu is open.
SilentWhenDone(s) ==
    [from |-> s, epoch |-> IF InRetry(s) THEN localRetry[s].epoch ELSE 0,
     choice |-> localRetry[s].choice, ack |-> localRetry[s].ack]

RetryPacket(s) ==
    [from |-> s, epoch |-> localRetry[s].epoch, choice |-> localRetry[s].choice, ack |-> localRetry[s].ack]

\* Packets are sent all the time, and any of those under way may be lost.
SendRetry(s) ==
    /\ RetryPacket(s) \notin netRetry
    /\ \E kept \in SUBSET netRetry :
          /\ Cardinality(kept \cup {RetryPacket(s)}) <= InFlight
          /\ netRetry' = kept \cup {RetryPacket(s)}
    /\ UNCHANGED <<player, localRetry, peerRetry, result>>

ReceiveRetry(s, m) ==
    /\ m.from = Other(s)
    /\ peerRetry' = [peerRetry EXCEPT ![s] = AcceptRetry(@, m)]
    /\ netRetry' \in {netRetry, netRetry \ {m}}
    /\ UNCHANGED <<player, localRetry, result>>

RetryNext ==
    \E s \in Sides :
        \/ EnterRetry(s)
        \/ \E c \in {1, 2} : Choose(s, c)
        \/ StepRetry(s)
        \/ SendRetry(s)
        \/ \E m \in netRetry : ReceiveRetry(s, m)

RetrySpec == RetryInit /\ [][RetryNext]_retryVars

\* Both sides are alive: their threads run, both players decide, and a packet
\* that is built again and again arrives in the end.
RetryFairSpec ==
    /\ RetrySpec
    /\ \A s \in Sides :
          /\ WF_retryVars(EnterRetry(s))
          /\ WF_retryVars(\E c \in {1, 2} : Choose(s, c))
          /\ WF_retryVars(StepRetry(s))
          /\ WF_retryVars(SendRetry(s))
          /\ SF_retryVars(\E m \in netRetry : m = RetryPacket(Other(s)) /\ ReceiveRetry(s, m))

-----------------------------------------------------------------------------
(* Properties. *)

\* Type invariant.
RetryTypeOK ==
    /\ player \in [Sides -> RetryChoices]
    /\ localRetry \in [Sides -> RetryStates]
    /\ peerRetry \in [Sides -> RetryStates]
    /\ result \in [1 .. Menus -> [Sides -> {NoResult, Again, Select}]]
    /\ netRetry \subseteq [from : Sides, epoch : 0 .. Menus, choice : RetryChoices, ack : RetryChoices]

\* The next fight begins only if both players have chosen it, however the
\* choices and their acknowledgements cross: a player who wants to go back is
\* never taken into another fight.
NobodyForced ==
    \A s, t \in Sides :
        LET m == localRetry[s].epoch
        IN m > 0 /\ localRetry[t].epoch = m /\ result[m][s] = Again => localRetry[t].choice = 1

RetryPromise == INSTANCE Decision WITH
    Items <- 1 .. Menus, Values <- {Again, Select}, None <- NoResult, decided <- result

\* Of every menu each side decides once, and both decide the same.
RetryDecision == RetryPromise!Spec

\* While both sides are alive and both players choose, both leave every menu.
EverybodyLeavesRetry == <>(\A m \in 1 .. Menus, s \in Sides : result[m][s] # NoResult)
=============================================================================
