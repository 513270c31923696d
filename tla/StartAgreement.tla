--------------------------- MODULE StartAgreement ---------------------------
(***************************************************************************)
(* What the two players of a session are promised about the start of an    *)
(* epoch (a round): the host takes at most one decision per epoch, a side  *)
(* that goes, goes at the decided time, and the host goes only after the   *)
(* client has bound itself to that decision.  Either side may drop out at  *)
(* any moment.  EpochStart implements this specification with packets that *)
(* can be lost, duplicated and reordered.                                  *)
(***************************************************************************)
EXTENDS Naturals

CONSTANT MaxEpoch

Host == "host"
Client == "client"
Sides == {Host, Client}
Other(p) == IF p = Host THEN Client ELSE Host

VARIABLES
    epoch,      \* epoch[p]: the epoch side p has entered, 0 before the first
    state,      \* state[p]: "idle", "waiting", "going" or "out"
    decided,    \* {t} once the host has decided on t for its epoch, {} before
    bound,      \* has the client bound itself to the decision of its epoch?
    goal        \* goal[p]: {t} while side p goes by the start time t, else {}

vars == <<epoch, state, decided, bound, goal>>

Init ==
    /\ epoch = [p \in Sides |-> 0]
    /\ state = [p \in Sides |-> "idle"]
    /\ decided = {}
    /\ bound = FALSE
    /\ goal = [p \in Sides |-> {}]

\* A side leaves an epoch only when the other side goes in it or has left it.
Enter(p) ==
    /\ state[p] \in {"idle", "going"}
    /\ epoch[p] < MaxEpoch
    /\ epoch[p] > 0 =>
          \/ epoch[Other(p)] = epoch[p] /\ state[Other(p)] = "going"
          \/ epoch[Other(p)] = epoch[p] + 1
    /\ epoch' = [epoch EXCEPT ![p] = @ + 1]
    /\ state' = [state EXCEPT ![p] = "waiting"]
    /\ goal' = [goal EXCEPT ![p] = {}]
    /\ decided' = IF p = Host THEN {} ELSE decided
    /\ bound' = IF p = Client THEN FALSE ELSE bound

Decide ==
    /\ state[Host] = "waiting"
    /\ decided = {}
    /\ decided' # {}
    /\ \A t, u \in decided' : t = u
    /\ UNCHANGED <<epoch, state, bound, goal>>

Bind ==
    /\ state[Client] = "waiting"
    /\ epoch[Host] = epoch[Client]
    /\ decided # {}
    /\ bound' = TRUE
    /\ state' = [state EXCEPT ![Client] = "going"]
    /\ goal' = [goal EXCEPT ![Client] = decided]
    /\ UNCHANGED <<epoch, decided>>

HostGo ==
    /\ state[Host] = "waiting"
    /\ epoch[Host] = epoch[Client]
    /\ decided # {}
    /\ bound
    /\ state' = [state EXCEPT ![Host] = "going"]
    /\ goal' = [goal EXCEPT ![Host] = decided]
    /\ UNCHANGED <<epoch, decided, bound>>

Drop(p) ==
    /\ state[p] \in {"waiting", "going"}
    /\ state' = [state EXCEPT ![p] = "out"]
    /\ goal' = [goal EXCEPT ![p] = {}]
    /\ UNCHANGED <<epoch, decided, bound>>

Next ==
    \/ \E p \in Sides : Enter(p) \/ Drop(p)
    \/ Decide
    \/ Bind
    \/ HostGo

Spec == Init /\ [][Next]_vars
=============================================================================
