----------------------------- MODULE Connecting -----------------------------
(***************************************************************************)
(* What the launcher does to bring two players together and to keep them   *)
(* so: a code leads to a session between peers, a hash to the older search *)
(* for a route and start-up negotiation (HandleNetplayConnection), and     *)
(* then it runs the game (LaunchAndMonitorGame).  Whichever way was taken, *)
(* the game is started for one partner only, so that the ways and the game *)
(* are independent of each other, and each is followed on its own.         *)
(***************************************************************************)
EXTENDS PeerSession, Startup, Session

VARIABLE kind \* what is followed; it never changes

\* What is of no account for the kind is fixed.
ConnectingInit ==
    /\ kind \in {"code", "hash", "game"}
    /\ Init /\ (kind # "code" => nat = CHOOSE n \in Nats : TRUE)
    /\ StartupInit /\ (kind # "hash" => net = CHOOSE n \in Nets : TRUE)
    /\ SessionInit

ConnectingNext ==
    /\ \/ kind = "code" /\ Next /\ UNCHANGED <<startupVars, sessionVars>>
       \/ kind = "hash" /\ StartupNext /\ UNCHANGED <<vars, sessionVars>>
       \/ kind = "game" /\ SessionNext /\ UNCHANGED <<vars, startupVars>>
    /\ UNCHANGED kind

ConnectingSpec ==
    ConnectingInit /\ [][ConnectingNext]_<<kind, vars, startupVars, sessionVars>>

\* Of what was not begun nothing can happen, so that its fairness asks for nothing.
ConnectingFairSpec ==
    ConnectingSpec /\ Fairness /\ StartupFairness /\ SessionFairness
=============================================================================
