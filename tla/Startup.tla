------------------------------- MODULE Startup -------------------------------
(***************************************************************************)
(* A host and those who have its hash find a route and agree to start the  *)
(* game.  First each side looks for a route (SelectRoute): directly, then  *)
(* by punching with the help of a relay.  The host selects a route; the    *)
(* probe of an older program decides at once.  The two then exchange       *)
(* probes over that route until each knows that the other has its nonce    *)
(* (RunNegotiation), and start the game, which answers the probes of a     *)
(* partner who has missed the last one (NetplayManager).                   *)
(*                                                                         *)
(* Every limit of time may run out at any moment.  Which of the usable     *)
(* routes is best is left open.  A nonce is the name of its side.  Left    *)
(* out are tokens of foreign sessions, programs without nonces and         *)
(* switches for tests.                                                     *)
(***************************************************************************)
EXTENDS Integers

CONSTANTS
    Hosting,  \* the host
    Joiners,  \* those who have the hash
    Families, \* IPv4 and IPv6
    Helped,   \* the families for which the relay tells addresses
    Nets,     \* what the network may be
    Rounds    \* bound: how often the host begins to wait

Parties == Joiners \cup {Hosting}

Nobody == ""
NoRoute == <<>>

\* In a network n, the host is reached over n.open without punching, and a joiner g
\* has sockets for n.speaks[g].
ASSUME StartupAssumption ==
    /\ Hosting \notin Joiners /\ Nobody \notin Parties
    /\ Helped \subseteq Families
    /\ Nets \subseteq [open : SUBSET Families, speaks : [Joiners -> SUBSET Families]]
    /\ Rounds \in Nat \ {0}

VARIABLES
    net,     \* the network; it never changes
    opened,  \* <<s, o, f>>: s has sent to o over f, its router lets o answer
    relay,   \* joiners that have asked the relay
    stage,   \* stage[s]: what s does
    look,    \* look[s]: the search for a route
    talk,    \* talk[s]: the agreement with the partner
    packets  \* what has been sent; it may arrive never, late and more than once

startupVars == <<net, opened, relay, stage, look, talk, packets>>

Ways(s) ==
    IF s = Hosting THEN {c \in Joiners \X Families : c[2] \in net.speaks[c[1]]}
    ELSE {Hosting} \X net.speaks[s]

NoLook(candidates) ==
    [heard |-> Nobody, candidates |-> candidates, assisted |-> {}, usable |-> {},
     punching |-> FALSE, selected |-> NoRoute, legacy |-> FALSE, checked |-> FALSE, round |-> 1]

StartupInit ==
    /\ net \in Nets
    /\ opened = {} /\ relay = {} /\ packets = {}
    /\ stage = [s \in Parties |-> IF Ways(s) = {} THEN "over" ELSE "routes"]
    /\ look = [s \in Parties |-> NoLook(IF s = Hosting THEN {} ELSE Ways(s))]
    /\ talk = [s \in Parties |->
                  [with |-> NoRoute, heard |-> Nobody, echoed |-> FALSE, replied |-> FALSE]]

-----------------------------------------------------------------------------
(* Packets *)

Packet(type, s, c, echo, punched) ==
    [type |-> type, from |-> s, to |-> c[1], family |-> c[2], echo |-> echo, punched |-> punched]

From(p) == <<p.from, p.family>>

Sent(ps) ==
    /\ packets' = packets \cup ps
    /\ opened' = opened \cup {<<p.from, p.to, p.family>> : p \in ps}

\* Routers let through what the own side has sent to before.
Passes(s, c) == (c[1] = Hosting /\ c[2] \in net.open) \/ <<c[1], s, c[2]>> \in opened

Arrives(p, s) == p.to = s /\ Passes(p.from, <<s, p.family>>)

-----------------------------------------------------------------------------
(* The search for a route *)

\* All is measured afresh; what is selected stays.
BeginPunch(l) ==
    IF l.punching THEN l ELSE [l EXCEPT !.punching = TRUE, !.checked = TRUE, !.usable = {}]

\* A packet of this search is read if it is of the one partner and for this side.
Takes(s, o, echo) ==
    stage[s] = "routes" /\ look[s].heard \in {Nobody, o} /\ echo \in {Nobody, s}

\* What any packet tells of its sender c.  It holds the sender's own IPv6 address,
\* which the host tries only while it punches.
Noted(s, c, punched) ==
    LET l == [look[s] EXCEPT !.heard = c[1], !.candidates = @ \cup {c}]
        m == IF punched THEN BeginPunch(l) ELSE l
    IN IF m.punching
       THEN [m EXCEPT !.candidates = @ \cup {w \in Ways(s) : w[1] = c[1] /\ w[2] \notin Helped}]
       ELSE m

\* While punching over IPv4, only an address that the relay has named is tried.
Tries(s, c) ==
    /\ stage[s] = "routes" /\ c \in look[s].candidates
    /\ ~look[s].punching \/ c[2] \notin Helped \/ c \in look[s].assisted

\* A ping and its answer, of which either may be lost.  They measure the route of
\* s, unless the answer is what makes s punch.
Measure(s, c) ==
    /\ Tries(s, c)
    /\ LET o == c[1]
           back == <<s, c[2]>>
           read == Passes(s, c) /\ Takes(o, s, look[s].heard)
           there == Noted(o, back, look[s].punching)
           here == Noted(s, c, there.punching)
           measured == IF here.punching = look[s].punching
                       THEN [here EXCEPT !.usable = @ \cup {c}] ELSE here
       IN \/ ~read /\ opened' = opened \cup {<<s, o, c[2]>>} /\ UNCHANGED look
          \/ /\ read
             /\ opened' = opened \cup {<<s, o, c[2]>>, <<o, s, c[2]>>}
             /\ \/ look' = [look EXCEPT ![o] = there]
                \/ Takes(s, o, s) /\ look' = [look EXCEPT ![o] = there, ![s] = measured]
    /\ UNCHANGED <<net, relay, stage, talk, packets>>

\* A joiner who hears nothing also tries the probe of older programs.
LegacyProbe(g, c) ==
    /\ g # Hosting /\ Tries(g, c) /\ look[g].heard = Nobody
    /\ look' = [look EXCEPT ![g].legacy = TRUE]
    /\ Sent({Packet("probe", g, c, Nobody, FALSE)})
    /\ UNCHANGED <<net, relay, stage, talk>>

SelectPacket(c) == Packet("select", Hosting, c, look[Hosting].heard, look[Hosting].punching)

\* The host selects some time after it has heard of a joiner.
Choose(c) ==
    /\ stage[Hosting] = "routes" /\ look[Hosting].heard # Nobody
    /\ look[Hosting].selected = NoRoute /\ c \in look[Hosting].usable
    /\ look' = [look EXCEPT ![Hosting].selected = c]
    /\ Sent({SelectPacket(c)})
    /\ UNCHANGED <<net, relay, stage, talk>>

SelectAgain(c) ==
    /\ look[Hosting].selected = c /\ Tries(Hosting, c)
    /\ Sent({SelectPacket(c)})
    /\ UNCHANGED <<net, relay, stage, look, talk>>

Forgotten(s) == [look EXCEPT ![s] = NoLook({})]

\* finish: the route is handed on to the negotiation and all else forgotten.
Finish(s, c) ==
    /\ stage' = [stage EXCEPT ![s] = "talk"]
    /\ talk' = [talk EXCEPT ![s].with = c]
    /\ look' = Forgotten(s)

ReadSelect(g, p) ==
    /\ p.type = "select" /\ Arrives(p, g) /\ Takes(g, p.from, p.echo)
    /\ LET l == Noted(g, From(p), p.punched)
       IN IF p.echo = g /\ From(p) \in l.usable
          THEN Finish(g, From(p)) /\ Sent({Packet("accept", g, From(p), p.from, l.punching)})
          ELSE look' = [look EXCEPT ![g] = l] /\ UNCHANGED <<opened, packets, stage, talk>>
    /\ UNCHANGED <<net, relay>>

ReadAccept(p) ==
    /\ p.type = "accept" /\ Arrives(p, Hosting) /\ Takes(Hosting, p.from, p.echo)
    /\ LET l == Noted(Hosting, From(p), p.punched)
       IN IF From(p) = l.selected THEN Finish(Hosting, From(p))
          ELSE look' = [look EXCEPT ![Hosting] = l] /\ UNCHANGED <<stage, talk>>
    /\ UNCHANGED <<net, opened, relay, packets>>

\* A probe instead: of a partner who has gone on, or of an older program.
ReadProbeEarly(s, p) ==
    /\ stage[s] = "routes" /\ p.type \in {"probe", "last"} /\ Arrives(p, s)
    /\ \/ look[s].selected = From(p)
       \/ look[s].heard = Nobody /\ (s = Hosting \/ look[s].legacy)
    /\ Finish(s, From(p))
    /\ UNCHANGED <<net, opened, relay, packets>>

\* The time for a direct connection is over.
DirectEnds(g) ==
    /\ g # Hosting /\ stage[g] = "routes" /\ ~look[g].checked
    /\ IF look[g].usable = {}
       THEN /\ look' = [look EXCEPT ![g] = BeginPunch(@)]
            /\ relay' = relay \cup {x \in {g} : net.speaks[x] \cap Helped # {}}
       ELSE look' = [look EXCEPT ![g].checked = TRUE] /\ UNCHANGED relay
    /\ UNCHANGED <<net, opened, stage, talk, packets>>

\* The relay tells s that it is matched with o, and mostly also o's address.
RelayMatches(s, o) ==
    /\ stage[s] = "routes" /\ relay \cap {s, o} # {}
    /\ \E found \in SUBSET {w \in Ways(s) : w[1] = o /\ w[2] \in Helped} :
          look' = [look EXCEPT ![s] =
              [BeginPunch(@) EXCEPT !.candidates = @ \cup found, !.assisted = @ \cup found]]
    /\ UNCHANGED <<net, opened, relay, stage, talk, packets>>

\* Nobody has come of it for twelve seconds: the host waits for others.
WaitAgain ==
    /\ stage[Hosting] = "routes" /\ (look[Hosting].heard # Nobody \/ look[Hosting].punching)
    /\ look[Hosting].round < Rounds
    /\ look' = [look EXCEPT ![Hosting] = [NoLook({}) EXCEPT !.round = look[Hosting].round + 1]]
    /\ UNCHANGED <<net, opened, relay, stage, talk, packets>>

-----------------------------------------------------------------------------
(* The agreement *)

Probe(s) ==
    /\ stage[s] = "talk"
    /\ Sent({Packet("probe", s, talk[s].with, talk[s].heard, FALSE)})
    /\ talk' = [talk EXCEPT ![s].replied = @ \/ talk[s].heard # Nobody]
    /\ UNCHANGED <<net, relay, stage, look>>

\* Mistake: a packet of the partner counts whichever way it comes.
ComesAnyWay(s, p) == p.from = talk[s].with[1]

\* The packet comes from the partner, over the route that was found.
ComesFromPartner(s, p) == From(p) = talk[s].with

ReadProbe(s, p) ==
    /\ stage[s] = "talk" /\ p.type \in {"probe", "last"} /\ Arrives(p, s)
    /\ ComesFromPartner(s, p)
    /\ talk[s].heard \in {Nobody, p.from} /\ p.echo \in {Nobody, s}
    /\ talk' = [talk EXCEPT ![s].heard = p.from, ![s].echoed = @ \/ p.echo = s]
    /\ UNCHANGED <<net, opened, relay, stage, look, packets>>

\* The side knows that the other has its nonce, and has told the other the same.
\* It sends no more; all of its packets that are under way may be lost for good.
Ready(s) == talk[s].heard # Nobody /\ talk[s].echoed /\ talk[s].replied

Lock(s) ==
    /\ stage[s] = "talk" /\ Ready(s)
    /\ stage' = [stage EXCEPT ![s] = "game"]
    /\ packets' \in {packets, {p \in packets : p.from # s}}
    /\ UNCHANGED <<net, opened, relay, look, talk>>

\* Mistake: the game leaves the start-up alone.
RepliesNever(s, p) == FALSE

\* As the partner still probes, the games have not met.
CanReply(s, p) == p.type = "probe" /\ ComesFromPartner(s, p) /\ p.echo = s

GameReplies(s, p) ==
    /\ stage[s] = "game" /\ Arrives(p, s) /\ CanReply(s, p)
    /\ Sent({Packet("last", s, From(p), talk[s].heard, FALSE)})
    /\ UNCHANGED <<net, relay, stage, look, talk>>

\* The player cancels, or nothing has come of it in time.
Ends(s) ==
    /\ stage[s] \in {"routes", "talk"}
    /\ stage' = [stage EXCEPT ![s] = "over"]
    /\ look' = Forgotten(s)
    /\ UNCHANGED <<net, opened, relay, talk, packets>>

StartupNext ==
    \/ \E s \in Parties :
          \/ \E c \in Ways(s) : Measure(s, c) \/ LegacyProbe(s, c)
          \/ \E p \in packets : ReadProbeEarly(s, p) \/ ReadProbe(s, p) \/ GameReplies(s, p)
          \/ \E c \in Ways(s) : RelayMatches(s, c[1])
          \/ DirectEnds(s) \/ Probe(s) \/ Lock(s) \/ Ends(s)
    \/ \E c \in Ways(Hosting) : Choose(c) \/ SelectAgain(c)
    \/ \E p \in packets : ReadAccept(p) \/ \E g \in Joiners : ReadSelect(g, p)
    \/ WaitAgain

StartupSpec == StartupInit /\ [][StartupNext]_startupVars

\* Whoever negotiates keeps sending, the game answers, and what is sent again and
\* again arrives in the end.
StartupFairness ==
    \A s \in Parties :
        /\ WF_startupVars(Probe(s)) /\ WF_startupVars(Lock(s))
        /\ WF_startupVars(\E p \in packets : ReadProbe(s, p) \/ GameReplies(s, p))

StartupFairSpec == StartupSpec /\ StartupFairness

-----------------------------------------------------------------------------
(* Properties *)

\* A side that starts its game has one partner, and that partner has taken the
\* same route and knows its nonce.
OnePartner ==
    \A s \in Parties : stage[s] = "game" =>
        LET o == talk[s].with[1]
        IN /\ talk[o].with = <<s, talk[s].with[2]>>
           /\ {t \in Parties : talk[t].heard = s} = {o}

\* Nobody is left negotiating with a partner whose game has started, even if that
\* partner's last packet was lost.
LeftBy(s) == stage[s] = "game" /\ stage[talk[s].with[1]] = "talk"

NobodyIsLeft == (\E s \in Parties : LeftBy(s)) ~> (\A s \in Parties : ~LeftBy(s))
=============================================================================
