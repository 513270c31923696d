----------------------------- MODULE PeerSession -----------------------------
(***************************************************************************)
(* A host and its guests find a route to each other.  A guest that has the *)
(* host's code asks over a relay and the local network, or copies codes by *)
(* hand; the host admits one session at a time and answers busy to others. *)
(* Then both send packets to all addresses they know of each other, the    *)
(* host selects one of the routes that answered, and the guest confirms.   *)
(*                                                                         *)
(* Modelled are Session::Run, Request, Manual, Answer, Punch and Busy,     *)
(* Admission, and the answers of UdpSocket after the guest has gone on to  *)
(* the game.  The time limits may run out at any time.  A route is a pair  *)
(* of addresses: the host's as the guest sees it, the guest's as the host  *)
(* does.  What the guest sends first (its own PUNCH) only opens its router *)
(* and is part of nat; what is encrypted is read by the peer alone.        *)
(***************************************************************************)
EXTENDS Integers, FiniteSets

CONSTANTS
    Guests,     \* attempts of guests
    ByHand,     \* those of them who copy codes by hand
    Ports,      \* the addresses of a guest, numbered
    HostPorts,  \* the addresses of the host, as a guest may see them
    Candidates, \* the addresses a guest knows of itself and tells the host
    Rank,       \* Rank[a]: how the host likes the address; the least wins
    Nats,       \* what the routers do
    Attempts,   \* bound: sessions the host tries
    Answers,    \* Admission: how many sessions are answered at most
    None        \* no address, session or route

\* A router's behaviour n: what the host sends to port a of a guest comes from
\* one of n.down[a], what a guest sends to h comes from one of its n.up[h].
ASSUME ConstantsAssumption ==
    /\ ByHand \subseteq Guests
    /\ Candidates \subseteq Ports
    /\ Rank \in [Ports -> Nat]
    /\ \A n \in Nats : /\ n.down \in [Ports -> SUBSET HostPorts]
                       /\ n.up \in [HostPorts -> SUBSET Ports]
    /\ Attempts \in Nat /\ Answers \in Nat

Addresses == Guests \X Ports
Routes == [host : HostPorts, guest : Addresses]
GuestOf(r) == r.guest[1]

\* A session is a guest's own number, or the number in a code of the host.
Relayed(g) == <<"relayed", g>>
Coded(n) == <<"coded", n>>
Sessions == {Relayed(g) : g \in Guests} \cup {Coded(n) : n \in 1 .. Attempts + 1}

ASSUME NoneAssumption ==
    /\ None \notin HostPorts /\ None \notin Guests /\ None \notin Routes
    /\ None \notin Sessions /\ None \notin Sessions \X Routes

VARIABLES
    nat,      \* what the routers do; it never changes
    phase,    \* what the host does
    code,     \* the number in the code the host shows, manualSid
    sid,      \* the session the host is in
    remote,   \* the addresses it tries
    admitted, \* Admission::seen
    paths,    \* paths[a]: the own address that a has answered with, or None
    selected, \* the route the host has fixed, or None
    guest,    \* guest[g]: what guest g does, its session and its route
    requests, \* sessions for which a request has been sent
    answers,  \* the answers sent
    toGuests, \* what may arrive of the packets the host has sent
    toHost,   \* what may arrive of the packets the guests have sent
    offered   \* history: the route fixed in each session

hostVars == <<phase, code, sid, remote, admitted, paths, selected, offered>>
vars == <<nat, hostVars, guest, requests, answers, toGuests, toHost>>

Init ==
    /\ nat \in Nats
    /\ phase = "waiting"
    /\ code = 1
    /\ sid = None
    /\ remote = {}
    /\ admitted = {}
    /\ paths = [a \in Addresses |-> None]
    /\ selected = None
    /\ guest = [g \in Guests |-> [phase |-> "start", sid |-> None, route |-> None]]
    /\ requests = {}
    /\ answers = {}
    /\ toGuests = {}
    /\ toHost = {}
    /\ offered = [s \in Sessions |-> None]

-----------------------------------------------------------------------------
(* Asking and answering. *)

\* The guest sends its request over the local network again and again, and once
\* over the relay if the host is seen to wait there: it arrives never, once or more
\* often.
GuestAsks(g) ==
    /\ g \notin ByHand /\ guest[g].phase = "start"
    /\ guest' = [guest EXCEPT ![g].phase = "asking", ![g].sid = Relayed(g)]
    /\ requests' = requests \cup {Relayed(g)}
    /\ UNCHANGED <<nat, hostVars, answers, toGuests, toHost>>

\* The relay says that the host is busy or closed.  It is told so when the host
\* pairs or closes, if it can be reached; before that it says waiting or nothing.
GuestTurnsAway(g) ==
    /\ g \notin ByHand /\ guest[g].phase = "start"
    /\ phase \in {"connected", "ended", "closed"}
    /\ guest' = [guest EXCEPT ![g].phase = "gone"]
    /\ UNCHANGED <<nat, hostVars, requests, answers, toGuests, toHost>>

\* The guest is given the host's code and makes a reply of it.
GuestCopies(g) ==
    /\ g \in ByHand /\ guest[g].phase = "start" /\ phase \in {"waiting", "punching"}
    /\ guest' = [guest EXCEPT ![g].phase = "copied", ![g].sid = Coded(code)]
    /\ UNCHANGED <<nat, hostVars, requests, answers, toGuests, toHost>>

\* Admission::Admit: every session once, and not too many in all.
Admits(s) == s \notin admitted /\ Cardinality(admitted) < Answers

\* Gather and the first lines of Punch.
Begin(s, g) ==
    /\ phase = "waiting" /\ code <= Attempts
    /\ Admits(s)
    /\ phase' = "punching"
    /\ sid' = s
    /\ remote' = {<<g, a>> : a \in Candidates}
    /\ admitted' = admitted \cup {s}
    /\ paths' = [a \in Addresses |-> None]
    /\ selected' = None
    /\ UNCHANGED <<nat, code, guest, requests, toGuests, toHost, offered>>

\* Manual: the player pastes a reply; one to an older code is refused.
HostPastes(g) ==
    /\ g \in ByHand /\ guest[g].sid = Coded(code)
    /\ Begin(Coded(code), g)
    /\ UNCHANGED answers

\* Request while waiting.
HostAccepts(g) ==
    /\ Relayed(g) \in requests
    /\ Begin(Relayed(g), g)
    /\ answers' = answers \cup {[sid |-> Relayed(g), accept |-> TRUE]}

\* Mistake: a request that has been answered is answered again.
RefusesAgain(s) == TRUE

\* A copy of a request is not answered, whichever way it comes.
Refuses(s) == Admits(s)

\* Request with busy, during Punch and after it.
HostRefuses(g) ==
    /\ phase \in {"punching", "connected"}
    /\ Relayed(g) \in requests
    /\ Refuses(Relayed(g))
    /\ admitted' = admitted \cup {Relayed(g)}
    /\ answers' = answers \cup {[sid |-> Relayed(g), accept |-> FALSE]}
    /\ UNCHANGED <<nat, phase, code, sid, remote, paths, selected, guest, requests,
                   toGuests, toHost, offered>>

GuestReadsAnswer(g) ==
    /\ guest[g].phase = "asking"
    /\ \E m \in answers :
          /\ m.sid = guest[g].sid
          /\ guest' = [guest EXCEPT ![g].phase = IF m.accept THEN "punching" ELSE "gone"]
    /\ UNCHANGED <<nat, hostVars, requests, answers, toGuests, toHost>>

\* Either the player starts, or a packet of the host has come.
GuestStarts(g) ==
    /\ guest[g].phase = "copied"
    /\ guest' = [guest EXCEPT ![g].phase = "punching"]
    /\ UNCHANGED <<nat, hostVars, requests, answers, toGuests, toHost>>

-----------------------------------------------------------------------------
(* Punching. *)

\* As what a packet may arrive that the host sends to address a.  It need not be
\* read, and it may be read again and late.
Down(type, a, route) ==
    {[to |-> a[1], src |-> h, type |-> type, sid |-> sid, route |-> route] :
         h \in nat.down[a[2]]}

\* As what a packet may arrive that g sends to the host's address h.
Up(type, g, h, route) ==
    {[src |-> <<g, a>>, type |-> type, sid |-> guest[g].sid, route |-> route] :
         a \in nat.up[h]}

HostPunches(a) ==
    /\ phase = "punching" /\ selected = None
    /\ a \in remote
    /\ toGuests' = toGuests \cup Down("punch", a, None)
    /\ UNCHANGED <<nat, hostVars, guest, requests, answers, toHost>>

\* The guest tells from where the packet came.
GuestAcks(g, m) ==
    /\ m.type = "punch" /\ m.to = g
    /\ guest[g].phase = "punching" /\ m.sid = guest[g].sid
    /\ toHost' = toHost \cup Up("ack", g, m.src, [host |-> m.src, guest |-> None])
    /\ UNCHANGED <<nat, hostVars, guest, requests, answers, toGuests>>

\* Mistake: answers of an earlier session count.
OfAnySession(m) == phase = "punching"

\* A packet for the host that is read in Punch.
OfThisSession(m) == phase = "punching" /\ m.sid = sid

HostNotesPath(m) ==
    /\ m.type = "ack" /\ OfThisSession(m)
    /\ paths' = [paths EXCEPT ![m.src] = m.route.host]
    /\ UNCHANGED <<nat, phase, code, sid, remote, admitted, selected, guest, requests,
                   answers, toGuests, toHost, offered>>

\* Nothing is fixed so far.
NotFixed == selected = None

\* A second after the first answer the host fixes the route it likes most.
HostFixes(a) ==
    /\ phase = "punching" /\ NotFixed
    /\ paths[a] # None
    /\ \A b \in Addresses : paths[b] # None => Rank[a[2]] <= Rank[b[2]]
    /\ selected' = [host |-> paths[a], guest |-> a]
    /\ offered' = [offered EXCEPT ![sid] = [host |-> paths[a], guest |-> a]]
    /\ UNCHANGED <<nat, phase, code, sid, remote, admitted, paths, guest, requests,
                   answers, toGuests, toHost>>

HostSelects ==
    /\ phase = "punching" /\ selected # None
    /\ toGuests' = toGuests \cup Down("select", selected.guest, selected)
    /\ UNCHANGED <<nat, hostVars, guest, requests, answers, toHost>>

\* Mistake: the guest takes a selection that came another way.
CameAnyWay(m) == TRUE

\* The packet came from the address that the selected route begins with.
CameThatWay(m) == m.route.host = m.src

\* The guest confirms, once, and goes on to the game.  The confirmation may be lost.
GuestTakes(g, m) ==
    /\ m.type = "select" /\ m.to = g
    /\ guest[g].phase = "punching" /\ m.sid = guest[g].sid
    /\ CameThatWay(m)
    /\ guest' = [guest EXCEPT ![g].phase = "connected",
                              ![g].route = [host |-> m.src, guest |-> m.route.guest]]
    /\ \E arriving \in SUBSET Up("selected", g, m.src, m.route) : toHost' = toHost \cup arriving
    /\ UNCHANGED <<nat, hostVars, requests, answers, toGuests>>

\* Mistake: the game's socket does not answer the host's selection.
Silent(g, m) == FALSE

\* The game's socket goes on answering its peer.
Answering(g, m) ==
    /\ m.type = "select" /\ m.to = g /\ m.sid = guest[g].sid
    /\ guest[g].phase = "connected" /\ m.src = guest[g].route.host

GuestTakesAgain(g, m) ==
    /\ Answering(g, m)
    /\ \E arriving \in SUBSET Up("selected", g, m.src, m.route) : toHost' = toHost \cup arriving
    /\ UNCHANGED <<nat, hostVars, guest, requests, answers, toGuests>>

\* The host goes on to the game.
HostPairs(m) ==
    /\ m.type = "selected" /\ OfThisSession(m)
    /\ selected # None /\ m.src = selected.guest /\ m.route = selected
    /\ phase' = "connected"
    /\ UNCHANGED <<nat, code, sid, remote, admitted, paths, selected, guest, requests, answers,
                   toGuests, toHost, offered>>

-----------------------------------------------------------------------------
(* Giving up. *)

\* Ten seconds have passed: the host waits again, and shows another code.
HostTimesOut ==
    /\ phase = "punching"
    /\ phase' = "waiting"
    /\ code' = code + 1
    /\ UNCHANGED <<nat, sid, remote, admitted, paths, selected, guest, requests, answers, toGuests, toHost,
                   offered>>

\* The player stops, or the connection is lost.
HostCloses ==
    /\ phase \in {"waiting", "punching", "connected"}
    /\ phase' = IF phase = "connected" THEN "ended" ELSE "closed"
    /\ UNCHANGED <<nat, code, sid, remote, admitted, paths, selected, guest, requests, answers,
                   toGuests, toHost, offered>>

\* No answer within 15 seconds, no route within 10, or the player stops.
GuestGivesUp(g) ==
    /\ guest[g].phase \in {"asking", "copied", "punching"}
    /\ guest' = [guest EXCEPT ![g].phase = "gone"]
    /\ UNCHANGED <<nat, hostVars, requests, answers, toGuests, toHost>>

\* Keepalive: nothing has come from the host for 45 seconds.
GuestIsCutOff(g) ==
    /\ guest[g].phase = "connected"
    /\ guest' = [guest EXCEPT ![g].phase = "gone"]
    /\ UNCHANGED <<nat, hostVars, requests, answers, toGuests, toHost>>

Host ==
    \/ \E g \in Guests : HostPastes(g) \/ HostAccepts(g) \/ HostRefuses(g)
    \/ \E a \in Addresses : HostPunches(a) \/ HostFixes(a)
    \/ \E m \in toHost : HostNotesPath(m) \/ HostPairs(m)
    \/ HostSelects
    \/ HostTimesOut
    \/ HostCloses

Guest(g) ==
    \/ GuestAsks(g) \/ GuestTurnsAway(g) \/ GuestCopies(g)
    \/ GuestReadsAnswer(g) \/ GuestStarts(g)
    \/ \E m \in toGuests : GuestAcks(g, m) \/ GuestTakes(g, m) \/ GuestTakesAgain(g, m)
    \/ GuestGivesUp(g) \/ GuestIsCutOff(g)

Next == Host \/ \E g \in Guests : Guest(g)

Spec == Init /\ [][Next]_vars

\* Both sides run; what is sent again and again arrives in the end.  Nothing is
\* assumed of the time limits or of the players.
Fairness ==
    /\ \A a \in Addresses : WF_vars(HostPunches(a))
    /\ WF_vars(\E a \in Addresses : HostFixes(a))
    /\ WF_vars(HostSelects)
    /\ WF_vars(\E m \in toHost : HostNotesPath(m))
    /\ WF_vars(\E m \in toHost : HostPairs(m))
    /\ \A g \in Guests :
          /\ WF_vars(\E m \in toGuests : GuestAcks(g, m))
          /\ WF_vars(\E m \in toGuests : GuestTakes(g, m))
          /\ WF_vars(\E m \in toGuests : GuestTakesAgain(g, m))

FairSpec == Spec /\ Fairness

-----------------------------------------------------------------------------
(* Properties. *)

\* Type invariant.
TypeOK ==
    /\ nat \in Nats
    /\ phase \in {"waiting", "punching", "connected", "ended", "closed"}
    /\ code \in 1 .. Attempts + 1
    /\ sid \in Sessions \cup {None}
    /\ remote \subseteq Addresses
    /\ admitted \subseteq Sessions
    /\ paths \in [Addresses -> HostPorts \cup {None}]
    /\ selected \in Routes \cup {None}
    /\ guest \in [Guests -> [phase : {"start", "asking", "copied", "punching", "connected", "gone"},
                             sid : Sessions \cup {None}, route : Routes \cup {None}]]
    /\ requests \subseteq Sessions
    /\ answers \subseteq [sid : Sessions, accept : BOOLEAN]
    /\ offered \in [Sessions -> Routes \cup {None}]

\* What each side goes on with.
Taken == [g \in Guests |-> IF guest[g].route = None THEN None
                           ELSE <<guest[g].sid, guest[g].route>>]

\* A guest whose request has been accepted is never told that the host is busy,
\* although its request comes over the relay and the local network and is
\* repeated: it would give up while the host tries to reach it.
AcceptedNotRefused ==
    \A m, n \in answers : m.sid = n.sid => m.accept = n.accept

\* The host tries the routes of the guest it is in a session with: nothing that
\* is late from an earlier session makes it select a route that leads nowhere.
PathsLeadToGuest ==
    phase = "punching" =>
        \A a \in Addresses : paths[a] # None => a \in Addresses /\ guest[a[1]].sid = sid

\* The route both sides use is the same.
Promise ==
    INSTANCE Pairing WITH taken <- Taken,
        paired <- IF phase \in {"connected", "ended"} THEN <<sid, selected>> ELSE None

ImplementsPairing == Promise!Spec

\* While host and guest are in the same session, some route works both ways and
\* none of the two gives up, they find one; and a guest that has gone on to the
\* game is joined by the host, although its confirmation may be lost.
Steady ==
    \A a \in Candidates : \A h \in nat.down[a] : nat.up[h] \in {{}, {a}} /\ nat.down[a] = {h}

Works(a) == nat.down[a] # {} /\ \A h \in nat.down[a] : nat.up[h] = {a}

Together(g) ==
    /\ phase = "punching" /\ guest[g].sid = sid
    /\ \E a \in Candidates : <<g, a>> \in remote /\ Works(a)
    /\ guest[g].phase \in {"punching", "connected"}

TheyMeet ==
    Steady => \A g \in Guests :
        Together(g) ~> (phase # "punching" \/ guest[g].phase = "gone")
=============================================================================
