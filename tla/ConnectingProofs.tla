-------------------------- MODULE ConnectingProofs --------------------------
(***************************************************************************)
(* Proofs about connecting: by a code (PeerSession), by a hash (Startup),  *)
(* and about the end of the game (Session), for any number of guests,      *)
(* addresses, joiners and reasons; then about the launcher that goes one   *)
(* of these ways (Connecting).                                             *)
(*                                                                         *)
(* What is under way may arrive late, again, or never.  Each of the three  *)
(* arguments is therefore that a packet says of its sender what stays true *)
(* of it: a guest keeps its session, a route once offered or taken stays,  *)
(* a side keeps the partner whose nonce it has heard, and the reason it    *)
(* has given.                                                              *)
(***************************************************************************)
EXTENDS Connecting, TLAPS

-----------------------------------------------------------------------------
(* A connection by code: the invariant. *)

\* Of a packet of the host: who reads it and, if it selects a route, that this is
\* the one offered in its session, to the reader.
DownTrue ==
    \A m \in toGuests :
        /\ m.to \in Guests /\ m.src \in HostPorts
        /\ m.type = "select" =>
              /\ m.sid \in Sessions /\ m.route \in Routes
              /\ m.route = offered[m.sid] /\ GuestOf(m.route) = m.to

\* Of a packet of a guest: the session it names is its sender's for good, and so
\* is the route it confirms.
UpTrue ==
    \A m \in toHost :
        /\ m.src \in Addresses
        /\ guest[m.src[1]].phase # "start" /\ m.sid = guest[m.src[1]].sid
        /\ m.type = "ack" => m.route.host \in HostPorts
        /\ m.type = "selected" => m.route \in Routes /\ m.route = guest[m.src[1]].route

\* What the host has fixed is what it has offered in the session it is in.
HostTrue ==
    /\ phase = "punching" => code <= Attempts
    /\ phase \in {"punching", "connected", "ended"} => sid \in admitted /\ selected = offered[sid]
    /\ \A s \in Sessions : offered[s] # None => s \in admitted

\* The addresses that have answered are of the guest in the host's session.
PathsTrue ==
    phase = "punching" =>
        \A a \in Addresses : paths[a] # None => guest[a[1]].phase # "start" /\ guest[a[1]].sid = sid

\* What a guest has taken was offered in its session.
GuestTrue ==
    \A g \in Guests :
        /\ guest[g].phase \notin {"connected", "gone"} => guest[g].route = None
        /\ guest[g].phase = "connected" => guest[g].route # None
        /\ guest[g].route # None =>
              guest[g].sid \in Sessions /\ guest[g].route = offered[guest[g].sid]

\* Who has been answered is not admitted again.
Answered == \A m \in answers : m.sid \in admitted

CodeInv ==
    /\ TypeOK /\ DownTrue /\ UpTrue /\ HostTrue /\ PathsTrue /\ GuestTrue
    /\ Answered /\ AcceptedNotRefused

LEMMA Numbered ==
    /\ \A g \in Guests : Relayed(g) \in Sessions
    /\ \A n \in 1 .. Attempts + 1 : Coded(n) \in Sessions
BY DEF Sessions

LEMMA CodeInit == Init => CodeInv
<1> SUFFICES ASSUME Init PROVE CodeInv
    OBVIOUS
<1> USE DEF Init
<1>1. TypeOK
    BY ConstantsAssumption DEF TypeOK
<1>2. DownTrue /\ UpTrue
    BY DEF DownTrue, UpTrue
<1>3. HostTrue /\ PathsTrue
    BY DEF HostTrue, PathsTrue
<1>4. GuestTrue /\ Answered /\ AcceptedNotRefused
    BY DEF GuestTrue, Answered, AcceptedNotRefused
<1> QED
    BY <1>1, <1>2, <1>3, <1>4 DEF CodeInv

\* A search begins.
LEMMA BegunTypes ==
    ASSUME TypeOK, NEW s \in Sessions, NEW g \in Guests, Begin(s, g),
           answers' \subseteq [sid : Sessions, accept : BOOLEAN]
    PROVE  TypeOK'
<1>1. remote' \subseteq Addresses
    BY ConstantsAssumption DEF Begin, Addresses
<1>2. paths' \in [Addresses -> HostPorts \cup {None}]
    BY DEF Begin
<1>3. admitted' \subseteq Sessions
    BY DEF Begin, TypeOK
<1> QED
    BY <1>1, <1>2, <1>3 DEF Begin, TypeOK

LEMMA CodeTypes == ASSUME CodeInv, [Next]_vars PROVE TypeOK'
<1> USE DEF CodeInv
<1>0. TypeOK
    OBVIOUS
<1>1. CASE UNCHANGED vars
    BY <1>1 DEF vars, hostVars, TypeOK
<1>2. ASSUME NEW g \in Guests, HostPastes(g) PROVE TypeOK'
    <2>1. Coded(code) \in Sessions
        BY Numbered DEF TypeOK
    <2> QED
        BY <1>2, <2>1, BegunTypes DEF HostPastes, TypeOK
<1>3. ASSUME NEW g \in Guests, HostAccepts(g) PROVE TypeOK'
    <2>1. Relayed(g) \in Sessions
        BY Numbered
    <2>2. [sid |-> Relayed(g), accept |-> TRUE] \in [sid : Sessions, accept : BOOLEAN]
        BY <2>1
    <2> QED
        BY <1>3, <2>1, <2>2, BegunTypes DEF HostAccepts, TypeOK
<1>4. ASSUME NEW g \in Guests, HostRefuses(g) PROVE TypeOK'
    <2>1. Relayed(g) \in Sessions
        BY Numbered
    <2>2. [sid |-> Relayed(g), accept |-> FALSE] \in [sid : Sessions, accept : BOOLEAN]
        BY <2>1
    <2>3. admitted' \subseteq Sessions /\ answers' \subseteq [sid : Sessions, accept : BOOLEAN]
        BY <1>4, <2>1, <2>2 DEF HostRefuses, TypeOK
    <2> QED
        BY <1>4, <2>3 DEF HostRefuses, TypeOK
<1>5. ASSUME NEW a \in Addresses, HostPunches(a) PROVE TypeOK'
    BY <1>5 DEF HostPunches, hostVars, TypeOK
<1>6. ASSUME NEW a \in Addresses, HostFixes(a) PROVE TypeOK'
    <2>1. [host |-> paths[a], guest |-> a] \in Routes
        BY <1>6 DEF HostFixes, TypeOK, Routes
    <2> QED
        BY <1>6, <2>1 DEF HostFixes, TypeOK
<1>7. ASSUME NEW m \in toHost, HostNotesPath(m) PROVE TypeOK'
    BY <1>7 DEF HostNotesPath, UpTrue, TypeOK
<1>8. ASSUME NEW m \in toHost, HostPairs(m) PROVE TypeOK'
    BY <1>8 DEF HostPairs, TypeOK
<1>9. CASE HostSelects
    BY <1>9 DEF HostSelects, hostVars, TypeOK
<1>10. CASE HostTimesOut
    <2>1. code + 1 \in 1 .. Attempts + 1
        BY <1>10, ConstantsAssumption DEF HostTimesOut, HostTrue, TypeOK
    <2> QED
        BY <1>10, <2>1 DEF HostTimesOut, TypeOK
<1>11. CASE HostCloses
    BY <1>11 DEF HostCloses, TypeOK
<1>12. ASSUME NEW g \in Guests, GuestAsks(g) PROVE TypeOK'
    BY <1>12, Numbered DEF GuestAsks, hostVars, TypeOK
<1>13. ASSUME NEW g \in Guests, GuestTurnsAway(g) \/ GuestStarts(g) \/ GuestGivesUp(g) \/ GuestIsCutOff(g)
       PROVE  TypeOK'
    BY <1>13 DEF GuestTurnsAway, GuestStarts, GuestGivesUp, GuestIsCutOff, hostVars, TypeOK
<1>14. ASSUME NEW g \in Guests, GuestCopies(g) PROVE TypeOK'
    <2>1. Coded(code) \in Sessions
        BY Numbered DEF TypeOK
    <2> QED
        BY <1>14, <2>1 DEF GuestCopies, hostVars, TypeOK
<1>15. ASSUME NEW g \in Guests, GuestReadsAnswer(g) PROVE TypeOK'
    BY <1>15 DEF GuestReadsAnswer, hostVars, TypeOK
<1>16. ASSUME NEW g \in Guests, NEW m \in toGuests, GuestAcks(g, m) \/ GuestTakesAgain(g, m) PROVE TypeOK'
    BY <1>16 DEF GuestAcks, GuestTakesAgain, hostVars, TypeOK
<1>17. ASSUME NEW g \in Guests, NEW m \in toGuests, GuestTakes(g, m) PROVE TypeOK'
    <2>1. [host |-> m.src, guest |-> m.route.guest] \in Routes
        BY <1>17 DEF GuestTakes, DownTrue, Routes
    <2> DEFINE r == [host |-> m.src, guest |-> m.route.guest]
    <2>2. guest' = [guest EXCEPT ![g].phase = "connected", ![g].route = r]
        BY <1>17 DEF GuestTakes
    <2> HIDE DEF r
    <2>3. guest' \in [Guests -> [phase : {"start", "asking", "copied", "punching", "connected", "gone"},
                                 sid : Sessions \cup {None}, route : Routes \cup {None}]]
        BY <2>1, <2>2 DEF TypeOK, r
    <2> QED
        BY <1>17, <2>3 DEF GuestTakes, hostVars, TypeOK
<1> QED
    BY <1>1, <1>2, <1>3, <1>4, <1>5, <1>6, <1>7, <1>8, <1>9, <1>10, <1>11, <1>12, <1>13, <1>14,
       <1>15, <1>16, <1>17 DEF Next, Host, Guest
-----------------------------------------------------------------------------
(* A connection by code: what stands. *)

LEMMA HostLeavesGuests == Host => UNCHANGED <<nat, guest>>
BY DEF Host, HostPastes, HostAccepts, HostRefuses, HostPunches, HostFixes, HostNotesPath, HostPairs,
       HostSelects, HostTimesOut, HostCloses, Begin, hostVars

LEMMA GuestLeavesHost == \A g : Guest(g) => UNCHANGED <<nat, hostVars>>
BY DEF Guest, GuestAsks, GuestTurnsAway, GuestCopies, GuestReadsAnswer, GuestStarts, GuestAcks,
       GuestTakes, GuestTakesAgain, GuestGivesUp, GuestIsCutOff

\* A guest keeps its session and its route.
LEMMA GuestKeeps ==
    ASSUME CodeInv, [Next]_vars
    PROVE  \A g \in Guests :
               /\ guest[g].phase # "start" =>
                     guest'[g].phase # "start" /\ guest'[g].sid = guest[g].sid
               /\ guest[g].route # None => guest'[g].route = guest[g].route
<1>0. TypeOK /\ GuestTrue
    BY DEF CodeInv
<1>1. CASE UNCHANGED guest
    BY <1>1
<1> SUFFICES ASSUME NEW g \in Guests, Guest(g), NEW k \in Guests
             PROVE  /\ guest[k].phase # "start" =>
                           guest'[k].phase # "start" /\ guest'[k].sid = guest[k].sid
                    /\ guest[k].route # None => guest'[k].route = guest[k].route
    BY <1>1, HostLeavesGuests DEF Next, vars
<1>2. CASE GuestAsks(g)
    BY <1>0, <1>2 DEF GuestAsks, TypeOK
<1>3. CASE GuestCopies(g)
    BY <1>0, <1>3 DEF GuestCopies, TypeOK
<1>4. CASE GuestTurnsAway(g) \/ GuestStarts(g) \/ GuestGivesUp(g) \/ GuestIsCutOff(g)
    BY <1>0, <1>4 DEF GuestTurnsAway, GuestStarts, GuestGivesUp, GuestIsCutOff, TypeOK
<1>5. CASE GuestReadsAnswer(g)
    BY <1>0, <1>5 DEF GuestReadsAnswer, TypeOK
<1>6. ASSUME NEW m \in toGuests, GuestTakes(g, m)
      PROVE  /\ guest[k].phase # "start" =>
                    guest'[k].phase # "start" /\ guest'[k].sid = guest[k].sid
             /\ guest[k].route # None => guest'[k].route = guest[k].route
    BY <1>0, <1>6 DEF GuestTakes, TypeOK, GuestTrue
<1>7. ASSUME NEW m \in toGuests, GuestAcks(g, m) \/ GuestTakesAgain(g, m) PROVE UNCHANGED guest
    BY <1>7 DEF GuestAcks, GuestTakesAgain
<1> QED
    BY <1>1, <1>2, <1>3, <1>4, <1>5, <1>6, <1>7 DEF Guest

\* What has been offered stands.
LEMMA OfferStands ==
    ASSUME CodeInv, [Next]_vars
    PROVE  \A s \in Sessions : offered[s] # None => offered'[s] = offered[s]
<1>1. CASE UNCHANGED offered
    BY <1>1
<1>2. ASSUME NEW a \in Addresses, HostFixes(a)
      PROVE  \A s \in Sessions : offered[s] # None => offered'[s] = offered[s]
    <2>1. offered[sid] = None /\ offered \in [Sessions -> Routes \cup {None}]
        BY <1>2 DEF HostFixes, NotFixed, CodeInv, HostTrue, TypeOK
    <2> QED
        BY <1>2, <2>1 DEF HostFixes
<1> QED
    BY <1>1, <1>2, GuestLeavesHost
    DEF Next, vars, hostVars, Host, HostPastes, HostAccepts, HostRefuses, HostPunches, HostNotesPath,
        HostPairs, HostSelects, HostTimesOut, HostCloses, Begin

\* A host without a route has offered none in its session; else it is the one.
LEMMA RouteOffered ==
    ASSUME CodeInv, phase = "punching"
    PROVE  sid \in Sessions /\ selected = offered[sid]
BY DEF CodeInv, HostTrue, TypeOK

-----------------------------------------------------------------------------
(* A connection by code: the steps. *)

LEMMA DownStep == ASSUME CodeInv, [Next]_vars PROVE DownTrue'
<1>0. TypeOK /\ DownTrue
    BY DEF CodeInv
<1> DEFINE Good(m) == /\ m.to \in Guests /\ m.src \in HostPorts
                      /\ m.type = "select" =>
                            /\ m.sid \in Sessions /\ m.route \in Routes
                            /\ m.route = offered'[m.sid] /\ GuestOf(m.route) = m.to
<1>1. \A m \in toGuests : Good(m)
    <2>1. \A m \in toGuests : m.type = "select" => offered[m.sid] # None /\ m.sid \in Sessions
        BY <1>0, NoneAssumption DEF DownTrue
    <2> QED
        BY <1>0, <2>1, OfferStands DEF DownTrue
<1>2. ASSUME NEW a \in Addresses, HostPunches(a) PROVE \A m \in toGuests' : Good(m)
    <2>1. \A m \in Down("punch", a, None) : m.to \in Guests /\ m.src \in HostPorts /\ m.type # "select"
        BY <1>0, ConstantsAssumption DEF Down, Addresses, TypeOK
    <2> QED
        BY <1>1, <1>2, <2>1 DEF HostPunches
<1>3. ASSUME HostSelects PROVE \A m \in toGuests' : Good(m)
    <2>1. /\ selected \in Routes /\ sid \in Sessions /\ selected = offered[sid] /\ UNCHANGED offered
          /\ selected.guest \in Addresses
        BY <1>0, <1>3, RouteOffered DEF HostSelects, hostVars, TypeOK, Routes
    <2>2. \A m \in Down("select", selected.guest, selected) :
              /\ m.to = selected.guest[1] /\ m.src \in HostPorts
              /\ m.sid = sid /\ m.route = selected
        BY <1>0, <2>1, ConstantsAssumption DEF Down, Addresses, TypeOK
    <2>3. \A m \in Down("select", selected.guest, selected) : Good(m)
        BY <2>1, <2>2 DEF GuestOf, Addresses
    <2> QED
        BY <1>1, <1>3, <2>3 DEF HostSelects
<1>4. ASSUME UNCHANGED toGuests PROVE \A m \in toGuests' : Good(m)
    BY <1>1, <1>4
<1>5. \A m \in toGuests' : Good(m)
    <2> HIDE DEF Good
    <2>1. \A g \in Guests : Guest(g) => UNCHANGED toGuests
        BY DEF Guest, GuestAsks, GuestTurnsAway, GuestCopies, GuestReadsAnswer, GuestStarts, GuestAcks,
               GuestTakes, GuestTakesAgain, GuestGivesUp, GuestIsCutOff
    <2>2. CASE Host
        BY <1>2, <1>3, <1>4, <2>2
        DEF Host, HostPastes, HostAccepts, HostRefuses, HostFixes, HostNotesPath, HostPairs,
            HostTimesOut, HostCloses, Begin
    <2> QED
        BY <1>4, <2>1, <2>2 DEF Next, vars
<1> QED
    BY <1>5 DEF DownTrue

LEMMA UpStep == ASSUME CodeInv, [Next]_vars PROVE UpTrue'
<1>0. TypeOK /\ UpTrue /\ DownTrue /\ GuestTrue
    BY DEF CodeInv
<1> DEFINE Good(m) ==
        /\ m.src \in Addresses
        /\ guest'[m.src[1]].phase # "start" /\ m.sid = guest'[m.src[1]].sid
        /\ m.type = "ack" => m.route.host \in HostPorts
        /\ m.type = "selected" => m.route \in Routes /\ m.route = guest'[m.src[1]].route
<1>1. \A m \in toHost : Good(m)
    <2> SUFFICES ASSUME NEW m \in toHost PROVE Good(m)
        OBVIOUS
    <2>1. m.src \in Addresses /\ m.src[1] \in Guests
        BY <1>0 DEF UpTrue, Addresses
    <2>2. m.type = "selected" => guest[m.src[1]].route # None
        BY <1>0, NoneAssumption DEF UpTrue
    <2> QED
        BY <1>0, <2>1, <2>2, GuestKeeps DEF UpTrue
<1>2. ASSUME NEW g \in Guests, NEW h \in HostPorts, NEW type, NEW route,
             guest[g].phase # "start", guest'[g].phase # "start", guest'[g].sid = guest[g].sid,
             type = "ack" => route.host \in HostPorts,
             type = "selected" => route \in Routes /\ route = guest'[g].route,
             NEW m \in Up(type, g, h, route)
      PROVE  Good(m)
    BY <1>0, <1>2, ConstantsAssumption DEF Up, TypeOK, Addresses
<1>3. ASSUME NEW g \in Guests, NEW n \in toGuests, GuestAcks(g, n) PROVE \A m \in toHost' : Good(m)
    <2>1. n.src \in HostPorts /\ guest[g].phase # "start" /\ guest' = guest
        BY <1>0, <1>3 DEF GuestAcks, DownTrue
    <2>2. [host |-> n.src, guest |-> None].host \in HostPorts
        BY <2>1
    <2>3. \A m \in Up("ack", g, n.src, [host |-> n.src, guest |-> None]) : Good(m)
        <3> HIDE DEF Good
        <3> QED
            BY <1>2, <2>1, <2>2
    <2> QED
        BY <1>1, <1>3, <2>3 DEF GuestAcks
<1>4. ASSUME NEW g \in Guests, NEW n \in toGuests, GuestTakes(g, n) PROVE \A m \in toHost' : Good(m)
    <2>1. n.src \in HostPorts /\ n.route \in Routes /\ n.route.host = n.src
        BY <1>0, <1>4 DEF GuestTakes, CameThatWay, DownTrue
    <2>2. [host |-> n.src, guest |-> n.route.guest] = n.route
        BY <2>1 DEF Routes
    <2>3. /\ guest[g].phase # "start" /\ guest'[g].phase # "start" /\ guest'[g].sid = guest[g].sid
          /\ guest'[g].route = n.route
        BY <1>0, <1>4, <2>2 DEF GuestTakes, TypeOK
    <2>4. \A m \in Up("selected", g, n.src, n.route) : Good(m)
        <3> HIDE DEF Good
        <3> QED
            BY <1>2, <2>1, <2>3
    <2> QED
        BY <1>1, <1>4, <2>4 DEF GuestTakes
<1>5. ASSUME NEW g \in Guests, NEW n \in toGuests, GuestTakesAgain(g, n) PROVE \A m \in toHost' : Good(m)
    <2>1. n.src \in HostPorts /\ n.route \in Routes /\ guest' = guest /\ guest[g].phase # "start"
        BY <1>0, <1>5 DEF GuestTakesAgain, Answering, DownTrue
    <2>2. n.route = guest[g].route
        <3>1. guest[g].route # None /\ n.route = offered[n.sid] /\ n.sid = guest[g].sid
            BY <1>0, <1>5 DEF GuestTakesAgain, Answering, DownTrue, CodeInv, GuestTrue
        <3> QED
            BY <1>0, <3>1 DEF GuestTrue
    <2>3. \A m \in Up("selected", g, n.src, n.route) : Good(m)
        <3> HIDE DEF Good
        <3> QED
            BY <1>2, <2>1, <2>2
    <2> QED
        BY <1>1, <1>5, <2>3 DEF GuestTakesAgain
<1>6. ASSUME UNCHANGED toHost PROVE \A m \in toHost' : Good(m)
    BY <1>1, <1>6
<1>7. \A m \in toHost' : Good(m)
    <2> HIDE DEF Good
    <2>1. Host => UNCHANGED toHost
        BY DEF Host, HostPastes, HostAccepts, HostRefuses, HostPunches, HostFixes, HostNotesPath,
               HostPairs, HostSelects, HostTimesOut, HostCloses, Begin
    <2>2. ASSUME NEW g \in Guests, Guest(g) PROVE \A m \in toHost' : Good(m)
        BY <1>3, <1>4, <1>5, <1>6, <2>2
        DEF Guest, GuestAsks, GuestTurnsAway, GuestCopies, GuestReadsAnswer, GuestStarts,
            GuestGivesUp, GuestIsCutOff
    <2> QED
        BY <1>6, <2>1, <2>2 DEF Next, vars
<1> QED
    BY <1>7 DEF UpTrue
LEMMA HostStep == ASSUME CodeInv, [Next]_vars PROVE HostTrue'
<1>0. TypeOK /\ HostTrue
    BY DEF CodeInv
<1>1. ASSUME UNCHANGED hostVars PROVE HostTrue'
    BY <1>0, <1>1 DEF HostTrue, hostVars
<1>2. ASSUME NEW s \in Sessions, NEW g \in Guests, Begin(s, g) PROVE HostTrue'
    <2>1. offered[s] = None
        BY <1>0, <1>2 DEF Begin, Admits, HostTrue
    <2> QED
        BY <1>0, <1>2, <2>1 DEF Begin, HostTrue
<1>3. ASSUME NEW g \in Guests, HostPastes(g) PROVE HostTrue'
    <2>1. Coded(code) \in Sessions
        BY <1>0, Numbered DEF TypeOK
    <2> QED
        BY <1>2, <1>3, <2>1 DEF HostPastes
<1>4. ASSUME NEW g \in Guests, HostAccepts(g) PROVE HostTrue'
    BY <1>2, <1>4, Numbered DEF HostAccepts
<1>5. ASSUME NEW g \in Guests, HostRefuses(g) PROVE HostTrue'
    BY <1>0, <1>5 DEF HostRefuses, HostTrue
<1>6. ASSUME NEW a \in Addresses, HostFixes(a) PROVE HostTrue'
    BY <1>0, <1>6 DEF HostFixes, HostTrue, TypeOK
<1>7. ASSUME NEW m \in toHost, HostNotesPath(m) \/ HostPairs(m) PROVE HostTrue'
    BY <1>0, <1>7 DEF HostNotesPath, HostPairs, OfThisSession, HostTrue
<1>8. CASE HostTimesOut \/ HostCloses
    BY <1>0, <1>8 DEF HostTimesOut, HostCloses, HostTrue
<1> QED
    BY <1>1, <1>3, <1>4, <1>5, <1>6, <1>7, <1>8, GuestLeavesHost
    DEF Next, vars, Host, HostPunches, HostSelects

LEMMA PathsStep == ASSUME CodeInv, [Next]_vars PROVE PathsTrue'
<1>0. TypeOK /\ PathsTrue /\ UpTrue
    BY DEF CodeInv
<1>1. \A a \in Addresses : a[1] \in Guests
    BY DEF Addresses
<1>2. ASSUME UNCHANGED <<phase, paths, sid>> PROVE PathsTrue'
    BY <1>0, <1>1, <1>2, GuestKeeps DEF PathsTrue
<1>3. ASSUME phase' # "punching" PROVE PathsTrue'
    BY <1>3 DEF PathsTrue
<1>4. ASSUME NEW s, NEW g, Begin(s, g) PROVE PathsTrue'
    BY <1>4 DEF Begin, PathsTrue
<1>5. ASSUME NEW m \in toHost, HostNotesPath(m) PROVE PathsTrue'
    BY <1>0, <1>1, <1>5 DEF HostNotesPath, OfThisSession, PathsTrue, UpTrue, TypeOK
<1>6. CASE Host
    BY <1>2, <1>3, <1>4, <1>5, <1>6
    DEF Host, HostPastes, HostAccepts, HostRefuses, HostPunches, HostFixes, HostPairs,
        HostSelects, HostTimesOut, HostCloses, hostVars
<1> QED
    BY <1>2, <1>6, GuestLeavesHost DEF Next, vars, hostVars

LEMMA GuestStep == ASSUME CodeInv, [Next]_vars PROVE GuestTrue'
<1>0. TypeOK /\ GuestTrue /\ DownTrue
    BY DEF CodeInv
<1> DEFINE Good(k) ==
        /\ guest'[k].phase \notin {"connected", "gone"} => guest'[k].route = None
        /\ guest'[k].phase = "connected" => guest'[k].route # None
        /\ guest'[k].route # None =>
              guest'[k].sid \in Sessions /\ guest'[k].route = offered'[guest'[k].sid]
<1>1. ASSUME NEW k \in Guests, guest'[k] = guest[k] PROVE Good(k)
    <2>1. guest[k].route # None => guest[k].sid \in Sessions /\ offered[guest[k].sid] # None
        BY <1>0 DEF GuestTrue
    <2> QED
        BY <1>0, <1>1, <2>1, OfferStands DEF GuestTrue
<1>2. ASSUME NEW g \in Guests, Guest(g), NEW k \in Guests, k # g PROVE guest'[k] = guest[k]
    BY <1>0, <1>2
    DEF Guest, GuestAsks, GuestTurnsAway, GuestCopies, GuestReadsAnswer, GuestStarts, GuestAcks,
        GuestTakes, GuestTakesAgain, GuestGivesUp, GuestIsCutOff, TypeOK
<1>3. ASSUME NEW g \in Guests, Guest(g), guest'[g] # guest[g] PROVE Good(g)
    <2>1. CASE GuestAsks(g) \/ GuestCopies(g) \/ GuestTurnsAway(g) \/ GuestStarts(g) \/ GuestReadsAnswer(g)
        <3>1. guest[g].route = None /\ guest'[g].route = None /\ guest'[g].phase # "connected"
            BY <1>0, <2>1
            DEF GuestAsks, GuestCopies, GuestTurnsAway, GuestStarts, GuestReadsAnswer, GuestTrue, TypeOK
        <3> QED
            BY <3>1
    <2>2. CASE GuestGivesUp(g) \/ GuestIsCutOff(g)
        <3>1. /\ guest'[g].phase = "gone" /\ guest'[g].route = guest[g].route /\ guest'[g].sid = guest[g].sid
              /\ UNCHANGED offered
            BY <1>0, <2>2 DEF GuestGivesUp, GuestIsCutOff, TypeOK, hostVars
        <3> QED
            BY <1>0, <3>1 DEF GuestTrue
    <2>3. ASSUME NEW m \in toGuests, GuestTakes(g, m) PROVE Good(g)
        <3>1. /\ m.sid \in Sessions /\ m.route \in Routes /\ m.route = offered[m.sid]
              /\ m.route.host = m.src /\ m.sid = guest[g].sid /\ UNCHANGED offered
            BY <1>0, <2>3 DEF GuestTakes, CameThatWay, DownTrue, hostVars
        <3>2. [host |-> m.src, guest |-> m.route.guest] = m.route
            BY <3>1 DEF Routes
        <3>3. guest'[g].phase = "connected" /\ guest'[g].sid = guest[g].sid /\ guest'[g].route = m.route
            BY <1>0, <2>3, <3>2 DEF GuestTakes, TypeOK
        <3> QED
            BY <3>1, <3>3, NoneAssumption
    <2> QED
        BY <1>3, <2>1, <2>2, <2>3 DEF Guest, GuestAcks, GuestTakesAgain
<1>4. \A k \in Guests : Good(k)
    <2> HIDE DEF Good
    <2> QED
        BY <1>1, <1>2, <1>3, HostLeavesGuests DEF Next, vars
<1> QED
    BY <1>4 DEF GuestTrue

\* Every session is answered once.
LEMMA AnswersStep == ASSUME CodeInv, [Next]_vars PROVE Answered' /\ AcceptedNotRefused'
<1>0. Answered /\ AcceptedNotRefused
    BY DEF CodeInv
<1>1. ASSUME UNCHANGED answers, admitted \subseteq admitted' PROVE Answered' /\ AcceptedNotRefused'
    BY <1>0, <1>1 DEF Answered, AcceptedNotRefused
<1>2. ASSUME NEW s, NEW b, s \notin admitted, admitted' = admitted \cup {s},
             answers' = answers \cup {[sid |-> s, accept |-> b]}
      PROVE  Answered' /\ AcceptedNotRefused'
    BY <1>0, <1>2 DEF Answered, AcceptedNotRefused
<1>3. ASSUME NEW g \in Guests, HostPastes(g) PROVE Answered' /\ AcceptedNotRefused'
    BY <1>1, <1>3 DEF HostPastes, Begin
<1>4. ASSUME NEW g \in Guests, HostAccepts(g) \/ HostRefuses(g) PROVE Answered' /\ AcceptedNotRefused'
    BY <1>2, <1>4 DEF HostAccepts, Begin, HostRefuses, Refuses, Admits
<1>5. CASE Host
    BY <1>1, <1>3, <1>4, <1>5
    DEF Host, HostPunches, HostFixes, HostNotesPath, HostPairs, HostSelects, HostTimesOut, HostCloses, hostVars
<1>6. ASSUME NEW g \in Guests, Guest(g) PROVE UNCHANGED <<answers, admitted>>
    BY <1>6
    DEF Guest, GuestAsks, GuestTurnsAway, GuestCopies, GuestReadsAnswer, GuestStarts, GuestAcks,
        GuestTakes, GuestTakesAgain, GuestGivesUp, GuestIsCutOff, hostVars
<1> QED
    BY <1>1, <1>5, <1>6 DEF Next, vars, hostVars

LEMMA CodeStep == CodeInv /\ [Next]_vars => CodeInv'
BY CodeTypes, DownStep, UpStep, HostStep, PathsStep, GuestStep, AnswersStep DEF CodeInv

\* What is under way between host and guests agrees with what they have fixed,
\* whatever was sent before and arrives late.
THEOREM CodeInvariant == Spec => []CodeInv
BY CodeInit, CodeStep, PTL DEF Spec

\* The search for a route by code keeps to its types, for any addresses and routers.
THEOREM CodeTypesHold == Spec => []TypeOK
<1>1. CodeInv => TypeOK
    BY DEF CodeInv
<1> QED
    BY <1>1, CodeInvariant, PTL

\* No guest that is accepted is also told that the host is busy, for any number of
\* guests and repetitions (Admission::Admit).
THEOREM AcceptedIsNotRefused == Spec => []AcceptedNotRefused
<1>1. CodeInv => AcceptedNotRefused
    BY DEF CodeInv
<1> QED
    BY <1>1, CodeInvariant, PTL

\* What the host notes of answering addresses is of the guest it is in session
\* with, however late answers of earlier sessions come (Session::Punch).
THEOREM PathsAreOfTheGuest == Spec => []PathsLeadToGuest
<1>1. CodeInv => PathsLeadToGuest
    BY DEF CodeInv, PathsTrue, PathsLeadToGuest
<1> QED
    BY <1>1, CodeInvariant, PTL

-----------------------------------------------------------------------------
(* A connection by code does what Pairing promises. *)

\* The pair the host goes on with.
Paired == IF phase \in {"connected", "ended"} THEN <<sid, selected>> ELSE None

LEMMA TakenStep ==
    ASSUME CodeInv, NEW g \in Guests, Guest(g),
           \A m \in toGuests : ~GuestTakes(g, m)
    PROVE  Taken' = Taken
<1>0. TypeOK /\ GuestTrue
    BY DEF CodeInv
<1>1. /\ \A k \in Guests : guest'[k].route = guest[k].route
      /\ \A k \in Guests : guest[k].route # None => guest'[k].sid = guest[k].sid
    <2>1. CASE GuestAsks(g) \/ GuestCopies(g)
        <3>1. guest[g].route = None
            BY <1>0, <2>1 DEF GuestAsks, GuestCopies, GuestTrue
        <3>2. guest'[g].route = None
            BY <1>0, <2>1, <3>1 DEF GuestAsks, GuestCopies, TypeOK
        <3>3. \A k \in Guests \ {g} : guest'[k] = guest[k]
            BY <1>0, <2>1 DEF GuestAsks, GuestCopies, TypeOK
        <3> QED
            BY <3>1, <3>2, <3>3
    <2>2. CASE GuestTurnsAway(g) \/ GuestStarts(g) \/ GuestReadsAnswer(g) \/ GuestGivesUp(g) \/ GuestIsCutOff(g)
        BY <1>0, <2>2
        DEF GuestTurnsAway, GuestStarts, GuestReadsAnswer, GuestGivesUp, GuestIsCutOff, TypeOK
    <2>3. ASSUME NEW m \in toGuests, GuestAcks(g, m) \/ GuestTakesAgain(g, m) PROVE UNCHANGED guest
        BY <2>3 DEF GuestAcks, GuestTakesAgain
    <2> QED
        BY <2>1, <2>2, <2>3 DEF Guest
<1> QED
    BY <1>1 DEF Taken

LEMMA Taking ==
    ASSUME CodeInv, NEW g \in Guests, NEW m \in toGuests, GuestTakes(g, m)
    PROVE  Promise!Take(g, m.sid) /\ m.sid \in Sessions
<1>0. TypeOK /\ GuestTrue /\ DownTrue
    BY DEF CodeInv
<1>1. /\ m.sid \in Sessions /\ m.route \in Routes /\ m.route = offered[m.sid] /\ GuestOf(m.route) = g
      /\ m.route.host = m.src /\ m.sid = guest[g].sid /\ UNCHANGED hostVars
    BY <1>0 DEF GuestTakes, CameThatWay, DownTrue
<1>2. [host |-> m.src, guest |-> m.route.guest] = m.route
    BY <1>1 DEF Routes
<1>3. /\ guest[g].route = None
      /\ guest'[g].sid = m.sid /\ guest'[g].route = m.route
      /\ \A k \in Guests \ {g} : guest'[k] = guest[k]
    BY <1>0, <1>1, <1>2 DEF GuestTakes, GuestTrue, TypeOK
<1>4. offered[m.sid] # None
    BY <1>1, NoneAssumption
<1>5. Taken[g] = None /\ Taken' = [Taken EXCEPT ![g] = <<m.sid, offered[m.sid]>>]
    BY <1>1, <1>3, <1>4 DEF Taken
<1>6. UNCHANGED <<offered, phase, sid, selected>>
    BY <1>1 DEF hostVars
<1> QED
    BY <1>1, <1>4, <1>5, <1>6 DEF Promise!Take

LEMMA Offering ==
    ASSUME CodeInv, NEW a \in Addresses, HostFixes(a)
    PROVE  Promise!Offer(sid) /\ sid \in Sessions
<1>0. TypeOK /\ phase = "punching" /\ selected = None
    BY DEF CodeInv, HostFixes, NotFixed
<1>1. sid \in Sessions /\ offered[sid] = None /\ offered \in [Sessions -> Routes \cup {None}]
    BY <1>0, RouteOffered DEF TypeOK
<1> DEFINE r == [host |-> paths[a], guest |-> a]
<1>2. r \in Routes
    BY <1>0 DEF HostFixes, TypeOK, Routes
<1>3. /\ offered' = [offered EXCEPT ![sid] = r] /\ UNCHANGED <<phase, sid, guest>>
    BY DEF HostFixes
<1> HIDE DEF r
<1>4. offered'[sid] \in Routes /\ offered' = [offered EXCEPT ![sid] = offered'[sid]]
    BY <1>1, <1>2, <1>3
<1>5. Taken' = Taken
    BY <1>3 DEF Taken
<1> QED
    BY <1>0, <1>1, <1>3, <1>4, <1>5 DEF Promise!Offer

LEMMA Joining ==
    ASSUME CodeInv, NEW m \in toHost, HostPairs(m)
    PROVE  Promise!Pair(sid) /\ sid \in Sessions
<1>0. TypeOK /\ UpTrue /\ GuestTrue /\ phase = "punching" /\ m.sid = sid /\ m.type = "selected"
    BY DEF CodeInv, HostPairs, OfThisSession
<1>1. /\ sid \in Sessions /\ selected = offered[sid] /\ selected # None
      /\ m.src = selected.guest /\ m.route = selected
    BY <1>0, RouteOffered DEF HostPairs
<1>2. /\ GuestOf(selected) \in Guests
      /\ guest[GuestOf(selected)].sid = sid /\ guest[GuestOf(selected)].route = selected
    BY <1>0, <1>1 DEF UpTrue, GuestOf, Addresses
<1>3. Taken[GuestOf(selected)] = <<sid, selected>>
    BY <1>1, <1>2 DEF Taken
<1>4. phase' = "connected" /\ UNCHANGED <<sid, selected, offered, guest>>
    BY DEF HostPairs
<1>5. Taken' = Taken
    BY <1>4 DEF Taken
<1> QED
    BY <1>0, <1>1, <1>3, <1>4, <1>5 DEF Promise!Pair

\* The other steps of the host leave offer, guests and pair alone.
LEMMA HostStutters ==
    ASSUME CodeInv, Host, \A a \in Addresses : ~HostFixes(a), \A m \in toHost : ~HostPairs(m)
    PROVE  UNCHANGED <<offered, Taken, Paired>>
<1>1. UNCHANGED guest
    BY HostLeavesGuests
<1>2. Taken' = Taken
    BY <1>1 DEF Taken
<1>3. ASSUME NEW s, NEW g, Begin(s, g) PROVE UNCHANGED <<offered, Paired>>
    BY <1>3 DEF Begin, Paired
<1>4. CASE HostTimesOut \/ HostCloses
    BY <1>2, <1>4 DEF HostTimesOut, HostCloses, Paired
<1>5. ASSUME NEW g \in Guests, HostPastes(g) \/ HostAccepts(g) \/ HostRefuses(g)
      PROVE  UNCHANGED <<offered, Paired>>
    BY <1>3, <1>5 DEF HostPastes, HostAccepts, HostRefuses, Paired
<1>6. ASSUME NEW m \in toHost, HostNotesPath(m) PROVE UNCHANGED <<offered, Paired>>
    BY <1>6 DEF HostNotesPath, Paired
<1>7. ASSUME UNCHANGED hostVars PROVE UNCHANGED <<offered, Paired>>
    BY <1>7 DEF hostVars, Paired
<1> QED
    BY <1>2, <1>4, <1>5, <1>6, <1>7 DEF Host, HostPunches, HostSelects

LEMMA PairingStep ==
    ASSUME CodeInv, [Next]_vars
    PROVE  [Promise!Next]_<<offered, Taken, Paired>>
<1>1. CASE UNCHANGED vars
    BY <1>1 DEF vars, hostVars, Taken, Paired
<1>2. ASSUME NEW g \in Guests, Guest(g) PROVE [Promise!Next]_<<offered, Taken, Paired>>
    <2>1. CASE \E m \in toGuests : GuestTakes(g, m)
        BY <2>1, Taking DEF Promise!Next
    <2>2. CASE \A m \in toGuests : ~GuestTakes(g, m)
        <3>1. UNCHANGED <<offered, phase, sid, selected>>
            BY <1>2, GuestLeavesHost DEF hostVars
        <3> QED
            BY <1>2, <2>2, <3>1, TakenStep DEF Paired
    <2> QED
        BY <2>1, <2>2
<1>3. CASE Host
    BY <1>3, Offering, Joining, HostStutters DEF Promise!Next
<1> QED
    BY <1>1, <1>2, <1>3 DEF Next

\* A search by code offers one route at most in a session, guests take what is
\* offered for good, and the host goes on with what its guest has taken: it
\* implements Pairing, for any routers and any order of arrival.
THEOREM PairsAsPromised == Spec => ImplementsPairing
<1>1. Init => Promise!Init
    BY DEF Init, Promise!Init, Taken
<1>2. CodeInv /\ [Next]_vars => [Promise!Next]_<<offered, Taken, Paired>>
    BY PairingStep
<1> QED
    BY <1>1, <1>2, CodeInvariant, PTL DEF Spec, ImplementsPairing, Promise!Spec, Paired
-----------------------------------------------------------------------------
(* A connection by hash. *)

Across(s) == IF s = Hosting THEN Joiners ELSE {Hosting}

\* Whoever negotiates does so with somebody on the other side.
PartnersTrue ==
    /\ net \in Nets
    /\ stage \in [Parties -> {"routes", "talk", "game", "over"}]
    /\ talk \in [Parties -> [with : {NoRoute} \cup Parties \X Families, heard : Parties \cup {Nobody},
                             echoed : BOOLEAN, replied : BOOLEAN]]
    /\ \A s \in Parties :
          /\ stage[s] = "routes" => talk[s].with = NoRoute /\ talk[s].heard = Nobody /\ ~talk[s].echoed
          /\ stage[s] \in {"talk", "game"} => talk[s].with \in Across(s) \X Families
          /\ stage[s] = "game" => talk[s].echoed

\* Probes go to the sender's partner over the sender's route, and say whom the sender
\* has heard; only a joiner still looking for a route probes anybody else, as the
\* older programs do, and then it has heard nobody.
ProbesTrue ==
    \A p \in packets :
        /\ p.from \in Parties /\ p.to \in Across(p.from) /\ p.family \in Families
        /\ p.type \in {"probe", "last"} =>
              \/ p.from \in Joiners /\ p.echo = Nobody
              \/ talk[p.from].with = <<p.to, p.family>> /\ p.echo \in {Nobody, talk[p.from].heard}

\* Who has heard a nonce has it from its partner.  A joiner has it from a host that
\* has chosen this joiner.
HeardTrue ==
    \A s \in Parties : talk[s].heard # Nobody =>
        /\ talk[s].with \in Across(s) \X Families /\ talk[s].with[1] = talk[s].heard
        /\ s \in Joiners => talk[Hosting].with \in Joiners \X Families /\ talk[Hosting].with[1] = s

\* Who has heard its own nonce has it from a partner on the same route.
EchoesTrue ==
    \A s \in Parties : talk[s].echoed =>
        /\ talk[s].heard # Nobody
        /\ talk[talk[s].heard].with = <<s, talk[s].with[2]>> /\ talk[talk[s].heard].heard = s

HashInv == PartnersTrue /\ ProbesTrue /\ HeardTrue /\ EchoesTrue

LEMMA HashInit == StartupInit => HashInv
<1> SUFFICES ASSUME StartupInit PROVE HashInv
    OBVIOUS
<1>1. PartnersTrue
    BY DEF StartupInit, PartnersTrue
<1>2. \A s \in Parties : talk[s].heard = Nobody /\ ~talk[s].echoed
    BY DEF StartupInit
<1>3. ProbesTrue /\ HeardTrue /\ EchoesTrue
    BY <1>2 DEF StartupInit, ProbesTrue, HeardTrue, EchoesTrue
<1> QED
    BY <1>1, <1>3 DEF HashInv

\* The two sides are apart, and whoever is across is a party.
LEMMA TwoBanks ==
    /\ \A s \in Parties : Across(s) \subseteq Parties /\ s \notin Across(s)
    /\ \A s \in Parties : \A o \in Across(s) : s \in Across(o)
    /\ \A s \in Joiners : Across(s) = {Hosting}
    /\ Across(Hosting) = Joiners /\ Hosting \notin Joiners /\ Nobody \notin Parties
BY StartupAssumption DEF Across, Parties

LEMMA WaysAcross ==
    ASSUME net \in Nets, NEW s \in Parties, NEW c \in Ways(s)
    PROVE  c \in Across(s) \X Families
BY StartupAssumption DEF Ways, Across, Parties

\* A packet is sent and nothing else of account happens.
LEMMA PacketSent ==
    ASSUME HashInv, NEW p,
           p.from \in Parties, p.to \in Across(p.from), p.family \in Families,
           p.type \in {"probe", "last"} =>
              \/ p.from \in Joiners /\ p.echo = Nobody
              \/ talk[p.from].with = <<p.to, p.family>> /\ p.echo \in {Nobody, talk[p.from].heard},
           Sent({p}), UNCHANGED <<net, stage, talk>>
    PROVE  HashInv'
<1>1. ProbesTrue'
    BY DEF HashInv, ProbesTrue, Sent
<1> QED
    BY <1>1 DEF HashInv, PartnersTrue, HeardTrue, EchoesTrue

\* A side goes on to negotiate; what it sends meanwhile is no probe.
LEMMA Finished ==
    ASSUME HashInv, NEW s \in Parties, stage[s] = "routes", NEW c \in Across(s) \X Families,
           Finish(s, c), UNCHANGED net,
           \A p \in packets' \ packets :
               p.from \in Parties /\ p.to \in Across(p.from) /\ p.family \in Families /\ p.type = "accept"
    PROVE  HashInv'
<1>0. PartnersTrue /\ ProbesTrue /\ HeardTrue /\ EchoesTrue
    BY DEF HashInv
<1>1. /\ talk' = [talk EXCEPT ![s].with = c] /\ stage' = [stage EXCEPT ![s] = "talk"]
      /\ talk[s].with = NoRoute /\ talk[s].heard = Nobody /\ ~talk[s].echoed
    BY <1>0 DEF Finish, PartnersTrue
<1>2. c \in Parties \X Families
    BY TwoBanks
<1>3. /\ \A o \in Parties : /\ talk'[o].heard = talk[o].heard /\ talk'[o].echoed = talk[o].echoed
                            /\ o # s => talk'[o].with = talk[o].with
      /\ talk'[s].with = c
    BY <1>0, <1>1 DEF PartnersTrue
<1>4. PartnersTrue'
    <2>1. stage' \in [Parties -> {"routes", "talk", "game", "over"}]
        BY <1>0, <1>1 DEF PartnersTrue
    <2>2. talk' \in [Parties -> [with : {NoRoute} \cup Parties \X Families, heard : Parties \cup {Nobody},
                                 echoed : BOOLEAN, replied : BOOLEAN]]
        BY <1>0, <1>1, <1>2 DEF PartnersTrue
    <2> QED
        BY <1>0, <1>1, <1>3, <2>1, <2>2 DEF PartnersTrue
<1>5. \A o, f : talk[s].with # <<o, f>>
    BY <1>1 DEF NoRoute
<1>6. ProbesTrue'
    <2>1. \A p \in packets : p.type \in {"probe", "last"} =>
              \/ p.from \in Joiners /\ p.echo = Nobody
              \/ talk'[p.from].with = <<p.to, p.family>> /\ p.echo \in {Nobody, talk'[p.from].heard}
        BY <1>0, <1>3, <1>5 DEF ProbesTrue
    <2> QED
        BY <1>0, <2>1 DEF ProbesTrue
<1>7. \A o \in Parties : talk[o].heard # Nobody => o # s /\ talk[o].heard \in Parties
    BY <1>0, <1>1 DEF PartnersTrue
<1>8. HeardTrue'
    <2>1. \A o \in Joiners : talk[o].heard # Nobody => talk'[Hosting].with = talk[Hosting].with
        <3>1. talk[Hosting].with \in Joiners \X Families => talk[Hosting].with # NoRoute
            BY DEF NoRoute
        <3> QED
            BY <1>0, <1>1, <1>3, <3>1, TwoBanks DEF HeardTrue, Parties
    <2> QED
        BY <1>0, <1>3, <1>7, <2>1 DEF HeardTrue
<1>9. EchoesTrue'
    <2>1. \A o \in Parties : talk[o].echoed => o # s /\ talk[o].heard # s /\ talk[o].heard \in Parties
        <3> SUFFICES ASSUME NEW o \in Parties, talk[o].echoed
                     PROVE  o # s /\ talk[o].heard # s /\ talk[o].heard \in Parties
            OBVIOUS
        <3>1. talk[o].heard # Nobody /\ talk[talk[o].heard].with = <<o, talk[o].with[2]>>
            BY <1>0 DEF EchoesTrue
        <3> QED
            BY <1>5, <1>7, <3>1
    <2> QED
        BY <1>0, <1>3, <2>1 DEF EchoesTrue
<1> QED
    BY <1>4, <1>6, <1>8, <1>9 DEF HashInv

LEMMA HashProbes == ASSUME HashInv, NEW s \in Parties, Probe(s) PROVE HashInv'
<1>0. PartnersTrue /\ ProbesTrue /\ HeardTrue /\ EchoesTrue
    BY DEF HashInv
<1> DEFINE p == Packet("probe", s, talk[s].with, talk[s].heard, FALSE)
           r == talk[s].replied \/ talk[s].heard # Nobody
<1>1. /\ talk' = [talk EXCEPT ![s].replied = r] /\ packets' = packets \cup {p} /\ UNCHANGED <<net, stage>>
      /\ talk[s].with \in Across(s) \X Families
    BY <1>0 DEF Probe, Sent, PartnersTrue
<1>2. /\ p.from = s /\ p.to = talk[s].with[1] /\ p.family = talk[s].with[2] /\ p.echo = talk[s].heard
      /\ talk[s].with = <<p.to, p.family>>
    BY <1>1 DEF Packet
<1>3. r \in BOOLEAN
    BY <1>0 DEF PartnersTrue
<1> HIDE DEF p, r
<1>4. talk' \in [Parties -> [with : {NoRoute} \cup Parties \X Families, heard : Parties \cup {Nobody},
                             echoed : BOOLEAN, replied : BOOLEAN]]
    BY <1>0, <1>1, <1>3 DEF PartnersTrue
<1>5. \A o \in Parties : /\ talk'[o].with = talk[o].with /\ talk'[o].heard = talk[o].heard
                         /\ talk'[o].echoed = talk[o].echoed
    BY <1>0, <1>1 DEF PartnersTrue
<1>6. PartnersTrue'
    BY <1>0, <1>1, <1>4, <1>5 DEF PartnersTrue
<1>7. ProbesTrue'
    <2>1. /\ p.to \in Across(p.from) /\ p.family \in Families
          /\ talk'[p.from].with = <<p.to, p.family>> /\ p.echo = talk'[p.from].heard
        BY <1>1, <1>2, <1>5
    <2>2. \A q \in packets : talk'[q.from].with = talk[q.from].with /\ talk'[q.from].heard = talk[q.from].heard
        BY <1>0, <1>5 DEF ProbesTrue
    <2> QED
        BY <1>0, <1>1, <1>2, <2>1, <2>2 DEF ProbesTrue
<1>8. HeardTrue'
    BY <1>0, <1>5, TwoBanks DEF HeardTrue, Parties
<1>9. EchoesTrue'
    <2>1. \A o \in Parties : talk[o].echoed => talk[o].heard \in Parties
        BY <1>0 DEF EchoesTrue, PartnersTrue
    <2> QED
        BY <1>0, <1>5, <2>1 DEF EchoesTrue
<1> QED
    BY <1>6, <1>7, <1>8, <1>9 DEF HashInv

LEMMA HashHears ==
    ASSUME HashInv, NEW s \in Parties, NEW p \in packets, ReadProbe(s, p)
    PROVE  HashInv'
<1>0. PartnersTrue /\ ProbesTrue /\ HeardTrue /\ EchoesTrue
    BY DEF HashInv
<1> DEFINE e == talk[s].echoed \/ p.echo = s
<1>1. /\ talk' = [talk EXCEPT ![s].heard = p.from, ![s].echoed = e] /\ UNCHANGED <<net, stage, packets>>
      /\ stage[s] = "talk" /\ talk[s].with = <<p.from, p.family>> /\ p.to = s
      /\ talk[s].heard \in {Nobody, p.from} /\ p.type \in {"probe", "last"}
    BY DEF ReadProbe, ComesFromPartner, From, Arrives
<1>2. e \in BOOLEAN /\ p.from \in Across(s) /\ p.from \in Parties /\ p.from # Nobody /\ p.from # s
    BY <1>0, <1>1, TwoBanks DEF ProbesTrue, PartnersTrue
<1>3. e => talk[s].echoed \/ (talk[p.from].with = <<s, p.family>> /\ talk[p.from].heard = s)
    BY <1>0, <1>1, TwoBanks DEF ProbesTrue
<1>4. s \in Joiners => p.from = Hosting /\ talk[Hosting].with = <<s, p.family>>
    BY <1>0, <1>1, <1>2, TwoBanks DEF ProbesTrue
<1> HIDE DEF e
<1>5. talk' \in [Parties -> [with : {NoRoute} \cup Parties \X Families, heard : Parties \cup {Nobody},
                             echoed : BOOLEAN, replied : BOOLEAN]]
    <2> DEFINE f == p.from
    <2>1. talk' = [talk EXCEPT ![s].heard = f, ![s].echoed = e] /\ f \in Parties
        BY <1>1, <1>2
    <2> HIDE DEF f
    <2> DEFINE W == {NoRoute} \cup Parties \X Families
               R == [with : W, heard : Parties \cup {Nobody}, echoed : BOOLEAN, replied : BOOLEAN]
               x == [talk[s] EXCEPT !.heard = f, !.echoed = e]
    <2>2. talk \in [Parties -> R]
        BY <1>0 DEF PartnersTrue
    <2> HIDE DEF W
    <2>6. e \in BOOLEAN /\ f \in Parties \cup {Nobody} /\ talk[s] \in R
        BY <1>2, <2>1, <2>2
    <2>3. x \in R
        BY <2>6
    <2>4. talk' = [talk EXCEPT ![s] = x]
        BY <2>1, <2>2
    <2> HIDE DEF R, x
    <2>5. talk' \in [Parties -> R]
        BY <2>2, <2>3, <2>4
    <2> QED
        BY <2>5 DEF R, W
<1>6. /\ \A o \in Parties : /\ talk'[o].with = talk[o].with
                            /\ talk[o].heard # Nobody => talk'[o].heard = talk[o].heard
                            /\ o # s => talk'[o].heard = talk[o].heard /\ talk'[o].echoed = talk[o].echoed
      /\ talk'[s].heard = p.from /\ talk'[s].echoed = e
    BY <1>0, <1>1 DEF PartnersTrue
<1>7. PartnersTrue'
    <2>1. stage[s] # "routes" /\ stage[s] # "game"
        BY <1>1
    <2> QED
        BY <1>0, <1>1, <1>5, <1>6, <2>1 DEF PartnersTrue
<1>8. ProbesTrue'
    <2>1. \A q \in packets : q.echo \in {Nobody, talk[q.from].heard} =>
              q.echo \in {Nobody, talk'[q.from].heard}
        BY <1>0, <1>6 DEF ProbesTrue
    <2> QED
        BY <1>0, <1>1, <1>6, <2>1 DEF ProbesTrue
<1>9. HeardTrue'
    <2>1. talk[s].with \in Across(s) \X Families
        BY <1>0, <1>1 DEF PartnersTrue
    <2>2. Hosting \in Parties /\ (s \in Joiners => p.family \in Families)
        BY <1>0 DEF Parties, ProbesTrue
    <2>3. talk'[s].with[1] = talk'[s].heard
        <3>1. talk'[s].with = talk[s].with /\ talk'[s].heard = p.from
            BY <1>6
        <3>2. talk[s].with = <<p.from, p.family>>
            BY <1>1
        <3> QED
            BY <3>1, <3>2
    <2>5. ASSUME s \in Joiners
          PROVE  talk'[Hosting].with \in Joiners \X Families /\ talk'[Hosting].with[1] = s
        <3>1. talk'[Hosting].with = talk[Hosting].with
            BY <1>6, <2>2
        <3>2. talk[Hosting].with = <<s, p.family>> /\ p.family \in Families
            BY <1>4, <2>2, <2>5
        <3>3. talk'[Hosting].with = <<s, p.family>>
            BY <3>1, <3>2
        <3> QED
            BY <2>5, <3>2, <3>3
    <2>4. \A o \in Parties \ {s} : talk'[o].heard = talk[o].heard /\ talk'[o].with = talk[o].with
        BY <1>6
    <2> QED
        BY <1>0, <1>6, <2>1, <2>2, <2>3, <2>4, <2>5 DEF HeardTrue
<1>10. EchoesTrue'
    <2>1. ASSUME NEW o \in Parties, o # s, talk[o].echoed
          PROVE  /\ talk[o].heard # Nobody /\ talk[o].heard \in Parties
                 /\ talk'[talk[o].heard].with = <<o, talk[o].with[2]>> /\ talk'[talk[o].heard].heard = o
        <3>1. /\ talk[o].heard # Nobody /\ talk[o].heard \in Parties
              /\ talk[talk[o].heard].with = <<o, talk[o].with[2]>> /\ talk[talk[o].heard].heard = o
            BY <1>0, <2>1 DEF EchoesTrue, PartnersTrue
        <3> QED
            BY <1>6, <3>1, TwoBanks
    <2>2. ASSUME e
          PROVE  talk'[p.from].with = <<s, talk[s].with[2]>> /\ talk'[p.from].heard = s
        <3>1. talk[p.from].with = <<s, talk[s].with[2]>> /\ talk[p.from].heard = s
            <4>1. CASE talk[s].echoed
                <5>1. talk[s].heard = p.from
                    BY <1>0, <1>1, <4>1 DEF EchoesTrue
                <5> QED
                    BY <1>0, <4>1, <5>1 DEF EchoesTrue
            <4>2. CASE talk[p.from].with = <<s, p.family>> /\ talk[p.from].heard = s
                BY <1>1, <4>2
            <4> QED
                BY <1>3, <2>2, <4>1, <4>2
        <3> QED
            BY <1>2, <1>6, <3>1
    <2> QED
        BY <1>2, <1>6, <2>1, <2>2 DEF EchoesTrue
<1> QED
    BY <1>7, <1>8, <1>9, <1>10 DEF HashInv

LEMMA HashStep == HashInv /\ [StartupNext]_startupVars => HashInv'
<1> SUFFICES ASSUME HashInv, [StartupNext]_startupVars PROVE HashInv'
    OBVIOUS
<1>0. PartnersTrue /\ ProbesTrue /\ HeardTrue /\ EchoesTrue /\ net \in Nets
    BY DEF HashInv, PartnersTrue
<1>1. ASSUME UNCHANGED <<net, stage, talk, packets>> PROVE HashInv'
    BY <1>1 DEF HashInv, PartnersTrue, ProbesTrue, HeardTrue, EchoesTrue
<1>2. ASSUME NEW s \in Parties, NEW c \in Ways(s),
             Measure(s, c) \/ RelayMatches(s, c[1]) \/ DirectEnds(s)
      PROVE  HashInv'
    BY <1>1, <1>2 DEF Measure, RelayMatches, DirectEnds
<1>3. ASSUME NEW s \in Parties, NEW c \in Ways(s), LegacyProbe(s, c) PROVE HashInv'
    <2> DEFINE p == Packet("probe", s, c, Nobody, FALSE)
    <2>1. /\ p.from = s /\ p.to = c[1] /\ p.family = c[2] /\ p.echo = Nobody
          /\ s \in Joiners /\ Sent({p}) /\ UNCHANGED <<net, stage, talk>>
        BY <1>3 DEF LegacyProbe, Packet, Parties
    <2> HIDE DEF p
    <2> QED
        BY <1>0, <2>1, WaysAcross, PacketSent
<1>4. ASSUME NEW c \in Ways(Hosting), Choose(c) \/ SelectAgain(c) PROVE HashInv'
    <2> DEFINE p == SelectPacket(c)
    <2>1. /\ p.from = Hosting /\ p.to = c[1] /\ p.family = c[2] /\ p.type = "select"
          /\ Sent({p}) /\ UNCHANGED <<net, stage, talk>> /\ Hosting \in Parties
        BY <1>4 DEF Choose, SelectAgain, SelectPacket, Packet, Parties
    <2> HIDE DEF p
    <2> QED
        BY <1>0, <2>1, WaysAcross, PacketSent
<1>5. ASSUME NEW s \in Parties, NEW p \in packets, p.to = s
      PROVE  From(p) \in Across(s) \X Families
    BY <1>0, <1>5, TwoBanks DEF From, ProbesTrue
<1>6. ASSUME NEW g \in Joiners, NEW p \in packets, ReadSelect(g, p) PROVE HashInv'
    <2>1. p.to = g /\ stage[g] = "routes" /\ g \in Parties /\ UNCHANGED net
        BY <1>6 DEF ReadSelect, Arrives, Takes, Parties
    <2>2. CASE UNCHANGED <<stage, talk, packets>>
        BY <1>1, <2>1, <2>2
    <2>3. ASSUME NEW b, Finish(g, From(p)), Sent({Packet("accept", g, From(p), p.from, b)}) PROVE HashInv'
        <3>1. \A q \in packets' \ packets :
                  q.from \in Parties /\ q.to \in Across(q.from) /\ q.family \in Families /\ q.type = "accept"
            BY <1>5, <2>1, <2>3 DEF Sent, Packet
        <3> QED
            BY <1>5, <2>1, <2>3, <3>1, Finished
    <2> QED
        BY <1>6, <2>2, <2>3 DEF ReadSelect
<1>7. ASSUME NEW p \in packets, ReadAccept(p) PROVE HashInv'
    <2>1. p.to = Hosting /\ stage[Hosting] = "routes" /\ Hosting \in Parties /\ UNCHANGED <<net, packets>>
        BY <1>7 DEF ReadAccept, Arrives, Takes, Parties
    <2>2. CASE UNCHANGED <<stage, talk>>
        BY <1>1, <2>1, <2>2
    <2>3. CASE Finish(Hosting, From(p))
        BY <1>5, <2>1, <2>3, Finished
    <2> QED
        BY <1>7, <2>2, <2>3 DEF ReadAccept
<1>8. ASSUME NEW s \in Parties, NEW p \in packets, ReadProbeEarly(s, p) PROVE HashInv'
    <2>1. p.to = s /\ stage[s] = "routes" /\ Finish(s, From(p)) /\ UNCHANGED <<net, packets>>
        BY <1>8 DEF ReadProbeEarly, Arrives
    <2> QED
        BY <1>5, <2>1, Finished
<1>9. ASSUME NEW s \in Parties, NEW p \in packets, GameReplies(s, p) PROVE HashInv'
    <2>0. talk[s].with = <<talk[s].with[1], talk[s].with[2]>>
        BY <1>0, <1>9 DEF GameReplies, PartnersTrue
    <2> DEFINE q == Packet("last", s, From(p), talk[s].heard, FALSE)
    <2>1. /\ q.from = s /\ q.to = talk[s].with[1] /\ q.family = talk[s].with[2] /\ q.echo = talk[s].heard
          /\ talk[s].with \in Across(s) \X Families
          /\ Sent({q}) /\ UNCHANGED <<net, stage, talk>>
        BY <1>0, <1>9 DEF GameReplies, CanReply, ComesFromPartner, Packet, PartnersTrue
    <2> HIDE DEF q
    <2>2. talk[s].with = <<q.to, q.family>>
        BY <2>0, <2>1
    <2> QED
        BY <2>1, <2>2, PacketSent
<1>10. ASSUME NEW s \in Parties, Lock(s) PROVE HashInv'
    <2>1. /\ stage' = [stage EXCEPT ![s] = "game"] /\ packets' \subseteq packets /\ UNCHANGED <<net, talk>>
          /\ stage[s] = "talk" /\ talk[s].echoed
        BY <1>10 DEF Lock, Ready
    <2>2. PartnersTrue'
        BY <1>0, <2>1 DEF PartnersTrue
    <2>3. ProbesTrue' /\ HeardTrue' /\ EchoesTrue'
        BY <1>0, <2>1 DEF ProbesTrue, HeardTrue, EchoesTrue
    <2> QED
        BY <2>2, <2>3 DEF HashInv
<1>11. ASSUME NEW s \in Parties, Ends(s) PROVE HashInv'
    <2>1. stage' = [stage EXCEPT ![s] = "over"] /\ UNCHANGED <<net, talk, packets>>
        BY <1>11 DEF Ends
    <2>2. PartnersTrue'
        BY <1>0, <2>1 DEF PartnersTrue
    <2>3. ProbesTrue' /\ HeardTrue' /\ EchoesTrue'
        BY <1>0, <2>1 DEF ProbesTrue, HeardTrue, EchoesTrue
    <2> QED
        BY <2>2, <2>3 DEF HashInv
<1>12. CASE WaitAgain
    BY <1>1, <1>12 DEF WaitAgain
<1>13. ASSUME NEW s \in Parties, DirectEnds(s) PROVE HashInv'
    BY <1>1, <1>13 DEF DirectEnds
<1>14. CASE UNCHANGED startupVars
    BY <1>1, <1>14 DEF startupVars
<1> QED
    BY <1>2, <1>3, <1>4, <1>6, <1>7, <1>8, <1>9, <1>10, <1>11, <1>12, <1>13, <1>14, HashProbes, HashHears
    DEF StartupNext

\* Who negotiates has a partner across, and what it has heard came from that partner.
THEOREM HashInvariant == StartupSpec => []HashInv
BY HashInit, HashStep, PTL DEF StartupSpec

\* Who starts its game has one partner, on the same route and with its nonce, for
\* any number of joiners, address families and networks (RunNegotiation).
THEOREM HasOnePartner == StartupSpec => []OnePartner
<1>1. HashInv => OnePartner
    <2> SUFFICES ASSUME HashInv, NEW s \in Parties, stage[s] = "game"
                 PROVE  LET o == talk[s].with[1]
                        IN /\ talk[o].with = <<s, talk[s].with[2]>>
                           /\ {t \in Parties : talk[t].heard = s} = {o}
        BY DEF OnePartner
    <2> DEFINE o == talk[s].with[1]
    <2>0. PartnersTrue /\ HeardTrue /\ EchoesTrue
        BY DEF HashInv
    <2>1. o = talk[s].heard /\ o \in Across(s) /\ o \in Parties
        BY <2>0, TwoBanks DEF PartnersTrue, EchoesTrue, HeardTrue
    <2>2. talk[o].with = <<s, talk[s].with[2]>> /\ talk[o].heard = s
        BY <2>0, <2>1 DEF PartnersTrue, EchoesTrue
    <2>3. ASSUME NEW t \in Parties, talk[t].heard = s PROVE t = o
        <3>1. s \in Across(t) /\ t \in Across(s)
            BY <2>0, <2>3, TwoBanks DEF HeardTrue
        <3>2. CASE s = Hosting
            <4>1. t \in Joiners /\ talk[Hosting].with[1] = t
                BY <2>0, <2>3, <3>1, <3>2, TwoBanks DEF HeardTrue
            <4> QED
                BY <3>2, <4>1
        <3>3. CASE s \in Joiners
            BY <2>1, <3>1, <3>3, TwoBanks
        <3> QED
            BY <3>2, <3>3 DEF Parties
    <2> QED
        BY <2>1, <2>2, <2>3
<1> QED
    BY <1>1, HashInvariant, PTL

-----------------------------------------------------------------------------
(* The end of a session: what one side is told passes through the memory     *)
(* shared by game and launcher, the launcher's reports and two kinds of      *)
(* notices, and game and launcher may both have read the same notice.  All   *)
(* of it agrees because it has one origin: a side fixes its reason when its  *)
(* game is gone, tells its own player, and then neither takes it back nor    *)
(* sends another.                                                            *)

Done(s) == launcher[s] \in {"finishing", "over"}

\* Side s has told its player, and may have told the other side, that it ends for r.
Gave(s, r) == Done(s) /\ final[s].initiated /\ final[s].reason = r

\* Whoever has closed has told its player the reason it gives the other side.
GivesAsTold ==
    \A s \in Sides :
        /\ Done(s) /\ final[s].initiated => final[s].reason # Untold /\ told[s].own = final[s].reason
        /\ ~Done(s) => told[s].own \in {Untold, shared[s].own}

\* What a side knows of the other's end has been given by it.
KnowsAsGiven ==
    \A s, o \in Sides : s # o =>
        /\ shared[s].closed => Gave(o, shared[s].peer)
        /\ told[s].peer # Untold => Gave(o, told[s].peer)
        /\ final[s].remote # Untold => Gave(o, final[s].remote)
        /\ ~Done(s) /\ told[s].peer # Untold => shared[s].peer = told[s].peer

\* Notices come from who has given the reason, answers from who has told it.
NoticesTrue ==
    \A n \in notices : IF n.ack THEN told[n.from].peer = n.reason ELSE Gave(n.from, n.reason)

\* Who counts a notice as received has been answered by who has told it.
ConfirmedTrue ==
    \A s, o \in Sides :
        s # o /\ final[s].confirmed => final[s].reason # Untold /\ told[o].peer = final[s].reason

-----------------------------------------------------------------------------
(* The end of a session: types. *)

LEMMA InitTypes == SessionInit => SessionTypeOK
BY SessionAssumption DEF SessionInit, SessionTypeOK, Nothing, Said, Told

\* Dies touches the game alone.
LEMMA DiesTypes ==
    ASSUME SessionTypeOK, NEW s \in Sides, Dies(s), shared' \in [Sides -> [own : Told, closed : BOOLEAN, peer : Said]]
    PROVE  SessionTypeOK'
<1>1. mode' \in [Sides -> {"starting", "WaitReady", "WaitStart", "Counting", "gone"}]
    BY DEF SessionTypeOK, Dies
<1>2. heard' \in [Sides -> [packet : BOOLEAN, ready : BOOLEAN, samples : 0 .. Samples]]
    BY SessionAssumption DEF SessionTypeOK, Dies, Nothing
<1>3. ticks' \subseteq [from : Sides, ready : BOOLEAN, echo : BOOLEAN]
    BY DEF SessionTypeOK, Dies
<1>4. UNCHANGED <<launcher, told, final, notices>>
    BY DEF Dies
<1> QED
    BY <1>1, <1>2, <1>3, <1>4 DEF SessionTypeOK

LEMMA StepTypes == SessionTypeOK /\ [SessionNext]_sessionVars => SessionTypeOK'
<1> SUFFICES ASSUME SessionTypeOK, [SessionNext]_sessionVars PROVE SessionTypeOK'
    OBVIOUS
<1>1. CASE UNCHANGED sessionVars
    BY <1>1 DEF SessionTypeOK, sessionVars
<1> SUFFICES ASSUME NEW s \in Sides,
                    \/ GameStarts(s) \/ Tick(s) \/ \E p \in ticks : GameReads(s, p)
                    \/ \E r \in Reasons : PlayerCloses(s, r)
                    \/ \E n \in notices : GameReadsNotice(s, n) \/ FinishReads(s, n)
                    \/ GameFails(s) \/ LosesPeer(s) \/ TransportFails(s)
                    \/ Sees(s) \/ Terminates(s) \/ FinishBegins(s) \/ FinishRound(s) \/ TimeIsUp(s)
             PROVE  SessionTypeOK'
    BY <1>1 DEF SessionNext
<1>2. CASE GameStarts(s)
    BY <1>2 DEF GameStarts, endVars, SessionTypeOK
<1>3. CASE Tick(s)
    <2>1. mode' \in [Sides -> {"starting", "WaitReady", "WaitStart", "Counting", "gone"}]
        BY <1>3 DEF Tick, Running, SessionTypeOK
    <2>2. Says(s) \in [from : Sides, ready : BOOLEAN, echo : BOOLEAN]
        BY DEF Says, SessionTypeOK
    <2>3. ticks' \subseteq [from : Sides, ready : BOOLEAN, echo : BOOLEAN]
        BY <1>3, <2>2 DEF Tick, SessionTypeOK
    <2> QED
        BY <1>3, <2>1, <2>3 DEF Tick, endVars, SessionTypeOK
<1>4. ASSUME NEW p \in ticks, GameReads(s, p) PROVE SessionTypeOK'
    <2>1. PICK n \in {0, 1} :
              /\ n = 1 => p.echo /\ heard[s].samples < Samples
              /\ heard' = [heard EXCEPT ![s] = [packet |-> TRUE, ready |-> @.ready \/ p.ready,
                                                samples |-> @.samples + n]]
        BY <1>4 DEF GameReads
    <2>2. heard[s].samples + n \in 0 .. Samples
        BY <2>1, SessionAssumption DEF SessionTypeOK
    <2>3. (heard[s].ready \/ p.ready) \in BOOLEAN
        OBVIOUS
    <2>4. heard' \in [Sides -> [packet : BOOLEAN, ready : BOOLEAN, samples : 0 .. Samples]]
        BY <2>1, <2>2, <2>3 DEF SessionTypeOK
    <2> QED
        BY <1>4, <2>4 DEF GameReads, endVars, SessionTypeOK
<1>5. ASSUME NEW r \in Reasons, PlayerCloses(s, r) PROVE SessionTypeOK'
    <2>1. (IF shared[s].own = Untold THEN r ELSE shared[s].own) \in Told
        BY DEF SessionTypeOK, Said, Told
    <2>2. Asks(s, r) \in [Sides -> [own : Told, closed : BOOLEAN, peer : Said]]
        BY <2>1 DEF Asks, SessionTypeOK
    <2> QED
        BY <1>5, <2>2 DEF PlayerCloses, SessionTypeOK
<1>6. ASSUME NEW n \in notices, GameReadsNotice(s, n) PROVE SessionTypeOK'
    <2>1. n.reason \in Said
        BY DEF SessionTypeOK
    <2>2. shared' \in [Sides -> [own : Told, closed : BOOLEAN, peer : Said]]
        BY <1>6, <2>1 DEF GameReadsNotice, SessionTypeOK
    <2> QED
        BY <1>6, <2>2 DEF GameReadsNotice, SessionTypeOK
<1>7. ASSUME NEW n \in notices, FinishReads(s, n) PROVE SessionTypeOK'
    <2>1. CASE n.ack
        <3> DEFINE b == final[s].confirmed \/ n.reason = final[s].reason
        <3>1. final' = [final EXCEPT ![s].confirmed = b]
            BY <1>7, <2>1 DEF FinishReads
        <3>2. b \in BOOLEAN
            OBVIOUS
        <3> HIDE DEF b
        <3>3. final' \in [Sides -> [initiated : BOOLEAN, reason : Said, confirmed : BOOLEAN, remote : Told]]
            BY <3>1, <3>2 DEF SessionTypeOK
        <3> QED
            BY <1>7, <3>3 DEF FinishReads, SessionTypeOK
    <2>2. CASE ~n.ack
        <3>1. final' = [final EXCEPT ![s].remote = n.reason] /\ n.reason \in Told
            BY <1>7, <2>2 DEF FinishReads, SessionTypeOK, Told
        <3>2. final' \in [Sides -> [initiated : BOOLEAN, reason : Said, confirmed : BOOLEAN, remote : Told]]
            BY <3>1 DEF SessionTypeOK
        <3> QED
            BY <1>7, <3>2 DEF FinishReads, SessionTypeOK
    <2> QED
        BY <2>1, <2>2
<1>8. CASE GameFails(s) \/ LosesPeer(s) \/ Terminates(s)
    <2>1. Dies(s) /\ UNCHANGED shared
        BY <1>8 DEF GameFails, LosesPeer, Terminates
    <2> QED
        BY <2>1, DiesTypes DEF SessionTypeOK
<1>9. CASE TransportFails(s)
    <2>1. Dies(s) /\ shared' \in [Sides -> [own : Told, closed : BOOLEAN, peer : Said]]
        BY <1>9 DEF TransportFails, SessionTypeOK
    <2> QED
        BY <2>1, DiesTypes
<1>10. Reported(s) \in [own : Told, peer : Told]
    BY DEF Reported, SessionTypeOK, Told
<1>11. CASE Sees(s)
    BY <1>10, <1>11 DEF Sees, SessionTypeOK
<1>12. CASE FinishBegins(s)
    <2> DEFINE initiated == ~shared[s].closed \/ shared[s].own # Untold
               t == Reported(s)
               f == [initiated |-> initiated, confirmed |-> FALSE,
                     reason |-> IF shared[s].own = Untold THEN Unknown ELSE shared[s].own,
                     remote |-> IF t.peer = Untold THEN Untold ELSE shared[s].peer]
    <2>1. initiated \in BOOLEAN
        OBVIOUS
    <2>2. f \in [initiated : BOOLEAN, reason : Said, confirmed : BOOLEAN, remote : Told]
        BY <2>1 DEF SessionTypeOK, Told, Said
    <2>3. /\ final' = [final EXCEPT ![s] = f]
          /\ launcher' = [launcher EXCEPT ![s] = "finishing"]
          /\ told' = [told EXCEPT ![s] =
                [own |-> IF initiated /\ t.own = Untold THEN Unknown ELSE t.own, peer |-> t.peer]]
        BY <1>12 DEF FinishBegins
    <2> HIDE DEF f
    <2>4. final' \in [Sides -> [initiated : BOOLEAN, reason : Said, confirmed : BOOLEAN, remote : Told]]
        BY <2>2, <2>3 DEF SessionTypeOK
    <2>5. told' \in [Sides -> [own : Told, peer : Told]]
        BY <1>10, <2>3 DEF SessionTypeOK, Told, Said
    <2> QED
        BY <1>12, <2>3, <2>4, <2>5 DEF FinishBegins, SessionTypeOK
<1>13. CASE FinishRound(s)
    <2>1. told' \in [Sides -> [own : Told, peer : Told]]
        BY <1>13 DEF FinishRound, SessionTypeOK
    <2>2. notices' \subseteq [from : Sides, ack : BOOLEAN, reason : Said]
        <3>1. \A r \in Said : Notice(s, TRUE, r) \in [from : Sides, ack : BOOLEAN, reason : Said]
            BY DEF Notice
        <3>2. Notice(s, FALSE, final[s].reason) \in [from : Sides, ack : BOOLEAN, reason : Said]
            BY DEF Notice, SessionTypeOK
        <3>3. {final[s].remote} \ {Untold} \subseteq Said
            BY DEF SessionTypeOK, Told
        <3>4. \A n \in notices' : n \in notices \/ n = Notice(s, FALSE, final[s].reason)
                                  \/ \E r \in {final[s].remote} \ {Untold} : n = Notice(s, TRUE, r)
            BY <1>13 DEF FinishRound
        <3>5. notices \subseteq [from : Sides, ack : BOOLEAN, reason : Said]
            BY DEF SessionTypeOK
        <3> QED
            BY <3>1, <3>2, <3>3, <3>4, <3>5
    <2>3. launcher' \in [Sides -> {"watching", "ending", "finishing", "over"}]
        BY <1>13 DEF FinishRound, SessionTypeOK
    <2>4. UNCHANGED <<mode, heard, ticks, shared, final>>
        BY <1>13 DEF FinishRound
    <2> QED
        BY <2>1, <2>2, <2>3, <2>4 DEF SessionTypeOK
<1>14. CASE TimeIsUp(s)
    BY <1>14 DEF TimeIsUp, SessionTypeOK
<1> QED
    BY <1>2, <1>3, <1>4, <1>5, <1>6, <1>7, <1>8, <1>9, <1>11, <1>12, <1>13, <1>14

-----------------------------------------------------------------------------
(* The end of a session: the invariant. *)

\* There are two sides.
LEMMA TwoSides ==
    \A s \in Sides : /\ Opposite(s) \in Sides /\ Opposite(s) # s
                     /\ \A o \in Sides : s # o => o = Opposite(s)
BY SessionAssumption DEF Opposite

EndParts == GivesAsTold /\ KnowsAsGiven /\ NoticesTrue /\ ConfirmedTrue

LEMMA InitParts == SessionInit => EndParts
BY SessionAssumption
   DEF SessionInit, EndParts, GivesAsTold, KnowsAsGiven, NoticesTrue, ConfirmedTrue, Done

LEMMA StepParts ==
    ASSUME SessionTypeOK, EndParts, [SessionNext]_sessionVars
    PROVE  EndParts'
<1> USE DEF EndParts
<1>1. CASE UNCHANGED endVars
    BY <1>1 DEF endVars, GivesAsTold, KnowsAsGiven, NoticesTrue, ConfirmedTrue, Gave, Done
<1>2. ASSUME NEW s \in Sides, NEW r \in Reasons, PlayerCloses(s, r) PROVE EndParts'
    <2>1. UNCHANGED <<launcher, told, final, notices>>
        BY <1>2 DEF PlayerCloses
    <2>2. \A t \in Sides :
              /\ shared'[t].closed = shared[t].closed /\ shared'[t].peer = shared[t].peer
              /\ shared[t].own # Untold => shared'[t].own = shared[t].own
        BY <1>2 DEF PlayerCloses, Asks, SessionTypeOK
    <2>3. GivesAsTold'
        BY <2>1, <2>2 DEF GivesAsTold, Done
    <2>4. KnowsAsGiven'
        BY <2>1, <2>2 DEF KnowsAsGiven, Gave, Done
    <2> QED
        BY <2>1, <2>3, <2>4 DEF NoticesTrue, ConfirmedTrue, Gave, Done
<1>3. ASSUME NEW s \in Sides, NEW n \in notices, GameReadsNotice(s, n) PROVE EndParts'
    <2>1. UNCHANGED <<launcher, told, final, notices>>
        BY <1>3 DEF GameReadsNotice
    <2>2. /\ shared'[s] = [own |-> shared[s].own, closed |-> TRUE, peer |-> n.reason]
          /\ \A t \in Sides : t # s => shared'[t] = shared[t]
        BY <1>3 DEF GameReadsNotice, SessionTypeOK
    <2>3. n.from \in Sides /\ n.from # s /\ Gave(n.from, n.reason)
        BY <1>3 DEF GameReadsNotice, SessionTypeOK, NoticesTrue
    <2>4. \A o \in Sides : s # o => Gave(o, n.reason)
        BY <2>3, TwoSides
    <2>5. GivesAsTold'
        BY <2>1, <2>2 DEF GivesAsTold, Done
    <2>6. KnowsAsGiven'
        BY <2>1, <2>2, <2>4 DEF KnowsAsGiven, Gave, Done
    <2> QED
        BY <2>1, <2>5, <2>6 DEF NoticesTrue, ConfirmedTrue, Gave, Done
<1>4. ASSUME NEW s \in Sides, TransportFails(s) PROVE EndParts'
    <2>1. UNCHANGED <<launcher, told, final, notices>>
        BY <1>4 DEF TransportFails, Dies
    <2>2. \A t \in Sides :
              /\ shared'[t].closed => shared[t].closed
              /\ shared'[t].peer = shared[t].peer /\ shared'[t].own = shared[t].own
        BY <1>4 DEF TransportFails, SessionTypeOK
    <2> QED
        BY <2>1, <2>2 DEF GivesAsTold, KnowsAsGiven, NoticesTrue, ConfirmedTrue, Gave, Done
<1>5. ASSUME NEW s \in Sides, Sees(s) PROVE EndParts'
    <2>1. UNCHANGED <<shared, final, notices>>
        BY <1>5 DEF Sees
    <2>2. /\ told'[s] = Reported(s) /\ launcher[s] = "watching" /\ launcher'[s] = "ending"
          /\ \A t \in Sides : t # s => told'[t] = told[t] /\ launcher'[t] = launcher[t]
        BY <1>5 DEF Sees, SessionTypeOK
    <2>3. \A t \in Sides : told[t].peer # Untold => told'[t].peer = told[t].peer
        BY <2>2 DEF Reported
    <2>4. \A t \in Sides : Done(t)' <=> Done(t)
        BY <2>2 DEF Done
    <2>5. GivesAsTold'
        BY <2>1, <2>2, <2>4 DEF GivesAsTold, Reported, Done
    <2>6. KnowsAsGiven'
        BY <2>1, <2>2, <2>4 DEF KnowsAsGiven, Gave, Reported
    <2>7. NoticesTrue'
        BY <2>1, <2>3, <2>4, SessionAssumption DEF NoticesTrue, Gave, SessionTypeOK, Said
    <2>8. ConfirmedTrue'
        BY <2>1, <2>3 DEF ConfirmedTrue
    <2> QED
        BY <2>5, <2>6, <2>7, <2>8
<1>6. ASSUME NEW s \in Sides, FinishBegins(s) PROVE EndParts'
    <2> DEFINE initiated == ~shared[s].closed \/ shared[s].own # Untold
               t == Reported(s)
    <2>1. UNCHANGED <<shared, notices>>
        BY <1>6 DEF FinishBegins
    <2>2. /\ ~Done(s) /\ launcher'[s] = "finishing"
          /\ \A o \in Sides : o # s => launcher'[o] = launcher[o]
        BY <1>6 DEF FinishBegins, SessionTypeOK, Done
    <2>3. /\ told'[s] = [own |-> IF initiated /\ t.own = Untold THEN Unknown ELSE t.own, peer |-> t.peer]
          /\ \A o \in Sides : o # s => told'[o] = told[o]
        BY <1>6 DEF FinishBegins, SessionTypeOK
    <2>4. /\ final'[s] = [initiated |-> initiated, confirmed |-> FALSE,
                          reason |-> IF shared[s].own = Untold THEN Unknown ELSE shared[s].own,
                          remote |-> IF t.peer = Untold THEN Untold ELSE shared[s].peer]
          /\ \A o \in Sides : o # s => final'[o] = final[o]
        BY <1>6 DEF FinishBegins, SessionTypeOK
    <2>5. \A o \in Sides : told[o].peer # Untold => told'[o].peer = told[o].peer
        BY <2>3 DEF Reported
    <2>6. Done(s)' /\ \A o \in Sides : o # s => (Done(o)' <=> Done(o))
        BY <2>2 DEF Done
    <2>7. \A o \in Sides : \A r : Gave(o, r) => Gave(o, r)'
        BY <2>2, <2>4, <2>6 DEF Gave
    <2>8. GivesAsTold'
        <3>1. t.own = Untold \/ t.own = shared[s].own
            BY <2>2 DEF GivesAsTold, Reported
        <3>2. t.own = Untold => shared[s].own = Untold
            BY DEF Reported
        <3>3. /\ final'[s].initiated = initiated
              /\ final'[s].reason = IF shared[s].own = Untold THEN Unknown ELSE shared[s].own
              /\ told'[s].own = IF initiated /\ t.own = Untold THEN Unknown ELSE t.own
            BY <2>3, <2>4
        <3> HIDE DEF initiated, t
        <3>4. final'[s].reason # Untold /\ (final'[s].initiated => told'[s].own = final'[s].reason)
            BY <3>1, <3>2, <3>3, SessionAssumption
        <3> QED
            BY <2>1, <2>3, <2>4, <2>6, <3>4 DEF GivesAsTold
    <2>9. KnowsAsGiven'
        <3>1. \A o \in Sides : s # o /\ t.peer # Untold =>
                  shared[s].peer = t.peer /\ Gave(o, t.peer)
            BY <2>2 DEF KnowsAsGiven, Reported
        <3> QED
            BY <2>1, <2>3, <2>4, <2>6, <2>7, <3>1 DEF KnowsAsGiven
    <2>10. NoticesTrue'
        BY <2>1, <2>5, <2>7, SessionAssumption DEF NoticesTrue, SessionTypeOK, Said
    <2>11. ConfirmedTrue'
        BY <2>4, <2>5 DEF ConfirmedTrue
    <2> QED
        BY <2>8, <2>9, <2>10, <2>11
<1>7. ASSUME NEW s \in Sides, FinishRound(s) PROVE EndParts'
    <2>1. UNCHANGED <<shared, final>>
        BY <1>7 DEF FinishRound
    <2>2. /\ told'[s].own = told[s].own
          /\ told'[s].peer = IF told[s].peer = Untold THEN final[s].remote ELSE told[s].peer
          /\ \A o \in Sides : o # s => told'[o] = told[o]
        BY <1>7 DEF FinishRound, SessionTypeOK
    <2>3. launcher[s] = "finishing"
        BY <1>7 DEF FinishRound
    <2>4. \A o \in Sides : Done(o)' <=> Done(o)
        BY <1>7, <2>3 DEF FinishRound, Done, SessionTypeOK
    <2>5. \A n \in notices' :
              \/ n \in notices
              \/ n = Notice(s, TRUE, final[s].remote) /\ final[s].remote # Untold
              \/ n = Notice(s, FALSE, final[s].reason) /\ final[s].initiated
        BY <1>7 DEF FinishRound
    <2>6. \A o \in Sides : told[o].peer # Untold => told'[o].peer = told[o].peer
        BY <2>2
    <2>7. GivesAsTold'
        BY <2>1, <2>2, <2>4 DEF GivesAsTold
    <2>8. KnowsAsGiven'
        BY <2>1, <2>2, <2>3, <2>4 DEF KnowsAsGiven, Gave, Done
    <2>9. final[s].remote # Untold => told'[s].peer = final[s].remote
        BY <2>2, TwoSides DEF KnowsAsGiven, Gave
    <2>10. NoticesTrue'
        <3> SUFFICES ASSUME NEW n \in notices'
                     PROVE  IF n.ack THEN told'[n.from].peer = n.reason ELSE Gave(n.from, n.reason)'
            BY DEF NoticesTrue
        <3>1. CASE n \in notices
            BY <3>1, <2>1, <2>4, <2>6, SessionAssumption DEF NoticesTrue, Gave, SessionTypeOK, Said
        <3>2. CASE n = Notice(s, TRUE, final[s].remote) /\ final[s].remote # Untold
            BY <3>2, <2>9 DEF Notice
        <3>3. CASE n = Notice(s, FALSE, final[s].reason) /\ final[s].initiated
            BY <3>3, <2>1, <2>3, <2>4 DEF Notice, Gave, Done
        <3> QED
            BY <2>5, <3>1, <3>2, <3>3
    <2>11. ConfirmedTrue'
        BY <2>1, <2>6 DEF ConfirmedTrue
    <2> QED
        BY <2>7, <2>8, <2>10, <2>11
<1>8. ASSUME NEW s \in Sides, NEW n \in notices, FinishReads(s, n) PROVE EndParts'
    <2>1. UNCHANGED <<shared, launcher, told, notices>>
        BY <1>8 DEF FinishReads
    <2>2. /\ n.from = Opposite(s) /\ n.from \in Sides /\ n.from # s
          /\ n.reason \in Said /\ n.reason # Untold
        BY <1>8, TwoSides, SessionAssumption DEF FinishReads, SessionTypeOK, Said
    <2>3. /\ final'[s].initiated = final[s].initiated /\ final'[s].reason = final[s].reason
          /\ \A o \in Sides : o # s => final'[o] = final[o]
        BY <1>8 DEF FinishReads, SessionTypeOK
    <2>4. final'[s].remote = final[s].remote \/ (~n.ack /\ final'[s].remote = n.reason)
        BY <1>8 DEF FinishReads, SessionTypeOK
    <2>5. final'[s].confirmed => final[s].confirmed \/ (n.ack /\ n.reason = final[s].reason)
        BY <1>8 DEF FinishReads, SessionTypeOK
    <2>6. \A o \in Sides : \A r : Gave(o, r)' <=> Gave(o, r)
        BY <2>1, <2>3 DEF Gave, Done
    <2>7. GivesAsTold'
        BY <2>1, <2>3 DEF GivesAsTold, Done
    <2>8. KnowsAsGiven'
        <3>1. ~n.ack => \A o \in Sides : s # o => Gave(o, n.reason)
            BY <2>2, TwoSides DEF NoticesTrue
        <3> QED
            BY <2>1, <2>3, <2>4, <2>6, <3>1 DEF KnowsAsGiven, Done
    <2>9. NoticesTrue'
        BY <2>1, <2>6 DEF NoticesTrue, SessionTypeOK
    <2>10. ConfirmedTrue'
        <3>1. n.ack => \A o \in Sides : s # o => told[o].peer = n.reason
            BY <2>2, TwoSides DEF NoticesTrue
        <3> QED
            BY <2>1, <2>2, <2>3, <2>5, <3>1 DEF ConfirmedTrue
    <2> QED
        BY <2>7, <2>8, <2>9, <2>10
<1>9. ASSUME NEW s \in Sides, TimeIsUp(s) PROVE EndParts'
    <2>1. UNCHANGED <<shared, told, final, notices>>
        BY <1>9 DEF TimeIsUp
    <2>2. \A o \in Sides : Done(o)' <=> Done(o)
        BY <1>9 DEF TimeIsUp, Done, SessionTypeOK
    <2>3. \A o \in Sides : \A r : Gave(o, r)' <=> Gave(o, r)
        BY <2>1, <2>2 DEF Gave
    <2>4. GivesAsTold'
        BY <2>1, <2>2 DEF GivesAsTold
    <2>5. KnowsAsGiven'
        BY <2>1, <2>2, <2>3 DEF KnowsAsGiven
    <2>6. NoticesTrue'
        BY <2>1, <2>3, SessionAssumption DEF NoticesTrue, SessionTypeOK
    <2>7. ConfirmedTrue'
        BY <2>1 DEF ConfirmedTrue
    <2> QED
        BY <2>4, <2>5, <2>6, <2>7
<1>10. ASSUME NEW s \in Sides,
              \/ GameStarts(s) \/ Tick(s) \/ \E p \in ticks : GameReads(s, p)
              \/ GameFails(s) \/ LosesPeer(s) \/ Terminates(s)
       PROVE  EndParts'
    BY <1>1, <1>10 DEF GameStarts, Tick, GameReads, GameFails, LosesPeer, Terminates, Dies, endVars
<1> QED
    BY <1>1, <1>2, <1>3, <1>4, <1>5, <1>6, <1>7, <1>8, <1>9, <1>10 DEF SessionNext, sessionVars, endVars

-----------------------------------------------------------------------------
(* The end of a session: the theorems. *)

\* The inductive invariant: what is known of an end, in the shared memory, by
\* the launchers and on the way, was given by the side that ended.
THEOREM SessionInvariant == SessionSpec => [](SessionTypeOK /\ EndParts)
<1>1. SessionInit => SessionTypeOK /\ EndParts
    BY InitTypes, InitParts
<1>2. SessionTypeOK /\ EndParts /\ [SessionNext]_sessionVars => (SessionTypeOK /\ EndParts)'
    BY StepTypes, StepParts
<1> QED
    BY <1>1, <1>2, PTL DEF SessionSpec

\* What game and launcher keep of a session has its type.
THEOREM SessionTypes == SessionSpec => []SessionTypeOK
BY SessionInvariant, PTL

\* Both players are told the same, for all reasons a player may have: through
\* game and launcher, lost and repeated notices, and both closing at once.
THEOREM ReportsAlwaysAgree == SessionSpec => []ReportsAgree
<1>1. SessionTypeOK /\ EndParts => ReportsAgree
    BY TwoSides
    DEF EndParts, GivesAsTold, KnowsAsGiven, ConfirmedTrue, ReportsAgree, Gave
<1> QED
    BY <1>1, SessionInvariant, PTL

-----------------------------------------------------------------------------
(* The launcher: whichever way it goes, its steps are steps of that way, and *)
(* leave the others alone.                                                   *)

LEMMA ConnectingStep ==
    [ConnectingNext]_<<kind, vars, startupVars, sessionVars>> =>
        [Next]_vars /\ [StartupNext]_startupVars /\ [SessionNext]_sessionVars
BY DEF ConnectingNext

\* The launcher does all that each of its three parts promises.
THEOREM PartsHold == ConnectingSpec => Spec /\ StartupSpec /\ SessionSpec
<1>1. ConnectingInit => Init /\ StartupInit /\ SessionInit
    BY DEF ConnectingInit
<1> QED
    BY <1>1, ConnectingStep, PTL DEF ConnectingSpec, Spec, StartupSpec, SessionSpec

\* Of the launcher as a whole: nobody who was accepted is refused, what is
\* selected leads to the guest, the two sides of a route are a pair, a game has
\* one partner, and both players are told the same end.
THEOREM ConnectingHolds ==
    ConnectingSpec =>
        /\ [](AcceptedNotRefused /\ PathsLeadToGuest) /\ ImplementsPairing
        /\ []OnePartner
        /\ []ReportsAgree
BY PartsHold, AcceptedIsNotRefused, PathsAreOfTheGuest, PairsAsPromised, HasOnePartner,
   ReportsAlwaysAgree, PTL
=============================================================================
