------------------------------ MODULE MenuProofs ------------------------------
(***************************************************************************)
(* Proofs about the two menus, the character selection and the rematch     *)
(* menu, for any number of them, of packets under way, of characters,      *)
(* stages and settings and of requests for other settings.                 *)
(*                                                                         *)
(* Both sides resend their state until they know that the peer needs no    *)
(* more of it. In both menus the invariant says that what one side knows   *)
(* of the other is old but never wrong, and that who has left has left     *)
(* with something neither side can still change.                           *)
(***************************************************************************)
EXTENDS Selection, Retry, TLAPS

-----------------------------------------------------------------------------
(* The character selection: the invariant. *)

Numbers(S) == S \cup {0}

States ==
    [epoch : 0 .. Menus, revision : Nat, ack : Nat, character : Numbers(Characters),
     stage : Numbers(Stages), serial : Nat, command : Numbers(Settings), commandAck : Nat,
     settings : Numbers(Settings)]

\* A state that has been entered has settings, and a command is one for settings.
Sound(x) ==
    /\ x \in States
    /\ x.epoch # 0 => x.settings # 0 /\ x.revision # 0
    /\ x.serial # 0 => x.command # 0

\* The types, as functions of the side.
Types ==
    /\ session \in Sessions
    /\ screen \in [Sides -> [character : Numbers(Characters), stage : Numbers(Stages)]]
    /\ requested \in [Sides -> 0 .. session.requests]
    /\ queued \in [Sides -> Numbers(Settings)]
    /\ pending \in [Sides -> Numbers(Settings)]
    /\ settings \in [Sides -> Settings]
    /\ local \in [Sides -> States] /\ \A s \in Sides : Sound(local[s])
    /\ peer \in [Sides -> States] /\ \A s \in Sides : Sound(peer[s])
    /\ released \in [Sides -> BOOLEAN]
    /\ plan \in [1 .. Menus -> [Sides -> Plans \cup {None}]]
    /\ \A m \in net : m.from \in Sides /\ Sound(m.state)

One(b) == IF b THEN 1 ELSE 0

\* Every revision has its cause.
Counts ==
    /\ \A s \in Sides :
          LET l == local[s]
              taken == requested[s] - One(queued[s] # 0)
          IN /\ l.revision <= 1 + One(l.character # 0) + One(l.stage # 0) + taken + l.commandAck
             /\ 0 <= taken /\ l.serial <= taken
             /\ l.commandAck <= session.requests
    /\ screen[Client].stage = 0

\* What a revision stands for.
Same(s, x, l) ==
    /\ x.character = l.character /\ x.stage = l.stage
    /\ x.serial = l.serial /\ x.commandAck = l.commandAck
    /\ s = Host => x.settings = l.settings

\* x has all that s will say in the menu, as far as the commands of l go.
Final(s, x, l) ==
    /\ x.character # 0
    /\ s = Host => x.stage # 0 /\ x.commandAck = l.commandAck

\* x is something that s has said on the way to l.
Earlier(s, x, l) ==
    /\ x.epoch <= l.epoch
    /\ x.epoch = l.epoch =>
          /\ x.revision <= l.revision /\ x.ack <= l.ack
          /\ x.character \in {0, l.character} /\ x.stage \in {0, l.stage}
          /\ x.serial <= l.serial /\ x.commandAck <= l.commandAck
          /\ x.revision = l.revision => Same(s, x, l)
          /\ Final(s, x, l) => x.revision = l.revision

Knowledge ==
    /\ \A s \in Sides : Earlier(Other(s), peer[s], local[Other(s)])
    /\ \A m \in net : Earlier(m.from, m.state, local[m.from])

\* Nobody leaves a menu before entering it, or enters one before both have left
\* the menus before.
Order ==
    \A m \in 1 .. Menus, s \in Sides :
        /\ plan[m][s] # None => m <= local[s].epoch
        /\ m < local[s].epoch => \A t \in Sides : plan[m][t] # None

\* Nobody acknowledges what it has not heard.
Acks ==
    \A s \in Sides :
        local[s].ack # 0 =>
            \/ peer[s].epoch > local[s].epoch
            \/ peer[s].epoch = local[s].epoch /\ local[s].ack <= peer[s].revision

\* What a side says is what the player has chosen, and what it plays with.
Chosen ==
    \A s \in Sides :
        /\ local[s].character \in {0, screen[s].character}
        /\ local[s].stage \in {0, screen[s].stage}
        /\ local[s].epoch # 0 => local[s].settings = settings[s]

\* The host has taken no command the client has not given in the same menu, and
\* the client's settings are those of the revision it acknowledges.
Commands ==
    /\ local[Host].epoch = local[Client].epoch =>
          /\ local[Host].commandAck <= local[Client].serial
          /\ local[Host].epoch # 0 /\ local[Client].ack = local[Host].revision =>
                local[Client].settings = local[Host].settings
    /\ local[Host].epoch > local[Client].epoch => local[Host].commandAck = 0

\* Nothing is left to be said in the menu, and the client knows it.
Finished ==
    /\ local[Host].epoch = local[Client].epoch
    /\ local[Host].character # 0 /\ local[Client].character # 0 /\ local[Host].stage # 0
    /\ local[Host].commandAck = local[Client].serial
    /\ local[Client].ack = local[Host].revision

\* Who is released knows that nothing is left to be said.
Releases ==
    \A s \in Sides :
        released[s] /\ local[s].epoch # 0 /\ local[Other(s)].epoch <= local[s].epoch =>
            /\ Finished
            /\ peer[s].epoch = local[s].epoch /\ peer[s].character # 0

Agreed ==
    [host |-> local[Host].character, client |-> local[Client].character,
     stage |-> local[Host].stage, settings |-> local[Host].settings]

\* Who has left has left with what both have said.
Leaves ==
    \A s \in Sides :
        LET m == local[s].epoch
        IN m # 0 /\ plan[m][s] # None =>
              /\ released[s]
              /\ local[Other(s)].epoch = m => plan[m][s] = Agreed

IInv ==
    /\ Types /\ Counts /\ Knowledge /\ Order /\ Acks /\ Chosen /\ Commands /\ Releases /\ Leaves
    /\ AsChosen

LEMMA Pair ==
    \A s \in Sides : /\ Other(s) \in Sides /\ Other(s) # s /\ Other(Other(s)) = s
                     /\ \A t \in Sides : t = s \/ t = Other(s)
BY DEF Sides, Other, Host, Client

LEMMA Named == /\ Host \in Sides /\ Client \in Sides /\ Other(Host) = Client /\ Other(Client) = Host
               /\ Host # Client /\ \A s \in Sides : s = Host \/ s = Client
BY DEF Sides, Other, Host, Client

\* What the assumptions say of a session.
LEMMA Agenda ==
    ASSUME NEW d \in Sessions
    PROVE  /\ d.menus \in 1 .. Menus /\ d.requests \in Nat
           /\ d.wanted \subseteq Settings
           /\ \A m \in 1 .. Menus : d.choices[m] \subseteq Characters
           /\ Menus \in Nat /\ Default \in Settings
           /\ Characters \subseteq Nat \ {0} /\ Stages \subseteq Nat \ {0}
              /\ Settings \subseteq Nat \ {0}
BY ConstantsAssumption

\* The fields of what is said and heard.
LEMMA Fields ==
    ASSUME IInv, NEW s \in Sides
    PROVE  /\ local[s] \in States /\ Sound(local[s]) /\ local[s].epoch \in 0 .. Menus
           /\ local[s].revision \in Nat /\ local[s].ack \in Nat /\ local[s].serial \in Nat
           /\ local[s].commandAck \in Nat
           /\ peer[s] \in States /\ Sound(peer[s]) /\ peer[s].epoch \in 0 .. Menus
           /\ peer[s].revision \in Nat /\ peer[s].ack \in Nat /\ peer[s].serial \in Nat
           /\ peer[s].commandAck \in Nat
           /\ settings[s] \in Settings /\ settings[s] # 0
           /\ Menus \in Nat
<1>1. local[s] \in States /\ Sound(local[s]) /\ peer[s] \in States /\ Sound(peer[s])
  BY DEF IInv, Types
<1>2. settings[s] \in Settings /\ settings[s] # 0 BY ConstantsAssumption DEF IInv, Types
<1> QED BY <1>1, <1>2, ConstantsAssumption DEF States

LEMMA BlankSound == Sound(Blank)
BY ConstantsAssumption DEF Sound, Blank, States, Numbers

LEMMA BlankEarlier == ASSUME NEW s PROVE Earlier(s, Blank, Blank)
BY DEF Earlier, Blank, Same, Final

LEMMA NoPlan == None \notin Plans
BY ConstantsAssumption DEF None, Plans

LEMMA InitIInv == Init => IInv
<1> SUFFICES ASSUME Init PROVE IInv
  OBVIOUS
<1>0. session \in Sessions /\ Menus \in Nat /\ session.requests \in Nat /\ Default \in Settings
  BY Agenda DEF Init
<1>1. \A s \in Sides : local[s] = Blank /\ peer[s] = Blank
  BY DEF Init
<1>2. Types
  BY <1>0, <1>1, BlankSound DEF Init, Types, Numbers, Sound
<1>3. Counts
  BY <1>0, <1>1, Named DEF Init, Counts, Blank, One
<1>4. Knowledge
  BY <1>1, Pair, BlankEarlier DEF Knowledge, Init
<1>5. Order
  BY <1>0, <1>1, Pair DEF Order, Init, Blank
<1>6. Acks /\ Chosen /\ Leaves /\ AsChosen
  BY <1>1, Pair DEF Acks, Chosen, Leaves, AsChosen, Blank
<1>7. Commands
  BY <1>1, Named DEF Commands, Blank
<1>8. Releases
  BY <1>1, Pair DEF Releases, Blank
<1> QED
  BY <1>2, <1>3, <1>4, <1>5, <1>6, <1>7, <1>8 DEF IInv

-----------------------------------------------------------------------------
(* What is heard. *)

\* What is known of a side after a packet of it is no newer than the side, and
\* nothing that was known gets lost.
LEMMA AcceptFacts ==
    ASSUME NEW s \in Sides, NEW old, NEW m, NEW l,
           Sound(old), Sound(m), Sound(l), Earlier(s, old, l), Earlier(s, m, l)
    PROVE  /\ Sound(Accept(old, m)) /\ Earlier(s, Accept(old, m), l)
           /\ Accept(old, m).epoch >= old.epoch
           /\ Accept(old, m).epoch = old.epoch => Accept(old, m).revision >= old.revision
           /\ old.epoch = l.epoch /\ old.revision = l.revision
                 => Accept(old, m).character = old.character
<1>0. old \in States /\ m \in States /\ l \in States /\ Menus \in Int
  BY ConstantsAssumption DEF Sound
<1>1. CASE m.epoch < old.epoch \/ (m.epoch = old.epoch /\ m.revision < old.revision)
  <2>1. Accept(old, m) = old BY <1>1 DEF Accept
  <2> QED BY <2>1, <1>0 DEF States
<1>2. CASE ~(m.epoch < old.epoch \/ (m.epoch = old.epoch /\ m.revision < old.revision))
  <2> DEFINE a == IF m.epoch = old.epoch THEN Higher(m.ack, old.ack) ELSE m.ack
  <2>1. Accept(old, m) = [m EXCEPT !.ack = a] BY <1>2 DEF Accept
  <2>2. a \in Nat /\ a \in {m.ack, old.ack} /\ (m.epoch # old.epoch => a = m.ack)
    BY <1>0 DEF Higher, States
  <2> HIDE DEF a
  <2>3. SUFFICES ASSUME NEW x, x = [m EXCEPT !.ack = a]
                 PROVE  /\ Sound(x) /\ Earlier(s, x, l)
                        /\ x.epoch >= old.epoch
                        /\ x.epoch = old.epoch => x.revision >= old.revision
                        /\ old.epoch = l.epoch /\ old.revision = l.revision
                           => x.character = old.character
    BY <2>1
  <2>4. x \in States BY <2>2, <2>3, <1>0 DEF States
  <2>5. /\ x.epoch = m.epoch /\ x.revision = m.revision /\ x.ack = a /\ x.character = m.character
        /\ x.stage = m.stage /\ x.serial = m.serial /\ x.command = m.command
        /\ x.commandAck = m.commandAck /\ x.settings = m.settings
    BY <2>3, <1>0 DEF States
  <2>6. Sound(x) BY <2>4, <2>5 DEF Sound
  <2>7. m.epoch >= old.epoch /\ (m.epoch = old.epoch => m.revision >= old.revision)
    BY <1>0, <1>2 DEF States
  <2>8. m.epoch = l.epoch => a <= l.ack
    BY <2>2, <1>0 DEF Earlier, States
  <2>9. Earlier(s, x, l)
    BY <2>5, <2>8 DEF Earlier, Same, Final
  <2>10. ASSUME old.epoch = l.epoch, old.revision = l.revision PROVE x.character = old.character
    <3>1. m.epoch = l.epoch /\ m.revision = l.revision
      BY <2>10, <2>7, <1>0 DEF Earlier, States
    <3> QED BY <3>1, <2>10, <2>5 DEF Earlier, Same
  <2> QED BY <2>6, <2>9, <2>7, <2>5, <2>10
<1> QED BY <1>1, <1>2

LEMMA SendIInv == ASSUME IInv, NEW s \in Sides, Send(s) PROVE IInv'
<1>1. \A m \in net' : m \in net \/ m = [from |-> s, state |-> local[s]]
  BY DEF Send, Packet
<1>2. UNCHANGED <<session, screen, requested, queued, pending, settings, local, peer, released, plan>>
  BY DEF Send
<1>3. Sound(local[s]) /\ local[s] \in States BY DEF IInv, Types
<1>4. Earlier(s, local[s], local[s]) BY <1>3 DEF Earlier, Same, States
<1>5. Types' BY <1>1, <1>2, <1>3 DEF IInv, Types
<1>6. Knowledge' BY <1>1, <1>2, <1>4 DEF IInv, Knowledge
<1>7. Counts' /\ Order' /\ Acks' /\ Chosen' /\ Commands' BY <1>2
      DEF IInv, Counts, Order, Acks, Chosen, Commands
<1>8. Releases' /\ Leaves' /\ AsChosen' BY <1>2
      DEF IInv, Releases, Finished, Leaves, Agreed, AsChosen
<1> QED BY <1>5, <1>6, <1>7, <1>8 DEF IInv

LEMMA ReceiveIInv == ASSUME IInv, NEW s \in Sides, NEW m \in net, Receive(s, m) PROVE IInv'
<1> DEFINE o == Other(s)
<1>0. o \in Sides /\ o # s /\ Other(o) = s /\ \A t \in Sides : t = s \/ t = o
  BY Pair
<1> HIDE DEF o
<1>1. m.from = o /\ net' \subseteq net /\ peer' = [peer EXCEPT ![s] = Accept(@, m.state)]
  BY DEF Receive, o
<1>2. UNCHANGED <<session, screen, requested, queued, pending, settings, local, released, plan>>
  BY DEF Receive
<1>3. /\ Sound(peer[s]) /\ Sound(m.state) /\ Sound(local[o])
      /\ Earlier(o, peer[s], local[o]) /\ Earlier(o, m.state, local[o])
  BY <1>0, <1>1 DEF IInv, Types, Knowledge, o
<1> DEFINE x == Accept(peer[s], m.state)
<1>4. /\ Sound(x) /\ Earlier(o, x, local[o])
      /\ x.epoch >= peer[s].epoch
      /\ x.epoch = peer[s].epoch => x.revision >= peer[s].revision
      /\ peer[s].epoch = local[o].epoch /\ peer[s].revision = local[o].revision
            => x.character = peer[s].character
  <2> SUFFICES ASSUME NEW y, y = peer[s], NEW z, z = m.state, NEW l, l = local[o]
               PROVE  /\ Sound(Accept(y, z)) /\ Earlier(o, Accept(y, z), l)
                      /\ Accept(y, z).epoch >= y.epoch
                      /\ Accept(y, z).epoch = y.epoch => Accept(y, z).revision >= y.revision
                      /\ y.epoch = l.epoch /\ y.revision = l.revision
                            => Accept(y, z).character = y.character
    OBVIOUS
  <2>1. /\ Sound(y) /\ Sound(z) /\ Sound(l) /\ Earlier(o, y, l) /\ Earlier(o, z, l)
        /\ o \in Sides
    BY <1>0, <1>3
  <2> HIDE DEF x
  <2> QED BY ONLY <2>1, AcceptFacts
<1> HIDE DEF x
<1>5. peer' = [peer EXCEPT ![s] = x] BY <1>1 DEF x
<1>6. peer \in [Sides -> States] BY DEF IInv, Types
<1>7. peer'[s] = x /\ peer'[o] = peer[o] BY <1>0, <1>5, <1>6
<1>8. x \in States /\ peer[s] \in States /\ local[o] \in States /\ local[s] \in States
  BY <1>0, <1>4, <1>6 DEF Sound, IInv, Types
<1>9. Types'
  <2>1. peer' \in [Sides -> States] BY <1>5, <1>6, <1>8
  <2>2. \A t \in Sides : Sound(peer'[t]) BY <1>0, <1>4, <1>7 DEF IInv, Types
  <2> QED BY <2>1, <2>2, <1>1, <1>2 DEF IInv, Types
<1>10. Knowledge'
  <2>1. \A n \in net' : Earlier(n.from, n.state, local'[n.from])
    BY <1>1, <1>2 DEF IInv, Knowledge
  <2>2. Earlier(s, peer[o], local[s])
    BY <1>0 DEF IInv, Knowledge
  <2>3. \A t \in Sides : Earlier(Other(t), peer'[t], local'[Other(t)])
    <3> SUFFICES ASSUME NEW t \in Sides PROVE Earlier(Other(t), peer'[t], local'[Other(t)])
      OBVIOUS
    <3>1. CASE t = o BY <3>1, <2>2, <1>0, <1>2, <1>7
    <3>2. CASE t = s
      <4>1. Other(t) = o BY <3>2 DEF o
      <4> QED BY <4>1, <3>2, <1>2, <1>4, <1>7
    <3> QED BY <3>1, <3>2, <1>0
  <2> QED BY <2>1, <2>3 DEF Knowledge
<1>11. Acks'
  <2> SUFFICES ASSUME NEW t \in Sides, local'[t].ack # 0
               PROVE  \/ peer'[t].epoch > local'[t].epoch
                      \/ peer'[t].epoch = local'[t].epoch /\ local'[t].ack <= peer'[t].revision
    BY DEF Acks
  <2>1. CASE t = o BY <2>1, <1>2, <1>7 DEF IInv, Acks
  <2>2. CASE t = s BY <2>2, <1>2, <1>4, <1>7, <1>8 DEF IInv, Acks, States
  <2> QED BY <2>1, <2>2, <1>0
<1>12. Counts' /\ Order' /\ Chosen' /\ Commands' BY <1>2 DEF IInv, Counts, Order, Chosen, Commands
<1>13. Leaves' /\ AsChosen' BY <1>2 DEF IInv, Leaves, Agreed, AsChosen
<1>14. Finished' <=> Finished BY <1>2 DEF Finished
<1>15. Releases'
  <2> SUFFICES ASSUME NEW t \in Sides, released[t], local[t].epoch # 0,
                      local[Other(t)].epoch <= local[t].epoch
               PROVE  Finished' /\ peer'[t].epoch = local[t].epoch /\ peer'[t].character # 0
    BY <1>2 DEF Releases
  <2>1. Finished /\ peer[t].epoch = local[t].epoch /\ peer[t].character # 0
    BY DEF IInv, Releases
  <2>2. CASE t = o BY <2>2, <2>1, <1>7, <1>14
  <2>3. CASE t = s
    <3>1. local[o].epoch = local[s].epoch
      BY <2>1, <1>0, Named DEF Finished
    <3>2. x.epoch = local[s].epoch
      BY <3>1, <2>1, <2>3, <1>4, <1>8 DEF Earlier, States
    <3>3. Final(o, peer[s], local[o])
      <4>1. CASE o = Client BY <4>1, <2>1, <2>3, Named DEF Final
      <4>2. CASE o = Host
        \* The client has acknowledged the last revision it has got.
        <5>1. s = Client BY <4>2, <1>0, Named
        <5>2. local[Client].ack = local[Host].revision /\ local[Host].revision # 0
          <6>1. local[Host].epoch # 0 /\ Sound(local[Host]) BY <2>3, <3>1, <4>2, <1>3
          <6> QED BY <6>1, <2>1 DEF Finished, Sound
        <5>3. peer[s].revision >= local[o].revision
          BY <5>1, <5>2, <4>2, <2>1, <2>3, <1>8 DEF IInv, Acks, States
        <5>4. peer[s].revision = local[o].revision
          BY <5>3, <3>1, <2>1, <2>3, <1>3, <1>8 DEF Earlier, States
        <5>5. Same(o, peer[s], local[o]) BY <5>4, <3>1, <2>1, <2>3, <1>3 DEF Earlier
        <5> QED BY <5>5, <4>2, <2>1, <2>3 DEF Same, Final, Finished
      <4> QED BY <4>1, <4>2, Named, <1>0
    <3>4. peer[s].revision = local[o].revision
      BY <3>1, <3>3, <2>1, <2>3, <1>3 DEF Earlier
    <3>5. x.character # 0 BY <3>1, <3>4, <2>1, <2>3, <1>4
    <3> QED BY <3>2, <3>5, <2>1, <2>3, <1>7, <1>14
  <2> QED BY <2>2, <2>3, <1>0
<1> QED BY <1>9, <1>10, <1>11, <1>12, <1>13, <1>15 DEF IInv

-----------------------------------------------------------------------------
(* What the players do on the screen. *)

\* What is said changes in a frame of the menu only.
LEMMA NothingSaid ==
    ASSUME IInv, UNCHANGED <<local, peer, released, plan, net>>
    PROVE  Knowledge' /\ Order' /\ Acks' /\ Commands' /\ Releases' /\ Leaves'
<1>1. Knowledge' /\ Order' /\ Acks' /\ Commands' BY DEF IInv, Knowledge, Order, Acks, Commands
<1>2. Releases' BY DEF IInv, Releases, Finished
<1>3. Leaves' BY DEF IInv, Leaves, Agreed
<1> QED BY <1>1, <1>2, <1>3

\* A player who can still choose has said nothing, and nobody has left with it.
LEMMA NobodyLeft ==
    ASSUME IInv, NEW t \in Sides, InMenu(t), NEW s \in Sides,
           plan[local[t].epoch][s] # None
    PROVE  Finished
<1> DEFINE m == local[t].epoch
<1>1. m \in 1 .. Menus /\ s # t /\ local[s].epoch \in 0 .. Menus
  BY Fields DEF InMenu
<1>2. m <= local[s].epoch
  BY <1>1 DEF IInv, Order
<1>3. ~(m < local[s].epoch)
  BY <1>1 DEF IInv, Order, InMenu
<1>4. local[s].epoch = m /\ Other(s) = t
  BY <1>1, <1>2, <1>3, Pair
<1>5. released[s]
  BY <1>1, <1>4 DEF IInv, Leaves
<1> QED BY <1>1, <1>4, <1>5 DEF IInv, Releases

LEMMA ScreenIInv ==
    ASSUME IInv,
           UNCHANGED <<session, requested, queued, pending, settings, local, peer, released,
                       plan, net>>,
           NEW s \in Sides, InMenu(s),
           \/ \E c \in Characters : /\ screen[s].character = 0
                                    /\ screen' = [screen EXCEPT ![s].character = c]
           \/ \E g \in Stages : /\ screen[s].stage = 0 /\ s = Host
                                /\ screen' = [screen EXCEPT ![s].stage = g]
    PROVE  IInv'
<1>1. screen \in [Sides -> [character : Numbers(Characters), stage : Numbers(Stages)]]
  BY DEF IInv, Types
<1>2. /\ screen' \in [Sides -> [character : Numbers(Characters), stage : Numbers(Stages)]]
      /\ \A t \in Sides : t # s => screen'[t] = screen[t]
      /\ screen[s].character # 0 => screen'[s].character = screen[s].character
      /\ screen[s].stage # 0 => screen'[s].stage = screen[s].stage
      /\ screen'[s].stage # screen[s].stage => s = Host
  <2>1. CASE \E c \in Characters : /\ screen[s].character = 0
                                  /\ screen' = [screen EXCEPT ![s].character = c]
    BY <1>1, <2>1 DEF Numbers
  <2>2. CASE \E g \in Stages : /\ screen[s].stage = 0 /\ s = Host
                              /\ screen' = [screen EXCEPT ![s].stage = g]
    BY <1>1, <2>2 DEF Numbers
  <2> QED BY <2>1, <2>2
<1>3. Types' BY <1>2 DEF IInv, Types
<1>4. Counts'
  <2>1. screen'[Client].stage = 0 BY <1>2, Named DEF IInv, Counts
  <2> QED BY <2>1 DEF IInv, Counts
<1>5. Chosen'
  <2> SUFFICES ASSUME NEW t \in Sides
               PROVE  /\ local[t].character \in {0, screen'[t].character}
                      /\ local[t].stage \in {0, screen'[t].stage}
                      /\ local[t].epoch # 0 => local[t].settings = settings[t]
    BY DEF Chosen
  <2>1. /\ local[t].character \in {0, screen[t].character}
        /\ local[t].stage \in {0, screen[t].stage}
        /\ local[t].epoch # 0 => local[t].settings = settings[t]
    BY DEF IInv, Chosen
  <2>2. /\ screen[t].character # 0 => screen'[t].character = screen[t].character
        /\ screen[t].stage # 0 => screen'[t].stage = screen[t].stage
    BY <1>2
  <2> QED BY <2>1, <2>2
<1>6. AsChosen'
  <2> SUFFICES ASSUME NEW a \in Sides, NEW t \in Sides, local[t].epoch > 0,
                      plan[local[t].epoch][a] # None
               PROVE  /\ t = Host => /\ plan[local[t].epoch][a].host = screen'[Host].character
                                     /\ plan[local[t].epoch][a].stage = screen'[Host].stage
                      /\ t = Client => plan[local[t].epoch][a].client = screen'[Client].character
    BY DEF AsChosen
  <2>1. CASE t # s BY <2>1, <1>2, Named DEF IInv, AsChosen
  <2>2. CASE t = s
    <3>1. Finished BY <2>2, NobodyLeft
    <3>2. /\ screen[Host].character # 0 /\ screen[Host].stage # 0
          /\ screen[Client].character # 0
      BY <3>1, Named DEF IInv, Chosen, Finished
    <3> QED BY <3>2, <2>2, <1>2, Named DEF IInv, AsChosen
  <2> QED BY <2>1, <2>2
<1> QED BY <1>3, <1>4, <1>5, <1>6, NothingSaid DEF IInv

LEMMA RequestIInv == ASSUME IInv, NEW s \in Sides, NEW v \in Settings, Request(s, v) PROVE IInv'
<1>1. /\ UNCHANGED <<session, screen, settings, local, peer, released, plan, net>>
      /\ requested' = [requested EXCEPT ![s] = @ + 1] /\ requested[s] < session.requests
      /\ pending' = [pending EXCEPT ![s] = v] /\ queued' = [queued EXCEPT ![s] = v]
  BY DEF Request
<1>2. session.requests \in Nat /\ v # 0
  BY Agenda DEF IInv, Types
<1>3. Types' BY <1>1, <1>2 DEF IInv, Types, Numbers
<1>4. Counts'
  <2> SUFFICES ASSUME NEW t \in Sides
               PROVE  LET l == local[t]
                          taken == requested'[t] - One(queued'[t] # 0)
                      IN /\ l.revision <= 1 + One(l.character # 0) + One(l.stage # 0) + taken
                                             + l.commandAck
                         /\ 0 <= taken /\ l.serial <= taken
                         /\ l.commandAck <= session.requests
    BY <1>1 DEF IInv, Counts
  <2>1. /\ requested \in [Sides -> Int] /\ queued \in [Sides -> Numbers(Settings)]
        /\ local[t] \in States
    BY <1>2 DEF IInv, Types
  <2>2. requested'[t] - One(queued'[t] # 0) >= requested[t] - One(queued[t] # 0)
    BY <2>1, <1>1, <1>2 DEF One
  <2>3. /\ requested[t] - One(queued[t] # 0) \in Int /\ requested'[t] - One(queued'[t] # 0) \in Int
        /\ One(local[t].character # 0) \in Int /\ One(local[t].stage # 0) \in Int
    BY <2>1, <1>1 DEF One
  <2>4. /\ local[t].revision <= 1 + One(local[t].character # 0) + One(local[t].stage # 0)
                                 + (requested[t] - One(queued[t] # 0)) + local[t].commandAck
        /\ 0 <= requested[t] - One(queued[t] # 0)
           /\ local[t].serial <= requested[t] - One(queued[t] # 0)
        /\ local[t].commandAck <= session.requests
    BY DEF IInv, Counts
  <2>5. local[t].revision \in Nat /\ local[t].commandAck \in Nat /\ local[t].serial \in Nat
    BY <2>1 DEF States
  <2> HIDE DEF One
  <2> QED BY <2>2, <2>3, <2>4, <2>5
<1>5. Chosen' /\ AsChosen' BY <1>1 DEF IInv, Chosen, AsChosen
<1> QED BY <1>1, <1>3, <1>4, <1>5, NothingSaid DEF IInv

-----------------------------------------------------------------------------
(* A new menu. *)

LEMMA EnterIInv == ASSUME IInv, NEW s \in Sides, Enter(s) PROVE IInv'
<1> DEFINE o == Other(s)
           e == local[s].epoch
           new == [Blank EXCEPT !.epoch = e + 1, !.revision = 1, !.settings = settings[s]]
<1>0. o \in Sides /\ o # s /\ Other(o) = s /\ Other(s) = o /\ \A t \in Sides : t = s \/ t = o
  BY Pair
<1>1. /\ e < session.menus /\ ~InMenu(s)
      /\ \A t \in Sides, m \in 1 .. e : plan[m][t] # None
      /\ local' = [local EXCEPT ![s] = new]
      /\ screen' = [screen EXCEPT ![s] = [character |-> 0, stage |-> 0]]
      /\ requested' = [requested EXCEPT ![s] = 0]
      /\ queued' = [queued EXCEPT ![s] = 0]
      /\ pending' = [pending EXCEPT ![s] = 0]
      /\ released' = [released EXCEPT ![s] = FALSE]
      /\ UNCHANGED <<session, settings, peer, plan, net>>
  BY DEF Enter
<1>2. session.menus \in 1 .. Menus /\ session.requests \in Nat /\ Menus \in Nat
  BY Agenda DEF IInv, Types
<1>3. /\ local \in [Sides -> States] /\ e \in 0 .. Menus /\ e + 1 \in 1 .. Menus
      /\ local[o] \in States /\ local[s] \in States /\ settings[s] \in Settings
      /\ settings[s] # 0
  <2>1. local \in [Sides -> States] BY DEF IInv, Types
  <2>2. e \in 0 .. Menus BY Fields
  <2>3. e + 1 \in 1 .. Menus BY <2>2, <1>1, <1>2
  <2> QED BY <2>1, <2>2, <2>3, <1>0, Fields
<1>4. /\ new \in States
      /\ new.epoch = e + 1 /\ new.revision = 1 /\ new.ack = 0 /\ new.character = 0
      /\ new.stage = 0 /\ new.serial = 0 /\ new.command = 0 /\ new.commandAck = 0
      /\ new.settings = settings[s]
  <2>1. e + 1 \in 0 .. Menus /\ settings[s] \in Settings BY <1>2, <1>3
  <2> SUFFICES ASSUME NEW a, a = e + 1, NEW b, b = settings[s], NEW x, x = new
               PROVE  /\ x \in States
                      /\ x.epoch = a /\ x.revision = 1 /\ x.ack = 0 /\ x.character = 0
                      /\ x.stage = 0 /\ x.serial = 0 /\ x.command = 0 /\ x.commandAck = 0
                      /\ x.settings = b
    OBVIOUS
  <2>2. x = [Blank EXCEPT !.epoch = a, !.revision = 1, !.settings = b]
    OBVIOUS
  <2>3. a \in 0 .. Menus /\ b \in Settings BY <2>1
  <2>4. Blank \in States BY BlankSound DEF Sound
  <2>5. x \in States BY ONLY <2>2, <2>3, <2>4 DEF States, Numbers
  <2> QED BY ONLY <2>2, <2>5 DEF Blank
<1> HIDE DEF new, e, o
<1>5. local'[s] = new /\ local'[o] = local[o] /\ local' \in [Sides -> States]
  BY <1>0, <1>1, <1>3, <1>4
<1>6. /\ screen'[s] = [character |-> 0, stage |-> 0] /\ screen'[o] = screen[o]
      /\ requested'[s] = 0 /\ requested'[o] = requested[o]
      /\ queued'[s] = 0 /\ queued'[o] = queued[o]
      /\ released'[s] = FALSE /\ released'[o] = released[o]
  BY <1>0, <1>1 DEF IInv, Types
<1>7. e = local[s].epoch /\ local[o].epoch \in 0 .. Menus BY <1>3 DEF e, States
\* The other side cannot be more than a menu ahead, and both have left the last one.
<1>8. local[o].epoch <= e + 1
  <2> SUFFICES ASSUME e + 1 < local[o].epoch PROVE FALSE
    BY <1>7, <1>3
  <2>1. plan[e + 1][s] # None BY <1>0, <1>3 DEF IInv, Order
  <2>2. e + 1 <= local[s].epoch BY <2>1, <1>3 DEF IInv, Order
  <2> QED BY <2>2, <1>3, <1>7
<1>9. e <= local[o].epoch
  <2> SUFFICES ASSUME e > 0 PROVE e <= local[o].epoch
    BY <1>3, <1>7
  <2>1. plan[e][o] # None BY <1>0, <1>1, <1>3
  <2> QED BY <2>1, <1>0, <1>3 DEF IInv, Order
\* Nobody has left the new menu.
<1>10. \A t \in Sides : plan[e + 1][t] = None
  <2> SUFFICES ASSUME NEW t \in Sides, plan[e + 1][t] # None PROVE FALSE
    OBVIOUS
  <2>1. e + 1 <= local[t].epoch BY <1>3 DEF IInv, Order
  <2>2. t = o /\ local[o].epoch = e + 1 BY <2>1, <1>0, <1>3, <1>7, <1>8
  <2>3. released[o] BY <2>2, <1>0, <1>3 DEF IInv, Leaves
  <2>4. Finished BY <2>2, <2>3, <1>0, <1>3, <1>7 DEF IInv, Releases
  <2>5. local[s].epoch = local[o].epoch BY <2>4, <1>0, Named DEF Finished
  <2> QED BY <2>2, <2>5, <1>3, <1>7
<1>11. Types'
  <2>1. Sound(new) BY <1>3, <1>4 DEF Sound
  <2>2. \A t \in Sides : Sound(local'[t]) BY <2>1, <1>0, <1>5 DEF IInv, Types
  <2>3. /\ screen' \in [Sides -> [character : Numbers(Characters), stage : Numbers(Stages)]]
        /\ requested' \in [Sides -> 0 .. session.requests]
        /\ queued' \in [Sides -> Numbers(Settings)]
        /\ pending' \in [Sides -> Numbers(Settings)]
        /\ released' \in [Sides -> BOOLEAN]
    BY <1>1, <1>2 DEF IInv, Types, Numbers
  <2> QED BY <2>2, <2>3, <1>1, <1>5 DEF IInv, Types
<1>12. Counts'
  <2>1. screen'[Client].stage = 0 BY <1>0, <1>6, Named DEF IInv, Counts
  <2> SUFFICES ASSUME NEW t \in Sides
               PROVE  LET l == local'[t]
                          taken == requested'[t] - One(queued'[t] # 0)
                      IN /\ l.revision <= 1 + One(l.character # 0) + One(l.stage # 0) + taken
                                             + l.commandAck
                         /\ 0 <= taken /\ l.serial <= taken
                         /\ l.commandAck <= session.requests
    BY <2>1, <1>1 DEF Counts
  <2>2. CASE t = o BY <2>2, <1>5, <1>6 DEF IInv, Counts
  <2>3. CASE t = s BY <2>3, <1>2, <1>4, <1>5, <1>6 DEF One
  <2> QED BY <2>2, <2>3, <1>0
\* What has been heard of s is about older menus now.
<1>13. \A x : Earlier(s, x, local[s]) /\ x.epoch \in 0 .. Menus => Earlier(s, x, local'[s])
  BY <1>3, <1>4, <1>5, <1>7 DEF Earlier
<1>14. Knowledge'
  <2>1. Sound(peer[o]) /\ peer[o].epoch \in 0 .. Menus BY <1>0 DEF IInv, Types, Sound, States
  <2>2. Earlier(s, peer'[o], local'[s]) BY <2>1, <1>0, <1>1, <1>13 DEF IInv, Knowledge
  <2>3. Earlier(o, peer'[s], local'[o]) BY <1>0, <1>1, <1>5 DEF IInv, Knowledge
  <2>4. \A t \in Sides : Earlier(Other(t), peer'[t], local'[Other(t)])
    <3> SUFFICES ASSUME NEW t \in Sides PROVE Earlier(Other(t), peer'[t], local'[Other(t)])
      OBVIOUS
    <3>1. CASE t = s BY <3>1, <2>3, <1>0
    <3>2. CASE t = o BY <3>2, <2>2, <1>0
    <3> QED BY <3>1, <3>2, <1>0
  <2>5. \A m \in net' : Earlier(m.from, m.state, local'[m.from])
    <3> SUFFICES ASSUME NEW m \in net PROVE Earlier(m.from, m.state, local'[m.from])
      BY <1>1
    <3>1. /\ m.from \in Sides /\ m.state.epoch \in 0 .. Menus
          /\ Earlier(m.from, m.state, local[m.from])
      BY DEF IInv, Types, Sound, States, Knowledge
    <3>2. CASE m.from = s BY <3>1, <3>2, <1>13
    <3>3. CASE m.from = o BY <3>1, <3>3, <1>5
    <3> QED BY <3>1, <3>2, <3>3, <1>0
  <2> QED BY <2>4, <2>5 DEF Knowledge
<1>15. Order'
  <2> SUFFICES ASSUME NEW m \in 1 .. Menus, NEW t \in Sides
               PROVE  /\ plan[m][t] # None => m <= local'[t].epoch
                      /\ m < local'[t].epoch => \A r \in Sides : plan[m][r] # None
    BY <1>1 DEF Order
  <2>1. CASE t = o BY <2>1, <1>5 DEF IInv, Order
  <2>2. CASE t = s
    <3>1. plan[m][s] # None => m <= e BY <1>7 DEF IInv, Order
    <3>2. m < e + 1 => m \in 1 .. e BY <1>3
    <3> QED BY <3>1, <3>2, <2>2, <1>1, <1>3, <1>4, <1>5
  <2> QED BY <2>1, <2>2, <1>0
<1>16. Acks'
  <2> SUFFICES ASSUME NEW t \in Sides, local'[t].ack # 0
               PROVE  \/ peer[t].epoch > local'[t].epoch
                      \/ peer[t].epoch = local'[t].epoch /\ local'[t].ack <= peer[t].revision
    BY <1>1 DEF Acks
  <2>1. t = o BY <1>0, <1>4, <1>5
  <2> QED BY <2>1, <1>5 DEF IInv, Acks
<1>17. Chosen'
  <2> SUFFICES ASSUME NEW t \in Sides
               PROVE  /\ local'[t].character \in {0, screen'[t].character}
                      /\ local'[t].stage \in {0, screen'[t].stage}
                      /\ local'[t].epoch # 0 => local'[t].settings = settings[t]
    BY <1>1 DEF Chosen
  <2>1. CASE t = o BY <2>1, <1>5, <1>6 DEF IInv, Chosen
  <2>2. CASE t = s BY <2>2, <1>4, <1>5
  <2> QED BY <2>1, <2>2, <1>0
\* A side that is a menu ahead has heard nothing in it and taken no command.
<1>18. Commands'
  <2>1. CASE s = Host
    <3>1. o = Client BY <2>1, <1>0, Named
    <3>2. local[Client].ack = 0 \/ local[Client].epoch # e + 1
      <4> SUFFICES ASSUME local[Client].ack # 0, local[Client].epoch = e + 1 PROVE FALSE
        OBVIOUS
      <4>1. peer[Client].epoch >= e + 1 /\ peer[Client].epoch \in 0 .. Menus
        BY Fields, Named DEF IInv, Acks
      <4>2. peer[Client].epoch <= e
        BY <2>1, <1>7, Named DEF IInv, Knowledge, Earlier
      <4> QED BY <4>1, <4>2, <1>3
    <3>3. local[Client].serial \in Nat /\ local'[Client] = local[Client]
      BY <3>1, <1>3, <1>5 DEF States
    <3> QED BY <2>1, <3>2, <3>3, <1>4, <1>5 DEF Commands
  <2>2. CASE s = Client
    <3>1. o = Host BY <2>2, <1>0, Named
    <3>2. local[Host].epoch = e + 1 => local[Host].commandAck = 0
      BY <2>2, <1>3, <1>7 DEF IInv, Commands
    <3>3. local'[Host] = local[Host] /\ local[Host].revision \in Nat
      BY <3>1, <1>3, <1>5 DEF States
    <3>4. local[Host].epoch = e + 1 => local[Host].revision # 0
      BY <1>3, Named DEF IInv, Types, Sound
    <3>5. ~(local[Host].epoch > e + 1) BY <3>1, <1>3, <1>7, <1>8
    <3> QED BY <2>2, <3>2, <3>3, <3>4, <3>5, <1>4, <1>5 DEF Commands
  <2> QED BY <2>1, <2>2, Named
<1>19. Releases'
  <2> SUFFICES ASSUME NEW t \in Sides, released'[t], local'[t].epoch # 0,
                      local'[Other(t)].epoch <= local'[t].epoch
               PROVE  FALSE
    BY DEF Releases
  <2>1. t = o /\ released[o] /\ local[o].epoch # 0 /\ e + 1 <= local[o].epoch
    BY <1>0, <1>4, <1>5, <1>6
  <2>2. Finished BY <2>1, <1>0, <1>3, <1>7 DEF IInv, Releases
  <2>3. local[s].epoch = local[o].epoch BY <2>2, <1>0, Named DEF Finished
  <2> QED BY <2>1, <2>3, <1>3, <1>7
<1>20. Leaves'
  <2> SUFFICES ASSUME NEW t \in Sides, local'[t].epoch # 0, plan[local'[t].epoch][t] # None
               PROVE  /\ released'[t]
                      /\ local'[Other(t)].epoch = local'[t].epoch =>
                            plan[local'[t].epoch][t] = Agreed'
    BY <1>1 DEF Leaves
  <2>1. t = o BY <1>0, <1>4, <1>5, <1>10
  <2>2. local[o].epoch # e + 1 BY <2>1, <1>5, <1>10
  <2>3. released[o] BY <2>1, <1>5 DEF IInv, Leaves
  <2> QED BY <2>1, <2>2, <2>3, <1>0, <1>4, <1>5, <1>6
<1>21. AsChosen'
  <2> SUFFICES ASSUME NEW a \in Sides, NEW t \in Sides, local'[t].epoch > 0,
                      plan[local'[t].epoch][a] # None
               PROVE  /\ t = Host => /\ plan[local'[t].epoch][a].host = screen'[Host].character
                                     /\ plan[local'[t].epoch][a].stage = screen'[Host].stage
                      /\ t = Client => plan[local'[t].epoch][a].client = screen'[Client].character
    BY <1>1 DEF AsChosen
  <2>1. t = o BY <1>0, <1>4, <1>5, <1>10
  <2> QED BY <2>1, <1>5, <1>6 DEF IInv, AsChosen
<1> QED BY <1>11, <1>12, <1>14, <1>15, <1>16, <1>17, <1>18, <1>19, <1>20, <1>21 DEF IInv

-----------------------------------------------------------------------------
(* A player leaves. *)

\* Who may leave leaves with what both have said.
LEMMA LeaveAgreed ==
    ASSUME IInv, NEW s \in Sides, InMenu(s), released[s]
    PROVE  /\ Finished /\ Agreed \in Plans /\ local[s].epoch \in 1 .. Menus
           /\ local[Other(s)].epoch = local[s].epoch
           /\ LET p == Known(s)
                  h == IF s = Host THEN local[s] ELSE p
                  c == IF s = Host THEN p ELSE local[s]
              IN [host |-> h.character, client |-> c.character, stage |-> h.stage,
                  settings |-> settings[s]] = Agreed
<1> DEFINE o == Other(s)
           m == local[s].epoch
<1>0. o \in Sides /\ o # s /\ Other(o) = s /\ \A t \in Sides : t = s \/ t = o
  BY Pair
<1>1. m \in 1 .. Menus /\ local[o].epoch \in 0 .. Menus /\ m # 0 /\ plan[m][s] = None
  BY <1>0, Fields DEF InMenu
<1>2. local[o].epoch <= m
  <2> SUFFICES ASSUME m < local[o].epoch PROVE FALSE
    BY <1>1
  <2> QED BY <1>0, <1>1 DEF IInv, Order
<1>3. Finished /\ peer[s].epoch = m /\ peer[s].character # 0
  BY <1>1, <1>2 DEF IInv, Releases
<1>4. local[o].epoch = m BY <1>0, <1>3, Named DEF Finished
<1>5. Known(s) = peer[s] BY <1>3 DEF Known
<1>6. Earlier(o, peer[s], local[o]) BY <1>0 DEF IInv, Knowledge
<1>7. peer[s].character = local[o].character BY <1>3, <1>4, <1>6 DEF Earlier
<1>8. local[Host].settings = settings[Host] /\ local[Client].settings = settings[Client]
  BY <1>0, <1>1, <1>4, Named DEF IInv, Chosen
<1>9. local[Client].settings = local[Host].settings
  BY <1>1, <1>3, <1>4, <1>0, Named DEF Finished, IInv, Commands
<1>10. Agreed \in Plans
  <2>1. /\ local[Host] \in States /\ local[Client] \in States /\ settings[Host] \in Settings
    BY Named DEF IInv, Types
  <2> QED BY <2>1, <1>3, <1>8 DEF Agreed, Plans, Finished, States, Numbers
<1>11. CASE s = Host
  <2>1. o = Client BY <1>11, <1>0, Named
  <2> QED BY <2>1, <1>1, <1>3, <1>4, <1>5, <1>7, <1>8, <1>10, <1>11 DEF Agreed
<1>12. CASE s = Client
  <2>1. o = Host /\ s # Host BY <1>12, <1>0, Named
  <2>2. local[Client].ack # 0 /\ local[Client].ack = local[Host].revision
    BY <2>1, <1>0, <1>1, <1>3, <1>4 DEF Finished, IInv, Types, Sound
  <2>3. peer[s].revision >= local[Host].revision /\ local[Host].revision \in Nat
        /\ peer[s].revision \in Nat
    <3>1. peer[s].epoch > m \/ local[Client].ack <= peer[s].revision
      BY <2>1, <2>2, <1>0, <1>12 DEF IInv, Acks
    <3> QED BY <3>1, <2>1, <2>2, <1>0, <1>1, <1>3, Fields
  <2>4. peer[s].revision = local[Host].revision
    BY <2>1, <2>3, <1>3, <1>4, <1>6 DEF Earlier
  <2>5. peer[s].stage = local[Host].stage
    BY <2>1, <2>4, <1>3, <1>4, <1>6 DEF Earlier, Same
  <2> QED BY <2>1, <2>5, <1>1, <1>3, <1>4, <1>5, <1>7, <1>8, <1>9, <1>10, <1>12 DEF Agreed
<1> QED BY <1>11, <1>12, Named

LEMMA LeaveIInv == ASSUME IInv, NEW s \in Sides, Leave(s) PROVE IInv'
<1> DEFINE o == Other(s)
           m == local[s].epoch
<1>0. o \in Sides /\ o # s /\ Other(o) = s /\ Other(s) = o /\ \A t \in Sides : t = s \/ t = o
  BY Pair
<1>1. /\ Finished /\ Agreed \in Plans /\ m \in 1 .. Menus /\ local[o].epoch = m /\ released[s]
      /\ plan' = [plan EXCEPT ![m][s] = Agreed] /\ plan[m][s] = None
      /\ UNCHANGED <<session, screen, requested, queued, pending, settings, local, peer,
                     released, net>>
  BY LeaveAgreed DEF Leave, InMenu
<1> HIDE DEF o, m
<1>2. plan \in [1 .. Menus -> [Sides -> Plans \cup {None}]]
  BY DEF IInv, Types
<1>3. /\ plan' \in [1 .. Menus -> [Sides -> Plans \cup {None}]]
      /\ plan'[m][s] = Agreed /\ plan'[m][s] # None
      /\ \A n \in 1 .. Menus, t \in Sides : n # m \/ t # s => plan'[n][t] = plan[n][t]
  BY <1>1, <1>2, NoPlan
<1>4. Types' BY <1>1, <1>3 DEF IInv, Types
<1>5. Counts' /\ Knowledge' /\ Acks' /\ Chosen' /\ Commands'
  BY <1>1 DEF IInv, Counts, Knowledge, Acks, Chosen, Commands
<1>6. Releases' BY <1>1 DEF IInv, Releases, Finished
<1>7. Agreed' = Agreed /\ m = local[s].epoch /\ local \in [Sides -> States] BY <1>1
      DEF Agreed, m, IInv, Types
<1>8. Order'
  <2> SUFFICES ASSUME NEW n \in 1 .. Menus, NEW t \in Sides
               PROVE  /\ plan'[n][t] # None => n <= local[t].epoch
                      /\ n < local[t].epoch => \A r \in Sides : plan'[n][r] # None
    BY <1>1 DEF Order
  <2>1. plan'[n][t] # None => n <= local[t].epoch
    BY <1>1, <1>3, <1>7 DEF IInv, Order
  <2>2. ASSUME n < local[t].epoch, NEW r \in Sides PROVE plan'[n][r] # None
    BY <2>2, <1>3 DEF IInv, Order
  <2> QED BY <2>1, <2>2
<1>9. Leaves'
  <2> SUFFICES ASSUME NEW t \in Sides, local[t].epoch # 0, plan'[local[t].epoch][t] # None
               PROVE  /\ released[t]
                      /\ local[Other(t)].epoch = local[t].epoch => plan'[local[t].epoch][t] = Agreed
    BY <1>1, <1>7 DEF Leaves
  <2>1. CASE t = s BY <2>1, <1>1, <1>3, <1>7
  <2>2. CASE t = o
    <3>1. plan'[m][o] = plan[m][o] BY <1>0, <1>1, <1>3
    <3> QED BY <3>1, <2>2, <1>0, <1>1 DEF IInv, Leaves
  <2> QED BY <2>1, <2>2, <1>0
<1>10. AsChosen'
  <2> SUFFICES ASSUME NEW a \in Sides, NEW t \in Sides, local[t].epoch > 0,
                      plan'[local[t].epoch][a] # None
               PROVE  /\ t = Host => /\ plan'[local[t].epoch][a].host = screen[Host].character
                                     /\ plan'[local[t].epoch][a].stage = screen[Host].stage
                      /\ t = Client => plan'[local[t].epoch][a].client = screen[Client].character
    BY <1>1 DEF AsChosen
  <2>1. local[t].epoch = m BY <1>0, <1>1, <1>7
  <2>2. CASE a = s
    <3>1. /\ local[Host].character = screen[Host].character
             /\ local[Host].stage = screen[Host].stage
          /\ local[Client].character = screen[Client].character
      BY <1>1, Named DEF IInv, Chosen, Finished
    <3>2. /\ Agreed.host = local[Host].character /\ Agreed.stage = local[Host].stage
          /\ Agreed.client = local[Client].character
      BY DEF Agreed
    <3> QED BY <3>1, <3>2, <2>1, <2>2, <1>3
  <2>3. CASE a # s
    <3>1. plan'[m][a] = plan[m][a] BY <2>3, <1>1, <1>3
    <3> QED BY <3>1, <2>1 DEF IInv, AsChosen
  <2> QED BY <2>2, <2>3
<1> QED BY <1>4, <1>5, <1>6, <1>8, <1>9, <1>10 DEF IInv

-----------------------------------------------------------------------------
(* A frame of the menu. *)

\* What s knows and what the screen shows, in the fields of the next state.
LEMMA ScreenFacts ==
    ASSUME IInv, NEW s \in Sides
    PROVE  /\ ReadScreen(s) \in States
           /\ ReadScreen(s).epoch = local[s].epoch /\ ReadScreen(s).ack = local[s].ack
           /\ ReadScreen(s).character = screen[s].character
           /\ ReadScreen(s).stage = screen[s].stage
           /\ ReadScreen(s).serial = local[s].serial /\ ReadScreen(s).command = local[s].command
           /\ ReadScreen(s).commandAck = local[s].commandAck
           /\ ReadScreen(s).settings = local[s].settings
           /\ ReadScreen(s).revision = local[s].revision
                 + One(local[s].character = 0 /\ screen[s].character # 0)
                 + One(local[s].stage = 0 /\ screen[s].stage # 0)
<1>1. /\ local[s] \in States /\ screen[s].character \in Numbers(Characters)
      /\ screen[s].stage \in Numbers(Stages)
  BY DEF IInv, Types
<1> SUFFICES ASSUME NEW l \in States, l = local[s],
                    NEW c \in Numbers(Characters), c = screen[s].character,
                    NEW g \in Numbers(Stages), g = screen[s].stage,
                    NEW a, a = One(l.character = 0 /\ c # 0), NEW b, b = One(l.stage = 0 /\ g # 0),
                    NEW r, r = ReadScreen(s)
             PROVE  /\ r \in States /\ r.epoch = l.epoch /\ r.ack = l.ack /\ r.character = c
                    /\ r.stage = g /\ r.serial = l.serial /\ r.command = l.command
                    /\ r.commandAck = l.commandAck /\ r.settings = l.settings
                    /\ r.revision = l.revision + a + b
  BY <1>1
<1>2. a \in {0, 1} /\ b \in {0, 1} BY DEF One
<1>3. r = [l EXCEPT !.character = c, !.stage = g, !.revision = @ + a + b]
  BY DEF ReadScreen, One
<1>4. l.revision + a + b \in Nat BY <1>2 DEF States
<1>5. r \in States
  BY ONLY <1>3, <1>4, l \in States, c \in Numbers(Characters), g \in Numbers(Stages) DEF States
<1> QED BY ONLY <1>3, <1>5, l \in States DEF States

\* What is known of the peer in this menu is what has been heard, or nothing.
LEMMA KnownFacts ==
    ASSUME IInv, NEW s \in Sides
    PROVE  /\ Known(s) \in States /\ Sound(Known(s)) /\ Known(s).revision \in Nat
           /\ Known(s).serial \in Nat /\ Known(s).commandAck \in Nat /\ Known(s).ack \in Nat
           /\ \/ Known(s) = peer[s] /\ peer[s].epoch = local[s].epoch
              \/ /\ Known(s).epoch = 0 /\ Known(s).revision = 0 /\ Known(s).serial = 0
                 /\ Known(s).character = 0
<1>1. Known(s) \in {peer[s], Blank} /\ Sound(Known(s))
  BY Fields, BlankSound DEF Known
<1>2. Known(s) \in States BY <1>1 DEF Sound
<1>3. CASE peer[s].epoch = local[s].epoch BY <1>1, <1>2, <1>3 DEF Known, States
<1>4. CASE peer[s].epoch # local[s].epoch BY <1>1, <1>2, <1>4 DEF Known, Blank, States
<1> QED BY <1>3, <1>4

\* The commands the host has before it, and what they make of its state.
HostTakes == Takes(Host, ReadScreen(Host))
HostHears == Known(Host).serial > local[Host].commandAck /\ ~released[Host]

LEMMA HostFacts ==
    ASSUME IInv
    PROVE  LET r == ReadScreen(Host)
               p == Known(Host)
               n == HostCommands(r, p)
           IN /\ n \in States /\ n.epoch = r.epoch /\ n.ack = r.ack
              /\ n.character = r.character /\ n.stage = r.stage
              /\ n.serial = r.serial /\ n.command = r.command
              /\ n.revision = r.revision + One(HostTakes) + One(HostHears)
              /\ n.commandAck = IF HostHears THEN p.serial ELSE r.commandAck
              /\ n.settings = IF HostHears THEN p.command
                              ELSE IF HostTakes THEN queued[Host] ELSE settings[Host]
<1>1. ReadScreen(Host) \in States /\ ReadScreen(Host).commandAck = local[Host].commandAck
  BY ScreenFacts, Named
<1>2. Known(Host) \in States BY KnownFacts, Named
<1>3. queued[Host] \in Numbers(Settings) /\ settings[Host] \in Numbers(Settings)
  BY Named DEF IInv, Types, Numbers
<1> SUFFICES ASSUME NEW r \in States, r = ReadScreen(Host), NEW p \in States, p = Known(Host),
                    NEW q \in Numbers(Settings), q = queued[Host],
                    NEW g \in Numbers(Settings), g = settings[Host],
                    NEW n, n = HostCommands(r, p)
             PROVE  /\ n \in States /\ n.epoch = r.epoch /\ n.ack = r.ack
                    /\ n.character = r.character /\ n.stage = r.stage
                    /\ n.serial = r.serial /\ n.command = r.command
                    /\ n.revision = r.revision + One(HostTakes) + One(HostHears)
                    /\ n.commandAck = IF HostHears THEN p.serial ELSE r.commandAck
                    /\ n.settings = IF HostHears THEN p.command
                                    ELSE IF HostTakes THEN q ELSE g
  BY <1>1, <1>2, <1>3
<1>4. HostHears <=> p.serial > r.commandAck /\ ~released[Host] BY <1>1 DEF HostHears
<1>5. HostTakes <=> Takes(Host, r) BY DEF HostTakes
<1> DEFINE l1 == IF Takes(Host, r) THEN [r EXCEPT !.revision = @ + 1] ELSE r
           hears == p.serial > r.commandAck /\ ~released[Host]
           l2 == IF hears THEN TakeCommand(l1, p) ELSE l1
           v == IF hears THEN p.command ELSE IF Takes(Host, r) THEN q ELSE g
<1>6. /\ l1 \in States /\ l1.revision = r.revision + One(HostTakes)
      /\ l1.epoch = r.epoch /\ l1.ack = r.ack /\ l1.character = r.character
      /\ l1.stage = r.stage /\ l1.serial = r.serial /\ l1.command = r.command
      /\ l1.commandAck = r.commandAck /\ l1.settings = r.settings
  <2>1. CASE Takes(Host, r)
    <3>1. l1 = [r EXCEPT !.revision = @ + 1] /\ One(HostTakes) = 1 BY <2>1, <1>5 DEF One
    <3> HIDE DEF l1
    <3> QED BY <3>1 DEF States
  <2>2. CASE ~Takes(Host, r)
    <3>1. l1 = r /\ One(HostTakes) = 0 BY <2>2, <1>5 DEF One
    <3> HIDE DEF l1
    <3> QED BY <3>1 DEF States
  <2> QED BY <2>1, <2>2
<1>7. n = [l2 EXCEPT !.settings = v]
  <2>1. l1.commandAck = r.commandAck BY <1>6
  <2> QED BY <2>1 DEF HostCommands
<1> HIDE DEF l1
<1>8. /\ l2 \in States /\ l2.revision = l1.revision + One(HostHears)
      /\ l2.epoch = r.epoch /\ l2.ack = r.ack /\ l2.character = r.character
      /\ l2.stage = r.stage /\ l2.serial = r.serial /\ l2.command = r.command
      /\ l2.commandAck = IF HostHears THEN p.serial ELSE r.commandAck
  <2>1. CASE hears
    <3>1. HostHears /\ l2 = [l1 EXCEPT !.commandAck = p.serial, !.revision = @ + 1]
          /\ One(HostHears) = 1
      BY <2>1, <1>4 DEF One, TakeCommand
    <3> HIDE DEF l2
    <3>2. l1.revision + 1 \in Nat /\ p.serial \in Nat BY <1>6 DEF States
    <3>3. /\ l2 \in States /\ l2.revision = l1.revision + 1
          /\ l2.epoch = l1.epoch /\ l2.ack = l1.ack /\ l2.character = l1.character
          /\ l2.stage = l1.stage /\ l2.serial = l1.serial /\ l2.command = l1.command
          /\ l2.commandAck = p.serial
      BY ONLY <3>1, <3>2, <1>6 DEF States
    <3> QED BY <3>1, <3>3, <1>6
  <2>2. CASE ~hears
    <3>1. ~HostHears /\ l2 = l1 /\ One(HostHears) = 0 BY <2>2, <1>4 DEF One
    <3> HIDE DEF l2
    <3> QED BY <3>1, <1>6 DEF States
  <2> QED BY <2>1, <2>2
<1> HIDE DEF l2
<1>9. v \in Numbers(Settings)
      /\ v = IF HostHears THEN p.command ELSE IF HostTakes THEN q ELSE g
  BY <1>4, <1>5 DEF States
<1> HIDE DEF v
<1>10. n \in States BY ONLY <1>7, <1>8, <1>9 DEF States
<1>11. /\ n.epoch = l2.epoch /\ n.ack = l2.ack /\ n.character = l2.character
       /\ n.stage = l2.stage /\ n.serial = l2.serial /\ n.command = l2.command
       /\ n.revision = l2.revision /\ n.commandAck = l2.commandAck /\ n.settings = v
  BY ONLY <1>7, <1>8 DEF States
<1> QED BY <1>6, <1>8, <1>9, <1>10, <1>11

ClientTakes == Takes(Client, ReadScreen(Client))

LEMMA ClientFacts ==
    ASSUME IInv
    PROVE  LET r == ReadScreen(Client)
               p == Known(Client)
               n == ClientCommands(r, p)
           IN /\ n \in States /\ n.epoch = r.epoch /\ n.ack = r.ack
              /\ n.character = r.character /\ n.stage = r.stage
              /\ n.serial = r.serial + One(ClientTakes)
              /\ n.command = IF ClientTakes THEN queued[Client] ELSE r.command
              /\ n.revision = r.revision + One(ClientTakes)
              /\ n.commandAck = r.commandAck
              /\ n.settings = IF p.epoch # 0 THEN p.settings ELSE r.settings
<1>1. ReadScreen(Client) \in States BY ScreenFacts, Named
<1>2. Known(Client) \in States BY KnownFacts, Named
<1>3. queued[Client] \in Numbers(Settings) BY Named DEF IInv, Types
<1> SUFFICES ASSUME NEW r \in States, r = ReadScreen(Client), NEW p \in States, p = Known(Client),
                    NEW q \in Numbers(Settings), q = queued[Client],
                    NEW n, n = ClientCommands(r, p)
             PROVE  /\ n \in States /\ n.epoch = r.epoch /\ n.ack = r.ack
                    /\ n.character = r.character /\ n.stage = r.stage
                    /\ n.serial = r.serial + One(ClientTakes)
                    /\ n.command = IF ClientTakes THEN q ELSE r.command
                    /\ n.revision = r.revision + One(ClientTakes)
                    /\ n.commandAck = r.commandAck
                    /\ n.settings = IF p.epoch # 0 THEN p.settings ELSE r.settings
  BY <1>1, <1>2, <1>3
<1>5. ClientTakes <=> Takes(Client, r) BY DEF ClientTakes
<1> DEFINE l1 == IF Takes(Client, r)
                 THEN [r EXCEPT !.command = q, !.serial = @ + 1, !.revision = @ + 1] ELSE r
           v == IF p.epoch # 0 THEN p.settings ELSE r.settings
<1>6. /\ l1 \in States /\ l1.revision = r.revision + One(ClientTakes)
      /\ l1.epoch = r.epoch /\ l1.ack = r.ack /\ l1.character = r.character
      /\ l1.stage = r.stage /\ l1.serial = r.serial + One(ClientTakes)
      /\ l1.command = IF ClientTakes THEN q ELSE r.command
      /\ l1.commandAck = r.commandAck /\ l1.settings = r.settings
  <2>1. CASE Takes(Client, r)
    <3>1. /\ l1 = [r EXCEPT !.command = q, !.serial = @ + 1, !.revision = @ + 1]
          /\ One(ClientTakes) = 1 /\ ClientTakes
      BY <2>1, <1>5 DEF One
    <3> HIDE DEF l1
    <3>2. r.revision + 1 \in Nat /\ r.serial + 1 \in Nat BY DEF States
    <3>3. l1 \in States BY ONLY <3>1, <3>2, r \in States, q \in Numbers(Settings) DEF States
    <3>4. /\ l1.revision = r.revision + 1 /\ l1.serial = r.serial + 1 /\ l1.command = q
          /\ l1.epoch = r.epoch /\ l1.ack = r.ack /\ l1.character = r.character
          /\ l1.stage = r.stage /\ l1.commandAck = r.commandAck /\ l1.settings = r.settings
      BY ONLY <3>1, <3>3, r \in States DEF States
    <3> QED BY <3>1, <3>3, <3>4
  <2>2. CASE ~Takes(Client, r)
    <3>1. l1 = r /\ One(ClientTakes) = 0 /\ ~ClientTakes BY <2>2, <1>5 DEF One
    <3> HIDE DEF l1
    <3> QED BY <3>1 DEF States
  <2> QED BY <2>1, <2>2
<1>7. n = [l1 EXCEPT !.settings = v]
  <2>1. n = [l1 EXCEPT !.settings = IF p.epoch # 0 THEN p.settings ELSE @]
    BY DEF ClientCommands, Follows
  <2>2. l1.settings = r.settings BY <1>6
  <2> HIDE DEF l1
  <2> QED BY <2>1, <2>2
<1> HIDE DEF l1
<1>9. v \in Numbers(Settings) BY DEF States
<1> HIDE DEF v
<1>10. n \in States BY ONLY <1>6, <1>7, <1>9 DEF States
<1>11. /\ n.epoch = l1.epoch /\ n.ack = l1.ack /\ n.character = l1.character
       /\ n.stage = l1.stage /\ n.serial = l1.serial /\ n.command = l1.command
       /\ n.revision = l1.revision /\ n.commandAck = l1.commandAck /\ n.settings = v
  BY ONLY <1>6, <1>7 DEF States
<1> QED BY <1>6, <1>10, <1>11 DEF v

\* The fields of a side after a frame of the menu, for both sides in one.
Own(s) == Takes(s, ReadScreen(s))
Theirs(s) == s = Host /\ HostHears

LEMMA StepFacts ==
    ASSUME IInv, NEW s \in Sides, Step(s)
    PROVE  /\ \A t \in Sides : t # s => local'[t] = local[t]
           /\ local' \in [Sides -> States]
           /\ local'[s].epoch = local[s].epoch
           /\ local'[s].ack = Known(s).revision
           /\ local'[s].character = screen[s].character
           /\ local'[s].stage = screen[s].stage
           /\ local'[s].serial = local[s].serial + One(s = Client /\ Own(s))
           /\ local'[s].command = IF s = Client /\ Own(s) THEN queued[s] ELSE local[s].command
           /\ local'[s].commandAck = IF Theirs(s) THEN Known(s).serial ELSE local[s].commandAck
           /\ local'[s].revision = local[s].revision
                 + One(local[s].character = 0 /\ screen[s].character # 0)
                 + One(local[s].stage = 0 /\ screen[s].stage # 0)
                 + One(Own(s)) + One(Theirs(s))
           /\ s = Host =>
                 local'[s].settings = IF Theirs(s) THEN Known(s).command
                                      ELSE IF Own(s) THEN queued[s] ELSE settings[s]
           /\ s = Client =>
                 local'[s].settings = IF Known(s).epoch # 0 THEN Known(s).settings
                                      ELSE local[s].settings
           /\ settings' = [settings EXCEPT ![s] =
                              IF s = Host \/ Known(s).epoch # 0 THEN local'[s].settings ELSE @]
           /\ queued' = [queued EXCEPT ![s] = 0]
           /\ pending'[s] \in {0, pending[s]} /\ pending' = [pending EXCEPT ![s] = pending'[s]]
           /\ released' = [released EXCEPT ![s] =
                             \/ @
                             \/ /\ PeerHasFinal(local'[s], Known(s))
                                /\ (IF s = Host THEN local'[s].stage ELSE Known(s).stage) # 0
                                /\ SettingsReady(s, local'[s], Known(s))]
           /\ UNCHANGED <<session, screen, requested, peer, plan, net>>
<1> DEFINE p == Known(s)
           r == ReadScreen(s)
           l1 == IF s = Host THEN HostCommands(r, p) ELSE ClientCommands(r, p)
           n == [l1 EXCEPT !.ack = p.revision]
<1>0. local \in [Sides -> States] /\ pending \in [Sides -> Numbers(Settings)] BY DEF IInv, Types
<1>1. /\ local' = [local EXCEPT ![s] = n]
      /\ queued' = [queued EXCEPT ![s] = 0]
      /\ pending' = [pending EXCEPT ![s] = IF CommandOver(s, n, p) THEN 0 ELSE @]
      /\ settings' = [settings EXCEPT ![s] = IF s = Host \/ p.epoch # 0 THEN n.settings ELSE @]
      /\ released' = [released EXCEPT ![s] =
                        \/ @
                        \/ /\ PeerHasFinal(n, p)
                           /\ (IF s = Host THEN n.stage ELSE p.stage) # 0
                           /\ SettingsReady(s, n, p)]
      /\ UNCHANGED <<session, screen, requested, peer, plan, net>>
  BY DEF Step
<1>2. /\ l1 \in States /\ l1.epoch = r.epoch
      /\ l1.character = r.character /\ l1.stage = r.stage
      /\ l1.serial = r.serial + One(s = Client /\ Own(s))
      /\ l1.command = IF s = Client /\ Own(s) THEN queued[s] ELSE r.command
      /\ l1.commandAck = IF Theirs(s) THEN p.serial ELSE r.commandAck
      /\ l1.revision = r.revision + One(Own(s)) + One(Theirs(s))
      /\ s = Host => l1.settings = IF Theirs(s) THEN p.command
                                   ELSE IF Own(s) THEN queued[s] ELSE settings[s]
      /\ s = Client => l1.settings = IF p.epoch # 0 THEN p.settings ELSE r.settings
  <2>0. r \in States BY ScreenFacts
  <2>1. CASE s = Host
    <3>1. s # Client /\ (Own(s) <=> HostTakes) /\ (Theirs(s) <=> HostHears) /\ One(FALSE) = 0
      BY <2>1, Named DEF Own, Theirs, HostTakes, One
    <3>2. l1 = HostCommands(ReadScreen(Host), Known(Host)) /\ r = ReadScreen(Host)
          /\ p = Known(Host)
      BY <2>1
    <3> HIDE DEF l1, r, p
    <3>3. r.serial + One(s = Client /\ Own(s)) = r.serial
      <4>1. One(s = Client /\ Own(s)) = 0 BY <3>1 DEF One
      <4> QED BY <4>1, <2>0 DEF States
    <3>4. One(HostTakes) = One(Own(s)) /\ One(HostHears) = One(Theirs(s)) BY <3>1 DEF One
    <3> QED BY <2>1, <3>1, <3>2, <3>3, <3>4, HostFacts
  <2>2. CASE s = Client
    <3>1. s # Host /\ (Own(s) <=> ClientTakes) /\ ~Theirs(s)
      BY <2>2, Named DEF Own, Theirs, ClientTakes
    <3>2. l1 = ClientCommands(ReadScreen(Client), Known(Client)) /\ r = ReadScreen(Client)
          /\ p = Known(Client)
      BY <2>2, <3>1
    <3> HIDE DEF l1, r, p
    <3>3. /\ One(s = Client /\ Own(s)) = One(ClientTakes) /\ One(Own(s)) = One(ClientTakes)
          /\ One(Theirs(s)) = 0 /\ One(ClientTakes) \in Int
      BY <2>2, <3>1 DEF One
    <3>4. r.revision + One(ClientTakes) + 0 = r.revision + One(ClientTakes)
      BY <3>3, <2>0 DEF States
    <3> QED BY <2>2, <3>1, <3>2, <3>3, <3>4, ClientFacts
  <2> QED BY <2>1, <2>2, Named
<1> HIDE DEF l1, r, p
<1>3. p.revision \in Nat /\ p = Known(s) BY KnownFacts DEF p
<1>4. n \in States BY ONLY <1>2, <1>3 DEF States
<1>5. /\ n.epoch = l1.epoch /\ n.ack = p.revision /\ n.character = l1.character
      /\ n.stage = l1.stage /\ n.serial = l1.serial /\ n.command = l1.command
      /\ n.revision = l1.revision /\ n.commandAck = l1.commandAck /\ n.settings = l1.settings
  BY ONLY <1>2 DEF States
<1> HIDE DEF n
<1>6. local'[s] = n /\ local' \in [Sides -> States] /\ \A t \in Sides : t # s
      => local'[t] = local[t]
  BY <1>0, <1>1, <1>4
<1>7. /\ r.epoch = local[s].epoch /\ r.character = screen[s].character /\ r.stage = screen[s].stage
      /\ r.serial = local[s].serial /\ r.command = local[s].command
      /\ r.commandAck = local[s].commandAck /\ r.settings = local[s].settings
      /\ r.revision = local[s].revision
            + One(local[s].character = 0 /\ screen[s].character # 0)
            + One(local[s].stage = 0 /\ screen[s].stage # 0)
  BY ScreenFacts DEF r
<1>8. pending'[s] \in {0, pending[s]} /\ pending' = [pending EXCEPT ![s] = pending'[s]]
  BY <1>0, <1>1
<1> QED BY <1>1, <1>2, <1>3, <1>5, <1>6, <1>7, <1>8

\* What was said before what was said before was said before.
LEMMA EarlierTrans ==
    ASSUME NEW s, NEW x \in States, NEW l \in States, NEW n \in States,
           Earlier(s, x, l), Earlier(s, l, n)
    PROVE  Earlier(s, x, n)
<1>0. /\ x.epoch \in Int /\ l.epoch \in Int /\ n.epoch \in Int
      /\ x.revision \in Nat /\ l.revision \in Nat /\ n.revision \in Nat
      /\ x.ack \in Nat /\ l.ack \in Nat /\ n.ack \in Nat
      /\ x.serial \in Nat /\ l.serial \in Nat /\ n.serial \in Nat
      /\ x.commandAck \in Nat /\ l.commandAck \in Nat /\ n.commandAck \in Nat
  BY ConstantsAssumption DEF States
<1>1. x.epoch <= n.epoch BY <1>0 DEF Earlier
<1> SUFFICES ASSUME x.epoch = n.epoch
             PROVE  /\ x.revision <= n.revision /\ x.ack <= n.ack
                    /\ x.character \in {0, n.character} /\ x.stage \in {0, n.stage}
                    /\ x.serial <= n.serial /\ x.commandAck <= n.commandAck
                    /\ x.revision = n.revision => Same(s, x, n)
                    /\ Final(s, x, n) => x.revision = n.revision
  BY <1>1 DEF Earlier
<1>2. x.epoch = l.epoch /\ l.epoch = n.epoch BY <1>0 DEF Earlier
<1>3. /\ x.revision <= l.revision /\ x.ack <= l.ack
      /\ x.character \in {0, l.character} /\ x.stage \in {0, l.stage}
      /\ x.serial <= l.serial /\ x.commandAck <= l.commandAck
      /\ x.revision = l.revision => Same(s, x, l)
      /\ Final(s, x, l) => x.revision = l.revision
  BY <1>2 DEF Earlier
<1>4. /\ l.revision <= n.revision /\ l.ack <= n.ack
      /\ l.character \in {0, n.character} /\ l.stage \in {0, n.stage}
      /\ l.serial <= n.serial /\ l.commandAck <= n.commandAck
      /\ l.revision = n.revision => Same(s, l, n)
      /\ Final(s, l, n) => l.revision = n.revision
  BY <1>2 DEF Earlier
<1>5. ASSUME x.revision = n.revision PROVE Same(s, x, n)
  <2>1. x.revision = l.revision /\ l.revision = n.revision BY <1>0, <1>3, <1>4, <1>5
  <2> QED BY <2>1, <1>3, <1>4 DEF Same
<1>6. ASSUME Final(s, x, n) PROVE x.revision = n.revision
  <2>1. s = Host => x.commandAck = l.commandAck /\ l.commandAck = n.commandAck
    BY <1>0, <1>3, <1>4, <1>6 DEF Final
  <2>2. Final(s, x, l) BY <2>1, <1>6 DEF Final
  <2>3. x.revision = l.revision /\ Same(s, x, l) BY <2>2, <1>3
  <2>4. Final(s, l, n) BY <2>1, <2>3, <1>6 DEF Final, Same
  <2> QED BY <2>3, <2>4, <1>4
<1> QED BY <1>0, <1>3, <1>4, <1>5, <1>6

\* Nobody is in a later menu than one who has not left.
LEMMA NotAhead ==
    ASSUME IInv, NEW s \in Sides, InMenu(s)
    PROVE  /\ local[s].epoch \in 1 .. Menus /\ local[Other(s)].epoch <= local[s].epoch
           /\ plan[local[s].epoch][s] = None
<1>1. Other(s) \in Sides BY Pair
<1>2. local[s].epoch \in 1 .. Menus /\ plan[local[s].epoch][s] = None BY Fields DEF InMenu
<1>3. ~(local[s].epoch < local[Other(s)].epoch) BY <1>1, <1>2 DEF IInv, Order
<1> QED BY <1>1, <1>2, <1>3, Fields

\* What is heard of the peer in this menu is from its present menu.
LEMMA HeardNow ==
    ASSUME IInv, NEW s \in Sides, InMenu(s), NEW o, o = Other(s), Known(s).epoch # 0
    PROVE  /\ Known(s) = peer[s] /\ peer[s].epoch = local[s].epoch
           /\ local[o].epoch = local[s].epoch
           /\ Earlier(o, Known(s), local[o]) /\ Known(s).epoch = local[o].epoch
<1>1. o \in Sides BY Pair
<1>2. Known(s) = peer[s] /\ peer[s].epoch = local[s].epoch BY KnownFacts
<1>3. Earlier(o, peer[s], local[o]) BY DEF IInv, Knowledge
<1>4. local[o].epoch <= local[s].epoch /\ peer[s].epoch <= local[o].epoch
  BY <1>3, NotAhead DEF Earlier
<1>5. local[o].epoch \in Int /\ local[s].epoch \in Int BY <1>1, Fields
<1> QED BY <1>2, <1>3, <1>4, <1>5

\* A frame adds to what a side has said and takes nothing back.
LEMMA StepGrows ==
    ASSUME IInv, NEW s \in Sides, Step(s)
    PROVE  Earlier(s, local[s], local'[s])
<1> DEFINE l == local[s]
           n == local'[s]
           a == One(local[s].character = 0 /\ screen[s].character # 0)
           b == One(local[s].stage = 0 /\ screen[s].stage # 0)
           c == One(Own(s))
           d == One(Theirs(s))
<1>0. InMenu(s) BY DEF Step
<1>1. /\ l \in States /\ n \in States /\ n.epoch = l.epoch
      /\ l.revision \in Nat /\ l.ack \in Nat /\ l.serial \in Nat /\ l.commandAck \in Nat
  BY StepFacts, Fields
<1>2. a \in {0, 1} /\ b \in {0, 1} /\ c \in {0, 1} /\ d \in {0, 1} BY DEF One
<1>3. n.revision = l.revision + a + b + c + d BY StepFacts
<1>4. l.ack <= n.ack
  <2> SUFFICES ASSUME l.ack # 0 PROVE l.ack <= n.ack
    BY <1>1, StepFacts, KnownFacts
  <2>1. peer[s].epoch > l.epoch \/ (peer[s].epoch = l.epoch /\ l.ack <= peer[s].revision)
    BY DEF IInv, Acks
  <2>2. Other(s) \in Sides /\ Earlier(Other(s), peer[s], local[Other(s)])
    BY Pair DEF IInv, Knowledge
  <2>3. peer[s].epoch <= l.epoch
    BY <2>2, <1>0, NotAhead, Fields DEF Earlier
  <2>4. peer[s].epoch = l.epoch /\ l.ack <= peer[s].revision BY <2>1, <2>3, Fields
  <2>5. Known(s) = peer[s] BY <2>4 DEF Known
  <2> QED BY <2>4, <2>5, StepFacts
<1>5. l.character \in {0, n.character} /\ l.stage \in {0, n.stage}
  BY StepFacts DEF IInv, Chosen
<1>6. l.serial <= n.serial
  <2>1. One(s = Client /\ Own(s)) \in {0, 1} BY DEF One
  <2>2. n.serial = l.serial + One(s = Client /\ Own(s)) BY StepFacts
  <2> QED BY <2>1, <2>2, <1>1
<1>7. l.commandAck <= n.commandAck
  <2>1. n.commandAck = IF Theirs(s) THEN Known(s).serial ELSE l.commandAck BY StepFacts
  <2>2. Theirs(s) => Known(s).serial > l.commandAck BY DEF Theirs, HostHears
  <2> QED BY <2>1, <2>2, <1>1, KnownFacts
\* Without a new revision nothing is new.
<1>8. ASSUME l.revision = n.revision PROVE Same(s, l, n)
  <2> HIDE DEF a, b, c, d
  <2>1. a = 0 /\ b = 0 /\ c = 0 /\ d = 0
    BY <1>1, <1>2, <1>3, <1>8
  <2>2. ~Own(s) /\ ~Theirs(s) BY <2>1 DEF c, d, One
  <2>3. ~(l.character = 0 /\ screen[s].character # 0) /\ ~(l.stage = 0 /\ screen[s].stage # 0)
    BY <2>1 DEF a, b, One
  <2>4. l.character = n.character /\ l.stage = n.stage
    BY <2>3, StepFacts DEF IInv, Chosen
  <2>5. n.serial = l.serial + 0 /\ n.commandAck = l.commandAck
    <3>1. One(s = Client /\ Own(s)) = 0 BY <2>2 DEF One
    <3> QED BY <3>1, <2>2, StepFacts
  <2>6. s = Host => n.settings = settings[s] BY <2>2, StepFacts
  <2>7. l.settings = settings[s] BY <1>0, NotAhead DEF IInv, Chosen
  <2> QED BY <2>4, <2>5, <2>6, <2>7, <1>1 DEF Same
\* Who has chosen says nothing more, but for the commands of the peer.
<1>9. ASSUME Final(s, l, n) PROVE l.revision = n.revision
  <2>1. l.character # 0 /\ l.character = screen[s].character
    BY <1>9 DEF Final, IInv, Chosen
  <2>2. a = 0 BY <2>1 DEF One
  <2>3. b = 0
    <3>1. s = Host => l.stage # 0 BY <1>9 DEF Final
    <3>2. s = Client => screen[s].stage = 0 BY DEF IInv, Counts
    <3> QED BY <3>1, <3>2, Named DEF One
  <2>4. c = 0
    <3>1. ReadScreen(s).character = screen[s].character BY ScreenFacts
    <3>2. ~Own(s) BY <3>1, <2>1 DEF Own, Takes
    <3> QED BY <3>2 DEF One
  <2>5. d = 0
    <3> SUFFICES ASSUME Theirs(s) PROVE FALSE
      BY DEF One
    <3>1. s = Host /\ Known(s).serial > l.commandAck BY DEF Theirs, HostHears
    <3>2. n.commandAck = Known(s).serial BY StepFacts
    <3>3. l.commandAck = n.commandAck BY <3>1, <1>9 DEF Final
    <3> QED BY <3>1, <3>2, <3>3, <1>1
  <2> HIDE DEF a, b, c, d
  <2> QED BY <2>2, <2>3, <2>4, <2>5, <1>1, <1>3
<1>10. l.revision <= n.revision
  <2> HIDE DEF a, b, c, d
  <2> QED BY <1>1, <1>2, <1>3
<1> HIDE DEF a, b, c, d
<1>11. l.epoch <= n.epoch BY <1>1, Fields
<1> QED BY <1>11, <1>1, <1>4, <1>5, <1>6, <1>7, <1>8, <1>9, <1>10 DEF Earlier

\* A frame does not change what is finished.
LEMMA FinishedStays ==
    ASSUME IInv, NEW s \in Sides, Step(s), Finished, local[s].epoch # 0
    PROVE  /\ Same(s, local[s], local'[s]) /\ local'[s].revision = local[s].revision
           /\ Finished' /\ Agreed' = Agreed
<1> DEFINE l == local[s]
           n == local'[s]
<1>0. InMenu(s) BY DEF Step
<1>1. Earlier(s, l, n) /\ l.epoch = n.epoch BY StepGrows, StepFacts
<1>2. \A t \in Sides : t # s => local'[t] = local[t] BY StepFacts
<1>3. Final(s, l, n)
  <2>1. CASE s = Client BY <2>1, Named DEF Final, Finished
  <2>2. CASE s = Host
    <3>1. ~Theirs(s)
      <4> SUFFICES ASSUME Theirs(s) PROVE FALSE
        OBVIOUS
      <4>1. Known(Host).serial > local[Host].commandAck BY DEF Theirs, HostHears
      <4>2. Known(Host) = peer[Host] BY <4>1, Named, Fields, KnownFacts
      <4>3. peer[Host].epoch = local[Host].epoch BY <4>1, Named, Fields, KnownFacts
      <4>4. Known(Host).epoch # 0 BY <2>2, <4>2, <4>3
      <4>5. Earlier(Client, Known(Host), local[Client]) /\ Known(Host).epoch = local[Client].epoch
        BY <4>4, <2>2, <1>0, HeardNow, Named
      <4>6. Known(Host).serial <= local[Client].serial BY <4>5 DEF Earlier
      <4> QED BY <4>1, <4>6, Named, Fields, KnownFacts DEF Finished
    <3>2. n.commandAck = l.commandAck BY <3>1, StepFacts
    <3> QED BY <3>2, <2>2 DEF Final, Finished
  <2> QED BY <2>1, <2>2, Named
<1>4. Same(s, l, n) /\ l.revision = n.revision
  BY <1>1, <1>3 DEF Earlier
<1>5. s = Client => n.ack = l.ack
  <2> SUFFICES ASSUME s = Client PROVE n.ack = l.ack
    OBVIOUS
  <2>1. l.ack = local[Host].revision /\ local[Host].epoch = l.epoch BY DEF Finished
  <2>2. l.ack # 0 BY <2>1, Named, Fields DEF Sound
  <2>3. l.ack <= n.ack /\ n.ack = Known(s).revision BY <1>1, StepFacts DEF Earlier
  <2>4. Known(s).revision # 0 BY <2>2, <2>3, Fields, KnownFacts
  <2>5. Known(s).epoch # 0 BY <2>4, KnownFacts
  <2>6. Earlier(Host, Known(s), local[Host]) /\ Known(s).epoch = local[Host].epoch
    BY <2>5, <1>0, HeardNow, Named
  <2>7. Known(s).revision <= local[Host].revision BY <2>6 DEF Earlier
  <2> QED BY <2>1, <2>3, <2>7, Named, Fields, KnownFacts
<1>6. CASE s = Host
  <2>1. local'[Client] = local[Client] /\ Same(Host, local[Host], local'[Host])
        /\ local'[Host].revision = local[Host].revision /\ local'[Host].epoch = local[Host].epoch
    BY <1>6, <1>1, <1>2, <1>4, Named
  <2>2. Finished' BY <2>1 DEF Same, Finished
  <2>3. Agreed' = Agreed BY <2>1 DEF Same, Agreed
  <2> QED BY <2>2, <2>3, <1>4
<1>7. CASE s = Client
  <2>1. local'[Host] = local[Host] /\ Same(Client, local[Client], local'[Client])
        /\ local'[Client].epoch = local[Client].epoch /\ local'[Client].ack = local[Client].ack
    BY <1>7, <1>1, <1>2, <1>4, <1>5, Named
  <2>2. Finished' BY <2>1 DEF Same, Finished
  <2>3. Agreed' = Agreed BY <2>1 DEF Same, Agreed
  <2> QED BY <2>2, <2>3, <1>4
<1> QED BY <1>6, <1>7, Named

\* Who is released in a frame knows that nothing is left to be said: the peer has
\* acknowledged what the side says after this frame, so the frame has added nothing
\* the peer could still act on.
LEMMA HostReleased ==
    ASSUME IInv, Step(Host), PeerHasFinal(local'[Host], Known(Host)), local'[Host].stage # 0
    PROVE  /\ Finished' /\ peer[Host].epoch = local'[Host].epoch /\ peer[Host].character # 0
<1> DEFINE l == local[Host]
           n == local'[Host]
           k == local[Client]
           p == Known(Host)
<1>0. InMenu(Host) /\ l.epoch # 0 BY DEF Step, InMenu, IInv, Types, States
<1>1. /\ p.epoch = n.epoch /\ n.character # 0 /\ p.character # 0 /\ p.ack >= n.revision
  BY DEF PeerHasFinal
<1>2. n.epoch = l.epoch /\ local'[Client] = k /\ Earlier(Host, l, n)
  BY StepFacts, StepGrows, Named
<1>3. p = peer[Host] /\ k.epoch = l.epoch /\ Earlier(Client, p, k) /\ p.epoch = k.epoch
  BY <1>0, <1>1, <1>2, HeardNow, Named
<1>4. p.ack <= k.ack /\ p.character = k.character /\ p.revision = k.revision /\ p.serial = k.serial
  <2>1. Final(Client, p, k) BY <1>1, Named DEF Final
  <2> QED BY <2>1, <1>1, <1>3 DEF Earlier, Same
<1>5. /\ l.revision \in Nat /\ n.revision \in Nat /\ k.ack \in Nat /\ p.ack \in Nat
      /\ l.revision # 0 /\ l.revision <= n.revision
      /\ l.commandAck \in Nat /\ k.serial \in Nat /\ n \in States
  <2>1. n \in States BY StepFacts, Named
  <2>2. l.revision # 0 BY <1>0, Fields, Named DEF Sound
  <2>3. l.revision <= n.revision BY <1>2 DEF Earlier
  <2>4. n.revision \in Nat BY <2>1 DEF States
  <2> QED BY <2>1, <2>2, <2>3, <2>4, Fields, KnownFacts, Named
<1>6. k.ack <= l.revision
  <2>1. k.ack # 0 BY <1>1, <1>4, <1>5
  <2>2. \/ peer[Client].epoch > k.epoch
        \/ peer[Client].epoch = k.epoch /\ k.ack <= peer[Client].revision
    BY <2>1, Named DEF IInv, Acks
  <2>3. Earlier(Host, peer[Client], l) BY Named DEF IInv, Knowledge
  <2>4. peer[Client].epoch = l.epoch /\ k.ack <= peer[Client].revision
    BY <2>2, <2>3, <1>3, Fields, Named DEF Earlier
  <2>5. peer[Client].revision <= l.revision BY <2>3, <2>4 DEF Earlier
  <2> QED BY <2>4, <2>5, Fields, Named
<1>7. n.revision = l.revision /\ k.ack = n.revision
  BY <1>1, <1>4, <1>5, <1>6
<1>8. Same(Host, l, n) BY <1>2, <1>7 DEF Earlier
<1>9. n.commandAck = k.serial
  <2>1. l.commandAck <= k.serial BY <1>3 DEF IInv, Commands
  <2>2. n.commandAck = l.commandAck BY <1>8 DEF Same
  <2>3. ~released[Host]  \/ released[Host]
    OBVIOUS
  <2>4. CASE released[Host]
    <3>1. Finished BY <2>4, <1>0, <1>3, Fields, Named DEF IInv, Releases
    <3> QED BY <3>1, <2>2 DEF Finished
  <2>5. CASE ~released[Host]
    <3>1. ~Theirs(Host)
      <4> SUFFICES ASSUME Theirs(Host) PROVE FALSE
        OBVIOUS
      <4>1. n.commandAck = p.serial /\ p.serial > l.commandAck
        BY StepFacts, Named DEF Theirs, HostHears
      <4> QED BY <4>1, <2>2, <1>5
    <3>2. ~(p.serial > l.commandAck) BY <3>1, <2>5 DEF Theirs, HostHears
    <3> QED BY <3>2, <2>1, <2>2, <1>4, <1>5
  <2> QED BY <2>4, <2>5
<1>10. Finished' BY <1>1, <1>2, <1>3, <1>4, <1>7, <1>9 DEF Finished
<1> QED BY <1>1, <1>3, <1>10

LEMMA ClientReleased ==
    ASSUME IInv, Step(Client), PeerHasFinal(local'[Client], Known(Client)), Known(Client).stage # 0,
           SettingsReady(Client, local'[Client], Known(Client))
    PROVE  /\ Finished' /\ peer[Client].epoch = local'[Client].epoch /\ peer[Client].character # 0
<1> DEFINE l == local[Client]
           n == local'[Client]
           h == local[Host]
           p == Known(Client)
<1>0. InMenu(Client) /\ l.epoch # 0 BY DEF Step, InMenu, IInv, Types, States
<1>1. /\ p.epoch = n.epoch /\ n.character # 0 /\ p.character # 0
      /\ n.serial = 0 \/ p.commandAck = n.serial
  BY Named DEF PeerHasFinal, SettingsReady
<1>2. n.epoch = l.epoch /\ local'[Host] = h /\ Earlier(Client, l, n) /\ n.ack = p.revision
  BY StepFacts, StepGrows, Named
<1>3. p = peer[Client] /\ h.epoch = l.epoch /\ Earlier(Host, p, h) /\ p.epoch = h.epoch
  BY <1>0, <1>1, <1>2, HeardNow, Named
<1>4. /\ n \in States /\ n.serial \in Nat /\ l.serial \in Nat /\ h.commandAck \in Nat
      /\ p.commandAck \in Nat
  <2>1. n \in States BY StepFacts, Named
  <2>2. n.serial \in Nat BY <2>1 DEF States
  <2> QED BY <2>1, <2>2, Fields, KnownFacts, Named
<1>5. /\ p.commandAck <= h.commandAck /\ h.commandAck <= l.serial /\ l.serial <= n.serial
  BY <1>2, <1>3 DEF Earlier, IInv, Commands
<1>6. p.commandAck = h.commandAck /\ h.commandAck = n.serial
  BY <1>1, <1>4, <1>5
<1>7. Final(Host, p, h) BY <1>1, <1>6 DEF Final
<1>8. p.revision = h.revision /\ Same(Host, p, h) BY <1>3, <1>7 DEF Earlier
<1>9. Finished' BY <1>1, <1>2, <1>3, <1>6, <1>8 DEF Finished, Same
<1> QED BY <1>1, <1>3, <1>9

LEMMA StepTypes == ASSUME IInv, NEW s \in Sides, Step(s) PROVE Types'
<1> DEFINE n == local'[s]
           p == Known(s)
<1>0. InMenu(s) /\ local[s].epoch # 0 BY DEF Step, InMenu, IInv, Types, States
<1>1. /\ p \in States /\ Sound(p) /\ p.serial \in Nat /\ local[s].commandAck \in Nat
      /\ Sound(local[s]) /\ settings[s] \in Settings /\ settings[s] # 0
      /\ queued[s] \in Numbers(Settings) /\ local[s].serial \in Nat /\ local[s].revision \in Nat
  BY KnownFacts, Fields DEF IInv, Types
<1>2. n \in States /\ n.epoch = local[s].epoch /\ \A t \in Sides : t # s => local'[t] = local[t]
  BY StepFacts
<1>3. Own(s) => queued[s] # 0 BY DEF Own, Takes
<1>4. Theirs(s) => p.command # 0
  <2> SUFFICES ASSUME Theirs(s) PROVE p.command # 0
    OBVIOUS
  <2>1. p.serial > local[s].commandAck BY DEF Theirs, HostHears
  <2> QED BY <2>1, <1>1 DEF Sound
<1>5. n.settings # 0
  <2>1. CASE s = Host
    <3>1. n.settings = IF Theirs(s) THEN p.command ELSE IF Own(s) THEN queued[s] ELSE settings[s]
      BY <2>1, StepFacts
    <3> QED BY <3>1, <1>1, <1>3, <1>4
  <2>2. CASE s = Client
    <3>1. n.settings = IF p.epoch # 0 THEN p.settings ELSE local[s].settings
      BY <2>2, StepFacts
    <3> QED BY <3>1, <1>0, <1>1 DEF Sound
  <2> QED BY <2>1, <2>2, Named
<1>6. n.serial # 0 => n.command # 0
  <2>1. n.serial = local[s].serial + One(s = Client /\ Own(s)) BY StepFacts
  <2>2. n.command = IF s = Client /\ Own(s) THEN queued[s] ELSE local[s].command BY StepFacts
  <2>3. CASE s = Client /\ Own(s) BY <2>2, <2>3, <1>3
  <2>4. CASE ~(s = Client /\ Own(s))
    <3>1. One(s = Client /\ Own(s)) = 0 BY <2>4 DEF One
    <3>2. n.serial = local[s].serial BY <2>1, <3>1, <1>1
    <3> QED BY <3>2, <2>2, <2>4, <1>1 DEF Sound
  <2> QED BY <2>3, <2>4
<1>7. n.revision # 0
  <2>1. Earlier(s, local[s], n) BY StepGrows
  <2>2. local[s].revision # 0 /\ local[s].revision <= n.revision BY <2>1, <1>0, <1>1, <1>2
        DEF Earlier, Sound
  <2> QED BY <2>2, <1>1, <1>2
<1>8. \A t \in Sides : Sound(local'[t])
  <2>1. Sound(n) BY <1>2, <1>5, <1>6, <1>7 DEF Sound
  <2> QED BY <2>1, <1>2, Fields
<1>9. settings' \in [Sides -> Settings]
  <2>1. n.settings \in Settings BY <1>2, <1>5 DEF States, Numbers
  <2>2. settings' = [settings EXCEPT ![s] = IF s = Host \/ p.epoch # 0 THEN n.settings ELSE @]
    BY StepFacts
  <2>3. settings \in [Sides -> Settings] BY DEF IInv, Types
  <2> HIDE DEF n, p
  <2> QED BY <2>1, <2>2, <2>3
<1>10. queued' \in [Sides -> Numbers(Settings)]
  BY StepFacts DEF IInv, Types, Numbers
<1>11. pending' \in [Sides -> Numbers(Settings)]
  <2> SUFFICES ASSUME NEW v, v = pending'[s] PROVE pending' \in [Sides -> Numbers(Settings)]
    OBVIOUS
  <2>1. v \in {0, pending[s]} /\ pending' = [pending EXCEPT ![s] = v] BY StepFacts
  <2>2. pending \in [Sides -> Numbers(Settings)] BY DEF IInv, Types
  <2>3. v \in Numbers(Settings) BY <2>1, <2>2 DEF Numbers
  <2> QED BY <2>1, <2>2, <2>3
<1>12. released' \in [Sides -> BOOLEAN]
  <2> DEFINE D == /\ PeerHasFinal(n, p)
                  /\ (IF s = Host THEN n.stage ELSE p.stage) # 0
                  /\ SettingsReady(s, n, p)
  <2>1. released' = [released EXCEPT ![s] = @ \/ D] BY StepFacts
  <2>2. released \in [Sides -> BOOLEAN] BY DEF IInv, Types
  <2> HIDE DEF D
  <2>3. (released[s] \/ D) \in BOOLEAN
    <3>1. CASE released[s] \/ D BY <3>1
    <3>2. CASE ~(released[s] \/ D) BY <3>2
    <3> QED BY <3>1, <3>2
  <2> QED BY <2>1, <2>2, <2>3
<1> QED BY <1>8, <1>9, <1>10, <1>11, <1>12, StepFacts DEF IInv, Types

LEMMA StepCounts == ASSUME IInv, NEW s \in Sides, Step(s) PROVE Counts'
<1> DEFINE l == local[s]
           n == local'[s]
           a == One(local[s].character = 0 /\ screen[s].character # 0)
           b == One(local[s].stage = 0 /\ screen[s].stage # 0)
           c == One(Own(s))
           d == One(Theirs(s))
           q == One(queued[s] # 0)
           C == One(local[s].character # 0)
           G == One(local[s].stage # 0)
<1>0. InMenu(s) BY DEF Step
<1>1. \A t \in Sides : t # s => local'[t] = local[t] /\ queued'[t] = queued[t]
  BY StepFacts DEF IInv, Types
<1>2. UNCHANGED <<session, screen, requested>> /\ queued'[s] = 0 BY StepFacts DEF IInv, Types
<1>3. /\ l.revision \in Nat /\ l.serial \in Nat /\ l.commandAck \in Nat
      /\ requested[s] \in Nat /\ session.requests \in Nat /\ requested[s] <= session.requests
      /\ Known(s).serial \in Nat
  <2>1. session.requests \in Nat BY Agenda DEF IInv, Types
  <2>2. requested[s] \in 0 .. session.requests BY DEF IInv, Types
  <2> QED BY <2>1, <2>2, Fields, KnownFacts
<1>4. a \in {0, 1} /\ b \in {0, 1} /\ c \in {0, 1} /\ d \in {0, 1} /\ q \in {0, 1}
      /\ C \in {0, 1} /\ G \in {0, 1}
  BY DEF One
<1>5. /\ l.revision <= 1 + C + G + (requested[s] - q) + l.commandAck
      /\ 0 <= requested[s] - q /\ l.serial <= requested[s] - q /\ l.commandAck <= session.requests
  BY DEF IInv, Counts
<1>6. n.revision = l.revision + a + b + c + d BY StepFacts
<1>7. c <= q
  <2>1. Own(s) => queued[s] # 0 BY DEF Own, Takes
  <2> QED BY <2>1 DEF One
<1>8. One(n.character # 0) = C + a /\ One(n.stage # 0) = G + b
  <2>1. /\ n.character = screen[s].character /\ n.stage = screen[s].stage
        /\ l.character \in {0, n.character} /\ l.stage \in {0, n.stage}
    BY StepFacts DEF IInv, Chosen
  <2> QED BY <2>1 DEF One
<1>9. l.commandAck + d <= n.commandAck /\ n.commandAck <= session.requests
  <2>1. n.commandAck = IF Theirs(s) THEN Known(s).serial ELSE l.commandAck BY StepFacts
  <2>2. CASE ~Theirs(s)
    <3>1. d = 0 BY <2>2 DEF One
    <3> HIDE DEF d, l, n
    <3>2. n.commandAck = l.commandAck BY <2>1, <2>2
    <3> QED BY <3>1, <3>2, <1>3, <1>5
  <2>3. CASE Theirs(s)
    <3>1. d = 1 BY <2>3 DEF One
    <3>2. s = Host /\ Known(s).serial > l.commandAck BY <2>3 DEF Theirs, HostHears
    <3>3. Known(s).epoch # 0
      <4>1. Known(s).serial # 0 BY <3>2, <1>3
      <4>2. Known(s) = peer[s] /\ peer[s].epoch = local[s].epoch BY <4>1, KnownFacts
      <4> QED BY <4>2, <1>0, NotAhead
    <3>4. Known(s).serial <= local[Client].serial
      BY <3>2, <3>3, <1>0, HeardNow, Named DEF Earlier
    <3>5. /\ local[Client].serial <= requested[Client] - One(queued[Client] # 0)
      BY Named DEF IInv, Counts
    <3>6. requested[Client] \in 0 .. session.requests /\ One(queued[Client] # 0) \in {0, 1}
          /\ local[Client].serial \in Nat
      BY Named, Fields DEF One, IInv, Types
    <3>7. n.commandAck = Known(s).serial BY <2>1, <2>3
    <3> HIDE DEF d, l, n
    <3> QED BY <3>1, <3>2, <3>4, <3>5, <3>6, <3>7, <1>3
  <2> QED BY <2>2, <2>3
<1>10. n.serial <= requested[s]
  <2>1. n.serial = l.serial + One(s = Client /\ Own(s)) BY StepFacts
  <2>2. One(s = Client /\ Own(s)) \in {0, 1} /\ One(s = Client /\ Own(s)) <= c BY DEF One
  <2> HIDE DEF l, n, c, q
  <2> QED BY <2>1, <2>2, <1>3, <1>4, <1>5, <1>7
<1>11. n.revision \in Nat /\ n.commandAck \in Nat
  <2>1. n \in States BY StepFacts
  <2> QED BY <2>1 DEF States
<1>12. One(queued'[s] # 0) = 0 BY <1>2 DEF One
<1>13. n.revision <= 1 + One(n.character # 0) + One(n.stage # 0) + (requested[s] - 0) + n.commandAck
  <2> SUFFICES ASSUME NEW x, x = One(n.character # 0), NEW y, y = One(n.stage # 0)
               PROVE  n.revision <= 1 + x + y + (requested[s] - 0) + n.commandAck
    OBVIOUS
  <2>1. x = C + a /\ y = G + b BY <1>8
  <2> HIDE DEF l, n, a, b, c, d, q, C, G
  <2> QED BY <2>1, <1>3, <1>4, <1>5, <1>6, <1>7, <1>9, <1>11
<1> SUFFICES ASSUME NEW t \in Sides
             PROVE  LET k == local'[t]
                        taken == requested[t] - One(queued'[t] # 0)
                    IN /\ k.revision <= 1 + One(k.character # 0) + One(k.stage # 0) + taken
                                           + k.commandAck
                       /\ 0 <= taken /\ k.serial <= taken
                       /\ k.commandAck <= session.requests
  BY <1>2 DEF IInv, Counts
<1>14. CASE t # s BY <1>14, <1>1 DEF IInv, Counts
<1>15. CASE t = s
  <2>1. requested[s] - 0 = requested[s] BY <1>3
  <2> HIDE DEF a, b, c, d, q, C, G
  <2> QED BY <2>1, <1>15, <1>3, <1>9, <1>10, <1>12, <1>13
<1> QED BY <1>14, <1>15

LEMMA StepIInv == ASSUME IInv, NEW s \in Sides, Step(s) PROVE IInv'
<1> DEFINE o == Other(s)
           l == local[s]
           n == local'[s]
           p == Known(s)
<1>0. o \in Sides /\ o # s /\ Other(o) = s /\ Other(s) = o /\ \A t \in Sides : t = s \/ t = o
  BY Pair
<1>1. InMenu(s) /\ l.epoch # 0 BY DEF Step, InMenu, IInv, Types, States
<1>2. /\ UNCHANGED <<session, screen, requested, peer, plan, net>>
      /\ local'[o] = local[o] /\ local' \in [Sides -> States]
      /\ n.epoch = l.epoch /\ n.ack = p.revision
      /\ n.character = screen[s].character /\ n.stage = screen[s].stage
      /\ \A t \in Sides : local'[t].epoch = local[t].epoch
  BY <1>0, StepFacts
<1>3. Earlier(s, l, n) /\ l \in States /\ n \in States /\ local[o] \in States
  BY <1>0, <1>2, StepGrows, Fields
<1>4. \A x \in States : Earlier(s, x, l) => Earlier(s, x, n)
  BY <1>3, EarlierTrans
<1> HIDE DEF o
<1>5. Types' BY StepTypes
<1>6. Counts' BY StepCounts
<1>7. Knowledge'
  <2>1. peer[o] \in States /\ Earlier(s, peer[o], l) BY <1>0, Fields DEF IInv, Knowledge
  <2>2. \A t \in Sides : Earlier(Other(t), peer'[t], local'[Other(t)])
    <3> SUFFICES ASSUME NEW t \in Sides PROVE Earlier(Other(t), peer[t], local'[Other(t)])
      BY <1>2
    <3>1. CASE t = o
      <4>1. Earlier(s, peer[o], n) BY <2>1, <1>4
      <4> QED BY <3>1, <4>1, <1>0
    <3>2. CASE t = s
      <4>1. Earlier(o, peer[s], local[o]) BY <1>0 DEF IInv, Knowledge
      <4> QED BY <3>2, <4>1, <1>0, <1>2
    <3> QED BY <3>1, <3>2, <1>0
  <2>3. \A m \in net' : Earlier(m.from, m.state, local'[m.from])
    <3> SUFFICES ASSUME NEW m \in net PROVE Earlier(m.from, m.state, local'[m.from])
      BY <1>2
    <3>1. m.from \in Sides /\ m.state \in States /\ Earlier(m.from, m.state, local[m.from])
      BY DEF IInv, Types, Sound, Knowledge
    <3>2. CASE m.from = s
      <4>1. Earlier(s, m.state, l) BY <3>1, <3>2
      <4>2. Earlier(s, m.state, n) BY <4>1, <3>1, <1>4
      <4> QED BY <3>2, <4>2
    <3>3. CASE m.from = o BY <3>1, <3>3, <1>2
    <3> QED BY <3>1, <3>2, <3>3, <1>0
  <2> QED BY <2>2, <2>3 DEF Knowledge
<1>8. Order' BY <1>2 DEF IInv, Order
<1>9. Acks'
  <2> SUFFICES ASSUME NEW t \in Sides, local'[t].ack # 0
               PROVE  \/ peer[t].epoch > local'[t].epoch
                      \/ peer[t].epoch = local'[t].epoch /\ local'[t].ack <= peer[t].revision
    BY <1>2 DEF Acks
  <2>1. CASE t = o BY <2>1, <1>2 DEF IInv, Acks
  <2>2. CASE t = s
    <3>1. p.revision # 0 BY <2>2, <1>2
    <3>2. p = peer[s] /\ peer[s].epoch = l.epoch BY <3>1, KnownFacts
    <3> QED BY <2>2, <3>2, <1>2, Fields
  <2> QED BY <2>1, <2>2, <1>0
<1>10. Chosen'
  <2> SUFFICES ASSUME NEW t \in Sides
               PROVE  /\ local'[t].character \in {0, screen[t].character}
                      /\ local'[t].stage \in {0, screen[t].stage}
                      /\ local'[t].epoch # 0 => local'[t].settings = settings'[t]
    BY <1>2 DEF Chosen
  <2>0. /\ settings' = [settings EXCEPT ![s] = IF s = Host \/ p.epoch # 0 THEN n.settings ELSE @]
        /\ settings \in [Sides -> Settings]
    BY StepFacts DEF IInv, Types
  <2>1. CASE t = o
    <3>1. settings'[o] = settings[o] BY <2>0, <1>0
    <3> QED BY <2>1, <3>1, <1>2 DEF IInv, Chosen
  <2>2. CASE t = s
    <3>1. settings'[s] = IF s = Host \/ p.epoch # 0 THEN n.settings ELSE settings[s] BY <2>0
    <3>2. s # Host /\ p.epoch = 0 => n.settings = l.settings
      BY StepFacts, Named
    <3>3. l.settings = settings[s] BY <1>1 DEF IInv, Chosen
    <3> QED BY <2>2, <3>1, <3>2, <3>3, <1>2
  <2> QED BY <2>1, <2>2, <1>0
<1>11. Commands'
  <2>1. CASE s = Host
    <3>0. o = Client /\ local'[Client] = local[Client] BY <2>1, <1>0, <1>2, Named
    <3>1. n.commandAck = IF Theirs(s) THEN p.serial ELSE l.commandAck BY StepFacts
    \* A command the host takes is one the client has given in this menu.
    <3>2. Theirs(s) => /\ local[Client].epoch = l.epoch /\ p.serial <= local[Client].serial
      <4> SUFFICES ASSUME Theirs(s)
                   PROVE  local[Client].epoch = l.epoch /\ p.serial <= local[Client].serial
        OBVIOUS
      <4>1. p.serial > l.commandAck BY <2>1 DEF Theirs, HostHears
      <4>2. p = peer[s] /\ peer[s].epoch = l.epoch BY <4>1, KnownFacts, Fields
      <4>3. p.epoch # 0 BY <4>2, <1>1
      <4> QED BY <4>3, <2>1, <1>1, HeardNow, Named DEF Earlier
    <3>3. local[Client].epoch = l.epoch => n.commandAck <= local[Client].serial
      BY <2>1, <3>1, <3>2 DEF IInv, Commands
    <3>4. l.epoch > local[Client].epoch => n.commandAck = 0
      BY <2>1, <3>1, <3>2, Fields, Named DEF IInv, Commands
    <3>5. ASSUME local[Client].epoch = l.epoch, local[Client].ack = n.revision
          PROVE  local[Client].settings = n.settings
      <4>1. l.revision <= n.revision /\ l.revision # 0 /\ l.revision \in Nat /\ n.revision \in Nat
        <5>1. n.revision \in Nat BY <1>3 DEF States
        <5> QED BY <5>1, <1>1, <1>2, <1>3, Fields DEF Earlier, Sound
      <4>2. local[Client].ack # 0 BY <4>1, <3>5
      <4>3. \/ peer[Client].epoch > local[Client].epoch
            \/ peer[Client].epoch = local[Client].epoch
               /\ local[Client].ack <= peer[Client].revision
        BY <4>2, Named DEF IInv, Acks
      <4>4. Earlier(Host, peer[Client], local[Host]) BY Named DEF IInv, Knowledge
      <4>5. peer[Client].epoch = local[Host].epoch /\ local[Client].ack <= peer[Client].revision
        BY <4>3, <4>4, <3>5, <2>1, Fields, Named DEF Earlier
      <4>6. peer[Client].revision <= l.revision BY <4>4, <4>5, <2>1 DEF Earlier
      <4>7. n.revision = l.revision BY <4>1, <4>5, <4>6, <3>5, Fields, Named
      <4>8. n.settings = l.settings BY <4>7, <2>1, <1>2, <1>3 DEF Earlier, Same
      <4>9. local[Client].settings = l.settings
        BY <4>7, <3>5, <2>1, <1>1 DEF IInv, Commands
      <4> QED BY <4>8, <4>9
    <3> QED BY <2>1, <3>0, <3>3, <3>4, <3>5, <1>2 DEF Commands
  <2>2. CASE s = Client
    <3>0. o = Host /\ local'[Host] = local[Host] BY <2>2, <1>0, <1>2, Named
    <3>1. local[Host].epoch = l.epoch => local[Host].commandAck <= n.serial
      <4>1. n.serial \in Nat /\ l.serial <= n.serial BY <1>2, <1>3 DEF Earlier, States
      <4> QED BY <4>1, <2>2, Fields, Named DEF IInv, Commands
    <3>2. ASSUME local[Host].epoch = l.epoch, n.ack = local[Host].revision
          PROVE  n.settings = local[Host].settings
      <4>1. p.revision # 0 BY <3>2, <1>1, <1>2, Fields, Named DEF Sound
      <4>2. p = peer[s] /\ peer[s].epoch = l.epoch BY <4>1, KnownFacts
      <4>3. p.epoch # 0 BY <4>2, <1>1
      <4>4. Earlier(Host, p, local[Host]) /\ p.epoch = local[Host].epoch
        BY <4>3, <2>2, <1>1, HeardNow, Named
      <4>5. p.settings = local[Host].settings BY <4>4, <3>2, <1>2 DEF Earlier, Same
      <4> QED BY <4>3, <4>5, <2>2, StepFacts
    <3>3. local[Host].epoch > l.epoch => local[Host].commandAck = 0
      BY <2>2 DEF IInv, Commands
    <3> QED BY <2>2, <3>0, <3>1, <3>2, <3>3, <1>2 DEF Commands
  <2> QED BY <2>1, <2>2, Named
<1>12. \A t \in Sides : t # s => released'[t] = released[t]
  BY StepFacts DEF IInv, Types
<1>13. released[s] => released'[s]
  BY StepFacts DEF IInv, Types
<1>14. Releases'
  <2> SUFFICES ASSUME NEW t \in Sides, released'[t], local[t].epoch # 0,
                      local[Other(t)].epoch <= local[t].epoch
               PROVE  Finished' /\ peer[t].epoch = local[t].epoch /\ peer[t].character # 0
    <3>1. \A t \in Sides : Other(t) \in Sides BY Pair
    <3> QED BY <3>1, <1>2 DEF Releases
  <2>1. CASE released[t]
    <3>1. Finished /\ peer[t].epoch = local[t].epoch /\ peer[t].character # 0
      BY <2>1 DEF IInv, Releases
    <3> QED BY <3>1, <1>1, FinishedStays
  <2>2. CASE ~released[t]
    <3>1. t = s BY <2>2, <1>12
    <3>2. /\ PeerHasFinal(n, p)
          /\ (IF s = Host THEN n.stage ELSE p.stage) # 0
          /\ SettingsReady(s, n, p)
      BY <2>2, <3>1, StepFacts DEF IInv, Types
    <3>3. CASE s = Host BY <3>1, <3>2, <3>3, <1>2, HostReleased
    <3>4. CASE s = Client BY <3>1, <3>2, <3>4, <1>2, ClientReleased, Named
    <3> QED BY <3>3, <3>4, Named
  <2> QED BY <2>1, <2>2
<1>15. Leaves'
  <2> SUFFICES ASSUME NEW t \in Sides, local[t].epoch # 0, plan[local[t].epoch][t] # None
               PROVE  /\ released'[t]
                      /\ local[Other(t)].epoch = local[t].epoch => plan[local[t].epoch][t] = Agreed'
    <3>1. \A t \in Sides : Other(t) \in Sides BY Pair
    <3> QED BY <3>1, <1>2 DEF Leaves
  <2>1. released[t] BY DEF IInv, Leaves
  <2>2. released'[t] BY <2>1, <1>12, <1>13
  <2>3. ASSUME local[Other(t)].epoch = local[t].epoch PROVE plan[local[t].epoch][t] = Agreed'
    <3>1. local[t].epoch \in Int BY Fields
    <3>2. Finished BY <2>1, <2>3, <3>1 DEF IInv, Releases
    <3>3. Agreed' = Agreed BY <3>2, <1>1, FinishedStays
    <3> QED BY <3>3, <2>3 DEF IInv, Leaves
  <2> QED BY <2>2, <2>3
<1>16. AsChosen' BY <1>2 DEF IInv, AsChosen
<1> QED BY <1>5, <1>6, <1>7, <1>8, <1>9, <1>10, <1>11, <1>14, <1>15, <1>16 DEF IInv

-----------------------------------------------------------------------------
(* The theorems. *)

LEMMA NextIInv == IInv /\ [Next]_vars => IInv'
<1> SUFFICES ASSUME IInv, [Next]_vars PROVE IInv'
  OBVIOUS
<1>1. CASE UNCHANGED vars
  <2>1. Types' /\ Counts' BY <1>1 DEF vars, IInv, Types, Counts
  <2>2. UNCHANGED <<local, peer, released, plan, net>> BY <1>1 DEF vars
  <2>3. Chosen' /\ AsChosen' BY <1>1 DEF vars, IInv, Chosen, AsChosen
  <2> QED BY <2>1, <2>2, <2>3, NothingSaid DEF IInv
<1>2. ASSUME NEW s \in Sides, NEW c \in Characters, Confirm(s, c) PROVE IInv'
  BY <1>2, ScreenIInv DEF Confirm
<1>3. ASSUME NEW g \in Stages, ChooseStage(g) PROVE IInv'
  BY <1>3, ScreenIInv, Named DEF ChooseStage
<1>4. ASSUME NEW s \in Sides, NEW v \in Settings, Request(s, v) PROVE IInv'
  BY <1>4, RequestIInv
<1>5. ASSUME NEW s \in Sides, Enter(s) PROVE IInv' BY <1>5, EnterIInv
<1>6. ASSUME NEW s \in Sides, Step(s) PROVE IInv' BY <1>6, StepIInv
<1>7. ASSUME NEW s \in Sides, Leave(s) PROVE IInv' BY <1>7, LeaveIInv
<1>8. ASSUME NEW s \in Sides, Send(s) PROVE IInv' BY <1>8, SendIInv
<1>9. ASSUME NEW s \in Sides, NEW m \in net, Receive(s, m) PROVE IInv' BY <1>9, ReceiveIInv
<1> QED BY <1>1, <1>2, <1>3, <1>4, <1>5, <1>6, <1>7, <1>8, <1>9 DEF Next

\* What is known of the peer is old but never wrong, and who is released knows that
\* nothing is left to be said: the inductive invariant.
THEOREM SelectionInvariant == Spec => []IInv
BY InitIInv, NextIInv, PTL DEF Spec

\* Screens, requests, commands, settings, revisions and plans have their types.
THEOREM SelectionTypes == Spec => []TypeOK
<1>1. IInv => TypeOK
  <2> SUFFICES ASSUME IInv PROVE TypeOK
    OBVIOUS
  <2>1. session \in Sessions /\ session.requests \in Nat BY Agenda DEF IInv, Types
  <2> SUFFICES ASSUME NEW s \in Sides
               PROVE  /\ screen[s] \in [character : Characters \cup {0}, stage : Stages \cup {0}]
                      /\ requested[s] \in 0 .. session.requests
                      /\ {queued[s], pending[s]} \subseteq Settings \cup {0}
                      /\ settings[s] \in Settings
                      /\ released[s] \in BOOLEAN
                      /\ local[s].serial <= requested[s]
                      /\ local[s].revision <= 3 + 2 * session.requests
                      /\ \A m \in 1 .. Menus : plan[m][s] \in Plans \cup {None}
    BY <2>1 DEF TypeOK
  <2>2. /\ screen[s] \in [character : Characters \cup {0}, stage : Stages \cup {0}]
        /\ requested[s] \in 0 .. session.requests
        /\ {queued[s], pending[s]} \subseteq Settings \cup {0}
        /\ settings[s] \in Settings
        /\ released[s] \in BOOLEAN
        /\ \A m \in 1 .. Menus : plan[m][s] \in Plans \cup {None}
    <3>1. queued[s] \in Settings \cup {0} /\ pending[s] \in Settings \cup {0}
      BY DEF IInv, Types, Numbers
    <3>2. requested[s] \in 0 .. session.requests /\ settings[s] \in Settings
          /\ released[s] \in BOOLEAN
      BY DEF IInv, Types
    <3>3. screen[s] \in [character : Characters \cup {0}, stage : Stages \cup {0}]
      BY DEF IInv, Types, Numbers
    <3>4. ASSUME NEW m \in 1 .. Menus PROVE plan[m][s] \in Plans \cup {None}
      <4>1. plan[m] \in [Sides -> Plans \cup {None}] BY DEF IInv, Types
      <4> QED BY <4>1
    <3> QED BY <3>1, <3>2, <3>3, <3>4
  <2>3. PICK q, c, g : /\ q = One(queued[s] # 0) /\ c = One(local[s].character # 0)
                       /\ g = One(local[s].stage # 0)
    OBVIOUS
  <2>4. q \in {0, 1} /\ c \in {0, 1} /\ g \in {0, 1} BY <2>3 DEF One
  <2>5. /\ local[s].revision <= 1 + c + g + (requested[s] - q) + local[s].commandAck
        /\ local[s].serial <= requested[s] - q /\ local[s].commandAck <= session.requests
    BY <2>3 DEF IInv, Counts
  <2> QED BY <2>1, <2>2, <2>4, <2>5, Fields
<1> QED BY <1>1, SelectionInvariant, PTL

\* Each player fights with the character that player has chosen, on the stage the
\* host has chosen, whatever is lost, repeated or late.
THEOREM ChosenIsPlayed == Spec => []AsChosen
<1>1. IInv => AsChosen BY DEF IInv
<1> QED BY <1>1, SelectionInvariant, PTL

\* When a side leaves the menu no command is under way that could change the
\* settings, on either side.
THEOREM CommandsDone == Spec => []NothingPending
<1>1. IInv => NothingPending
  <2> SUFFICES ASSUME IInv, NEW s \in Sides, NEW o, o = Other(s), NEW m, m = local[s].epoch,
                      m > 0, plan[m][s] # None, local[o].epoch = m
               PROVE  /\ local[o].settings = plan[m][s].settings
                      /\ local[Host].commandAck = local[Client].serial
    BY DEF NothingPending
  <2>1. released[s] /\ plan[m][s] = Agreed BY DEF IInv, Leaves
  <2>2. m \in Int /\ m # 0 BY Fields
  <2>3. Finished BY <2>1, <2>2 DEF IInv, Releases
  <2>4. local[Client].settings = local[Host].settings
    BY <2>2, <2>3, Named, Pair DEF Finished, IInv, Commands
  <2>5. o = Host \/ o = Client BY Pair, Named
  <2> QED BY <2>1, <2>3, <2>4, <2>5 DEF Finished, Agreed
<1> QED BY <1>1, SelectionInvariant, PTL

\* Of every menu each side decides once, and both decide the same.
THEOREM SelectionAgreed == Spec => ImplementsDecision
<1>1. Init => Promise!Init BY DEF Init, Promise!Init
<1>2. IInv /\ [Next]_vars => [Promise!Next]_plan
  <2> SUFFICES ASSUME IInv, [Next]_vars, plan' # plan PROVE Promise!Next
    OBVIOUS
  <2>1. PICK s \in Sides : Leave(s)
    <3>1. ~UNCHANGED vars BY DEF vars
    <3>2. \A s \in Sides : /\ \A c \in Characters : ~Confirm(s, c)
                           /\ \A v \in Settings : ~Request(s, v)
                           /\ ~Enter(s) /\ ~Send(s)
                           /\ \A m \in net : ~Receive(s, m)
      BY DEF Confirm, Request, Enter, Send, Receive
    <3>3. \A s \in Sides : ~Step(s) BY DEF Step
    <3>4. \A g \in Stages : ~ChooseStage(g) BY DEF ChooseStage
    <3> QED BY <3>1, <3>2, <3>3, <3>4 DEF Next
  <2> DEFINE m == local[s].epoch
  <2>2. /\ Finished /\ Agreed \in Plans /\ m \in 1 .. Menus /\ released[s]
        /\ plan' = [plan EXCEPT ![m][s] = Agreed] /\ plan[m][s] = None
        /\ local[Other(s)].epoch = m
    BY <2>1, LeaveAgreed DEF Leave, InMenu
  <2>3. ASSUME NEW t \in Sides PROVE plan[m][t] \in {None, Agreed}
    <3>1. CASE t = s BY <3>1, <2>2
    <3>2. CASE t = Other(s)
      <4>1. Other(t) = s BY <3>2, Pair
      <4>2. local[t].epoch = m /\ local[Other(t)].epoch = m /\ m # 0 BY <3>2, <4>1, <2>2
      <4> QED BY <4>2 DEF IInv, Leaves
    <3> QED BY <3>1, <3>2, Pair
  <2> HIDE DEF m
  <2>4. Promise!Decide(m, s, Agreed) BY <2>2, <2>3 DEF Promise!Decide
  <2> QED BY <2>2, <2>4 DEF Promise!Next
<1> QED BY <1>1, <1>2, SelectionInvariant, PTL DEF Spec, ImplementsDecision, Promise!Spec

-----------------------------------------------------------------------------
(* The rematch menu: the inductive invariant says that what one side knows *)
(* of the other is old but never wrong, and that a result is backed by the *)
(* choices both sides have made.                                           *)

\* x is something l has said, now or earlier.
RetryOlder(x, l) ==
    /\ x.epoch <= l.epoch
    /\ x.epoch = l.epoch => x.choice \in {0, l.choice}

RetryKnowledge ==
    /\ \A s \in Sides : RetryOlder(peerRetry[s], localRetry[Other(s)])
    /\ \A m \in netRetry : RetryOlder(m, localRetry[m.from])

\* Nobody leaves a menu before entering it, or enters one before both have left
\* the menus before.
RetryOrder ==
    \A m \in 1 .. Menus, s \in Sides :
        /\ result[m][s] # NoResult => m <= localRetry[s].epoch
        /\ m < localRetry[s].epoch => \A t \in Sides : result[m][t] # NoResult

\* Who has left the present menu has done so on choices that stand.
Backed ==
    \A s \in Sides :
        LET m == localRetry[s].epoch
            o == localRetry[Other(s)]
        IN m > 0 /\ result[m][s] # NoResult =>
              /\ o.epoch >= m
              /\ result[m][s] = Again => localRetry[s].choice = 1
              /\ o.epoch = m /\ result[m][s] = Again => o.choice = 1
              /\ o.epoch = m /\ result[m][s] = Select
                 => localRetry[s].choice = 2 \/ o.choice = 2

\* The two sides never leave a menu for different screens.
SameResult ==
    \A m \in 1 .. Menus :
        \A s, t \in Sides :
            result[m][s] = NoResult \/ result[m][t] = NoResult \/ result[m][s] = result[m][t]

RetryIInv == RetryTypeOK /\ RetryKnowledge /\ RetryOrder /\ Backed /\ SameResult

LEMMA RetryNames == NoResult # Again /\ NoResult # Select /\ Again # Select
BY DEF NoResult, Again, Select

\* The three results are reached from these choices only.
LEMMA ResultFacts ==
    ASSUME NEW a, NEW b
    PROVE  /\ Result(a, b) \in {NoResult, Again, Select}
           /\ Result(a, b) # NoResult => a.epoch = b.epoch
           /\ Result(a, b) = Again => a.choice = 1 /\ b.choice = 1
           /\ Result(a, b) = Select => a.choice = 2 \/ b.choice = 2
BY RetryNames DEF Result

\* Merging a packet into what is known of its sender leaves it well-formed and
\* no newer than the sender.
LEMMA RetryAcceptFacts ==
    ASSUME NEW old \in RetryStates, NEW l \in RetryStates,
           NEW m \in [from : Sides, epoch : 0 .. Menus,
                      choice : RetryChoices, ack : RetryChoices],
           RetryOlder(old, l), RetryOlder(m, l)
    PROVE  AcceptRetry(old, m) \in RetryStates /\ RetryOlder(AcceptRetry(old, m), l)
<1> DEFINE in == [epoch |-> m.epoch, choice |-> m.choice, ack |-> m.ack]
<1>1. in \in RetryStates
  BY DEF RetryStates
<1>2. CASE m.epoch < old.epoch
  BY <1>2 DEF AcceptRetry
<1>3. CASE m.epoch > old.epoch
  <2>1. AcceptRetry(old, m) = in
    BY <1>3, RetryAssumption DEF AcceptRetry, RetryStates
  <2> QED
    BY <2>1, <1>1 DEF RetryOlder
<1>4. CASE m.epoch = old.epoch
  BY <1>4, RetryAssumption DEF AcceptRetry, RetryStates, RetryOlder, RetryChoices
<1> QED
  BY <1>2, <1>3, <1>4, RetryAssumption DEF RetryStates

LEMMA RetryStarts == RetryInit => RetryIInv
BY RetryAssumption, Pair
   DEF RetryInit, RetryIInv, RetryTypeOK, RetryKnowledge, RetryOlder, RetryOrder, Backed,
       SameResult,
       BlankRetry, RetryStates, RetryChoices, NoResult, Again, Select

LEMMA RetryEnter ==
    ASSUME RetryIInv, NEW s \in Sides, EnterRetry(s)
    PROVE  RetryIInv'
<1> DEFINE o == Other(s)
           e == localRetry[s].epoch
<1>1. o \in Sides /\ o # s /\ Other(o) = s
      /\ \A t \in Sides : t = s \/ t = o
  BY Pair
<1>2. /\ e \in 0 .. Menus /\ e < Menus
      /\ localRetry' = [localRetry EXCEPT ![s] = [epoch |-> e + 1, choice |-> 0, ack |-> 0]]
      /\ localRetry[o] \in RetryStates
  BY <1>1 DEF RetryIInv, RetryTypeOK, EnterRetry, RetryStates
<1>3. /\ localRetry'[s] = [epoch |-> e + 1, choice |-> 0, ack |-> 0]
      /\ localRetry'[o] = localRetry[o]
      /\ localRetry' \in [Sides -> RetryStates]
  BY <1>1, <1>2, RetryAssumption DEF RetryIInv, RetryTypeOK, RetryStates, RetryChoices
<1>4. UNCHANGED <<peerRetry, result, netRetry>> /\ player' \in [Sides -> RetryChoices]
  BY DEF EnterRetry, RetryIInv, RetryTypeOK, RetryChoices
<1>5. RetryTypeOK'
  BY <1>3, <1>4 DEF RetryIInv, RetryTypeOK
<1>6. RetryKnowledge'
  <2>1. ASSUME NEW x, x.epoch \in 0 .. Menus, RetryOlder(x, localRetry[s])
        PROVE  RetryOlder(x, localRetry'[s])
    BY <2>1, <1>2, <1>3, RetryAssumption DEF RetryOlder
  <2>2. \A m \in netRetry : RetryOlder(m, localRetry'[m.from])
    <3>1. SUFFICES ASSUME NEW m \in netRetry
                   PROVE  RetryOlder(m, localRetry'[m.from])
      OBVIOUS
    <3>2. m.from \in Sides /\ m.epoch \in 0 .. Menus /\ RetryOlder(m, localRetry[m.from])
      BY DEF RetryIInv, RetryTypeOK, RetryKnowledge
    <3> QED
      BY <3>2, <2>1, <1>1, <1>3
  <2>3. \A t \in Sides : RetryOlder(peerRetry[t], localRetry'[Other(t)])
    <3>1. SUFFICES ASSUME NEW t \in Sides
                   PROVE  RetryOlder(peerRetry[t], localRetry'[Other(t)])
      OBVIOUS
    <3>2. peerRetry[t].epoch \in 0 .. Menus
          /\ RetryOlder(peerRetry[t], localRetry[Other(t)])
      BY DEF RetryIInv, RetryTypeOK, RetryStates, RetryKnowledge
    <3> QED
      BY <3>2, <2>1, <1>1, <1>3
  <2> QED
    BY <2>2, <2>3, <1>4 DEF RetryKnowledge
<1>7. RetryOrder'
  <2>1. \A m \in 1 .. e, t \in Sides : result[m][t] # NoResult
    BY DEF EnterRetry
  <2>2. SUFFICES ASSUME NEW m \in 1 .. Menus, NEW t \in Sides
                 PROVE  /\ result[m][t] # NoResult => m <= localRetry'[t].epoch
                        /\ m < localRetry'[t].epoch
                           => \A u \in Sides : result[m][u] # NoResult
    BY <1>4 DEF RetryOrder
  <2>3. CASE t = s
    <3>1. result[m][s] # NoResult => m <= e
      BY DEF RetryIInv, RetryOrder
    <3>2. m < e + 1 => m \in 1 .. e
      BY <1>2, RetryAssumption
    <3> QED
      BY <2>1, <2>3, <3>1, <3>2, <1>2, <1>3, RetryAssumption
  <2>4. CASE t = o
    BY <2>4, <1>3 DEF RetryIInv, RetryOrder
  <2> QED
    BY <2>3, <2>4, <1>1
<1>8. Backed'
  <2>1. result[e + 1][s] = NoResult
    <3>1. e + 1 \in 1 .. Menus /\ ~(e + 1 <= e)
      BY <1>2, RetryAssumption
    <3> QED
      BY <3>1 DEF RetryIInv, RetryOrder
  <2>2. ASSUME localRetry[o].epoch > 0, result[localRetry[o].epoch][o] # NoResult
        PROVE  e + 1 > localRetry[o].epoch
    BY <2>2, <1>1, <1>2, RetryAssumption DEF RetryIInv, Backed, RetryStates
  <2>3. SUFFICES ASSUME NEW t \in Sides,
                        localRetry'[t].epoch > 0, result[localRetry'[t].epoch][t] # NoResult
                 PROVE  /\ localRetry'[Other(t)].epoch >= localRetry'[t].epoch
                        /\ localRetry'[Other(t)].epoch # localRetry'[t].epoch
                        /\ result[localRetry'[t].epoch][t] = Again
                           => localRetry'[t].choice = 1
    BY <1>4 DEF Backed
  <2>4. CASE t = s
    BY <2>1, <2>3, <2>4, <1>3
  <2>5. CASE t = o
    <3>1. result[localRetry[o].epoch][o] = Again => localRetry[o].choice = 1
      BY <2>3, <2>5, <1>3 DEF RetryIInv, Backed
    <3> QED
      BY <3>1, <2>2, <2>3, <2>5, <1>1, <1>2, <1>3, RetryAssumption DEF RetryStates
  <2> QED
    BY <2>4, <2>5, <1>1
<1>9. SameResult'
  BY <1>4 DEF RetryIInv, SameResult
<1> QED
  BY <1>5, <1>6, <1>7, <1>8, <1>9 DEF RetryIInv

\* What a frame of the menu does, with l and p the new own state and the peer's.
LEMMA RetryStepFacts ==
    ASSUME RetryIInv, NEW s \in Sides, StepRetry(s)
    PROVE  \E l \in RetryStates, p \in RetryStates :
              /\ l.epoch = localRetry[s].epoch /\ l.epoch \in 1 .. Menus
              /\ localRetry[s].choice # 0 => l.choice = localRetry[s].choice
              /\ localRetry' = [localRetry EXCEPT ![s] = l]
              /\ result[l.epoch][s] = NoResult
              /\ RetryOlder(p, localRetry[Other(s)])
              /\ \/ result' = result
                 \/ /\ Result(l, p) # NoResult
                    /\ result' = [result EXCEPT ![l.epoch][s] = Result(l, p)]
<1> DEFINE p == KnownRetry(s)
           l == [localRetry[s] EXCEPT !.choice = IF @ = 0 THEN player[s] ELSE @, !.ack = p.choice]
<1>1. localRetry[s] \in RetryStates /\ peerRetry[s] \in RetryStates
      /\ player[s] \in RetryChoices /\ localRetry[Other(s)] \in RetryStates
  BY Pair DEF RetryIInv, RetryTypeOK
<1>2. localRetry[s].epoch \in 1 .. Menus /\ result[localRetry[s].epoch][s] = NoResult
  BY <1>1, RetryAssumption DEF StepRetry, InRetry, RetryStates
<1>3. p \in RetryStates
  BY <1>1, RetryAssumption DEF KnownRetry, BlankRetry, RetryStates, RetryChoices
<1>4. RetryOlder(p, localRetry[Other(s)])
  BY <1>1, RetryAssumption
  DEF RetryIInv, RetryKnowledge, KnownRetry, BlankRetry, RetryOlder, RetryStates
<1>5. /\ l \in RetryStates
      /\ l.epoch = localRetry[s].epoch
      /\ localRetry[s].choice # 0 => l.choice = localRetry[s].choice
  BY <1>1, <1>3 DEF RetryStates
<1>6. /\ localRetry' = [localRetry EXCEPT ![s] = l]
      /\ result' = IF CanRelease(l, p)
                   THEN [result EXCEPT ![l.epoch][s] = Result(l, p)]
                   ELSE result
  BY DEF StepRetry
<1>7. CanRelease(l, p) => Result(l, p) # NoResult
  BY DEF CanRelease
<1>8. \/ result' = result
      \/ Result(l, p) # NoResult
         /\ result' = [result EXCEPT ![l.epoch][s] = Result(l, p)]
  BY <1>6, <1>7
<1> HIDE DEF l, p
<1> QED
  BY <1>2, <1>3, <1>4, <1>5, <1>6, <1>8

LEMMA RetryStep ==
    ASSUME RetryIInv, NEW s \in Sides, StepRetry(s)
    PROVE  RetryIInv'
<1> DEFINE o == Other(s)
<1>1. o \in Sides /\ o # s /\ Other(o) = s
      /\ \A t \in Sides : t = s \/ t = o
  BY Pair
<1>2. PICK l \in RetryStates, p \in RetryStates :
         /\ l.epoch = localRetry[s].epoch /\ l.epoch \in 1 .. Menus
         /\ localRetry[s].choice # 0 => l.choice = localRetry[s].choice
         /\ localRetry' = [localRetry EXCEPT ![s] = l]
         /\ result[l.epoch][s] = NoResult
         /\ RetryOlder(p, localRetry[o])
         /\ \/ result' = result
            \/ /\ Result(l, p) # NoResult
               /\ result' = [result EXCEPT ![l.epoch][s] = Result(l, p)]
  BY RetryStepFacts
<1> DEFINE m == l.epoch
           r == Result(l, p)
<1>3. localRetry'[s] = l /\ localRetry'[o] = localRetry[o] /\ localRetry[s] \in RetryStates
      /\ localRetry[o] \in RetryStates
  BY <1>1, <1>2 DEF RetryIInv, RetryTypeOK
<1>4. UNCHANGED <<player, peerRetry, netRetry>>
  BY DEF StepRetry
<1>5. /\ r \in {NoResult, Again, Select}
      /\ r # NoResult => m = p.epoch
      /\ r = Again => l.choice = 1 /\ p.choice = 1
      /\ r = Select => l.choice = 2 \/ p.choice = 2
  BY ResultFacts
<1>6. /\ \A n \in 1 .. Menus, t \in Sides : n # m \/ t # s => result'[n][t] = result[n][t]
      /\ result'[m][s] # NoResult => result'[m][s] = r /\ r # NoResult
  <2>1. result \in [1 .. Menus -> [Sides -> {NoResult, Again, Select}]]
        /\ m \in 1 .. Menus
        /\ result[m][s] = NoResult
    BY <1>2 DEF RetryIInv, RetryTypeOK
  <2>2. CASE result' = result
    BY <2>1, <2>2
  <2>3. CASE r # NoResult /\ result' = [result EXCEPT ![m][s] = r]
    <3> HIDE DEF m, r
    <3>1. \A n \in 1 .. Menus : n # m => result'[n] = result[n]
      BY <2>1, <2>3
    <3>2. result'[m] = [result[m] EXCEPT ![s] = r]
      BY <2>1, <2>3
    <3>3. \A t \in Sides : result'[m][t] = IF t = s THEN r ELSE result[m][t]
      BY <2>1, <3>2
    <3> QED
      BY <2>3, <3>1, <3>3
  <2> QED
    BY <1>2, <2>2, <2>3
<1>7. result' \in [1 .. Menus -> [Sides -> {NoResult, Again, Select}]]
  <2>1. result \in [1 .. Menus -> [Sides -> {NoResult, Again, Select}]]
        /\ m \in 1 .. Menus
    BY <1>2 DEF RetryIInv, RetryTypeOK
  <2>2. CASE result' = result
    BY <2>1, <2>2
  <2>3. CASE result' = [result EXCEPT ![m][s] = r]
    <3>1. [result[m] EXCEPT ![s] = r]
            \in [Sides -> {NoResult, Again, Select}]
      BY <2>1, <1>5
    <3> HIDE DEF m, r
    <3>2. result' = [result EXCEPT ![m] = [result[m] EXCEPT ![s] = r]]
      BY <2>3
    <3> QED
      BY <2>1, <3>1, <3>2
  <2> QED
    BY <1>2, <2>2, <2>3
<1>8. RetryTypeOK'
  BY <1>2, <1>4, <1>7 DEF RetryIInv, RetryTypeOK
<1>9. RetryKnowledge'
  <2>1. ASSUME NEW x, RetryOlder(x, localRetry[s])
        PROVE  RetryOlder(x, l)
    BY <2>1, <1>2 DEF RetryOlder
  <2>2. \A k \in netRetry : RetryOlder(k, localRetry'[k.from])
    BY <2>1, <1>1, <1>3 DEF RetryIInv, RetryTypeOK, RetryKnowledge
  <2>3. \A t \in Sides : RetryOlder(peerRetry[t], localRetry'[Other(t)])
    BY <2>1, <1>1, <1>3 DEF RetryIInv, RetryKnowledge
  <2> QED
    BY <2>2, <2>3, <1>4 DEF RetryKnowledge
<1>10. RetryOrder'
  <2>1. SUFFICES ASSUME NEW n \in 1 .. Menus, NEW t \in Sides
                 PROVE  /\ result'[n][t] # NoResult => n <= localRetry'[t].epoch
                        /\ n < localRetry'[t].epoch
                           => \A u \in Sides : result'[n][u] # NoResult
    BY DEF RetryOrder
  <2>2. localRetry'[t].epoch = localRetry[t].epoch
    BY <1>1, <1>2, <1>3
  <2>3. /\ result[n][t] # NoResult => n <= localRetry[t].epoch
        /\ n < localRetry[t].epoch => \A u \in Sides : result[n][u] # NoResult
    BY DEF RetryIInv, RetryOrder
  <2>4. result'[n][t] # NoResult => n <= localRetry[t].epoch
    <3>1. CASE n = m /\ t = s
      BY <3>1, <1>2
    <3>2. CASE n # m \/ t # s
      BY <3>2, <2>3, <1>6
    <3> QED
      BY <3>1, <3>2
  <2>5. n < localRetry[t].epoch => \A u \in Sides : result'[n][u] # NoResult
    <3>1. ASSUME n < localRetry[t].epoch, NEW u \in Sides
          PROVE  result'[n][u] # NoResult
      BY <3>1, <2>3, <1>2, <1>6
    <3> QED
      BY <3>1
  <2> QED
    BY <2>2, <2>4, <2>5
<1>11. ASSUME result[m][o] # NoResult
       PROVE  /\ localRetry[o].epoch = m
              /\ result[m][o] = Again => localRetry[s].choice = 1
                 /\ localRetry[o].choice = 1
              /\ result[m][o] = Select
                 => localRetry[s].choice = 2 \/ localRetry[o].choice = 2
  <2>1. m <= localRetry[o].epoch /\ ~(m < localRetry[o].epoch)
    BY <1>1, <1>2, <1>11 DEF RetryIInv, RetryOrder
  <2>2. localRetry[o].epoch = m
    BY <2>1, <1>2, <1>3, RetryAssumption DEF RetryStates
  <2> QED
    BY <2>2, <1>1, <1>2, <1>11, RetryAssumption DEF RetryIInv, Backed
<1>12. localRetry[o].epoch = m /\ r # NoResult
       => p.choice = 0 \/ p.choice = localRetry[o].choice
  BY <1>2, <1>5 DEF RetryOlder
<1>13. Backed'
  <2>1. SUFFICES ASSUME NEW t \in Sides, localRetry'[t].epoch > 0,
                        result'[localRetry'[t].epoch][t] # NoResult
                 PROVE  LET n == localRetry'[t].epoch
                            q == localRetry'[Other(t)]
                        IN /\ q.epoch >= n
                           /\ result'[n][t] = Again => localRetry'[t].choice = 1
                           /\ q.epoch = n /\ result'[n][t] = Again => q.choice = 1
                           /\ q.epoch = n /\ result'[n][t] = Select
                                 => localRetry'[t].choice = 2 \/ q.choice = 2
    BY DEF Backed
  <2>2. CASE t = s
    <3>1. result'[m][s] = r /\ r # NoResult
      BY <2>1, <2>2, <1>3, <1>6
    <3>2. localRetry[o].epoch >= m
      BY <3>1, <1>2, <1>3, <1>5, RetryAssumption DEF RetryOlder, RetryStates
    <3> QED
      BY <3>1, <3>2, <2>2, <1>1, <1>3, <1>5, <1>12
  <2>3. CASE t = o
    <3>1. localRetry[o].epoch \in 1 .. Menus
      BY <2>1, <2>3, <1>3, RetryAssumption DEF RetryStates
    <3>2. result'[localRetry[o].epoch][o] = result[localRetry[o].epoch][o]
      BY <3>1, <1>1, <1>6
    <3>3. /\ localRetry[s].epoch >= localRetry[o].epoch
          /\ result[localRetry[o].epoch][o] = Again => localRetry[o].choice = 1
          /\ localRetry[s].epoch = localRetry[o].epoch
             /\ result[localRetry[o].epoch][o] = Again
                => localRetry[s].choice = 1
          /\ localRetry[s].epoch = localRetry[o].epoch
             /\ result[localRetry[o].epoch][o] = Select
                => localRetry[o].choice = 2 \/ localRetry[s].choice = 2
      BY <2>1, <2>3, <3>1, <3>2, <1>1, <1>3 DEF RetryIInv, Backed
    <3> QED
      BY <2>3, <3>2, <3>3, <1>1, <1>2, <1>3
  <2> QED
    BY <2>2, <2>3, <1>1
<1>14. result[m][o] # NoResult /\ r # NoResult => result[m][o] = r
  <2>1. ASSUME result[m][o] # NoResult, r # NoResult
        PROVE  result[m][o] = r
    <3>1. result[m][o] \in {NoResult, Again, Select}
      BY <1>1, <1>2 DEF RetryIInv, RetryTypeOK
    <3>2. CASE result[m][o] = Again
      BY <2>1, <3>2, <1>2, <1>5, <1>11, <1>12
    <3>3. CASE result[m][o] = Select
      BY <2>1, <3>3, <1>2, <1>5, <1>11, <1>12
    <3> QED
      BY <2>1, <3>1, <3>2, <3>3
  <2> QED
    BY <2>1
<1>15. SameResult'
  <2>1. SUFFICES ASSUME NEW n \in 1 .. Menus, NEW t \in Sides, NEW u \in Sides,
                        result'[n][t] # NoResult, result'[n][u] # NoResult
                 PROVE  result'[n][t] = result'[n][u]
    BY DEF SameResult
  <2>2. CASE n # m
    BY <2>1, <2>2, <1>6 DEF RetryIInv, SameResult
  <2>3. CASE n = m
    <3>1. result'[m][o] = result[m][o]
      BY <1>1, <1>2, <1>6
    <3>2. result'[m][s] # NoResult /\ result'[m][o] # NoResult
          => result'[m][s] = result'[m][o]
      BY <3>1, <1>6, <1>14
    <3> QED
      BY <3>2, <2>1, <2>3, <1>1
  <2> QED
    BY <2>2, <2>3
<1> QED
  BY <1>8, <1>9, <1>10, <1>13, <1>15 DEF RetryIInv

LEMMA RetryReceive ==
    ASSUME RetryIInv, NEW s \in Sides, NEW m \in netRetry, ReceiveRetry(s, m)
    PROVE  RetryIInv'
<1>1. /\ UNCHANGED <<player, localRetry, result>>
      /\ netRetry' \subseteq netRetry
      /\ peerRetry' = [peerRetry EXCEPT ![s] = AcceptRetry(peerRetry[s], m)]
      /\ m.from = Other(s)
  BY DEF ReceiveRetry
<1>2. AcceptRetry(peerRetry[s], m) \in RetryStates
      /\ RetryOlder(AcceptRetry(peerRetry[s], m), localRetry[Other(s)])
  <2>1. /\ peerRetry[s] \in RetryStates /\ localRetry[Other(s)] \in RetryStates
        /\ m \in [from : Sides, epoch : 0 .. Menus,
                  choice : RetryChoices, ack : RetryChoices]
        /\ RetryOlder(peerRetry[s], localRetry[Other(s)])
           /\ RetryOlder(m, localRetry[Other(s)])
    BY <1>1, Pair DEF RetryIInv, RetryTypeOK, RetryKnowledge
  <2> QED
    BY <2>1, RetryAcceptFacts
<1>3. RetryTypeOK'
  BY <1>1, <1>2 DEF RetryIInv, RetryTypeOK
<1>4. RetryKnowledge'
  BY <1>1, <1>2 DEF RetryIInv, RetryTypeOK, RetryKnowledge
<1>5. RetryOrder' /\ Backed' /\ SameResult'
  BY <1>1 DEF RetryIInv, RetryOrder, Backed, SameResult
<1> QED
  BY <1>3, <1>4, <1>5 DEF RetryIInv

LEMMA RetrySend ==
    ASSUME RetryIInv, NEW s \in Sides, SendRetry(s)
    PROVE  RetryIInv'
<1>1. UNCHANGED <<player, localRetry, peerRetry, result>>
      /\ netRetry' \subseteq netRetry \cup {RetryPacket(s)}
  BY DEF SendRetry
<1>2. /\ RetryPacket(s) \in [from : Sides, epoch : 0 .. Menus,
                                choice : RetryChoices, ack : RetryChoices]
      /\ RetryPacket(s).from = s
      /\ RetryOlder(RetryPacket(s), localRetry[s])
  BY RetryAssumption DEF RetryIInv, RetryTypeOK, RetryStates, RetryPacket, RetryOlder
<1>3. RetryTypeOK'
  BY <1>1, <1>2 DEF RetryIInv, RetryTypeOK
<1>4. RetryKnowledge'
  BY <1>1, <1>2 DEF RetryIInv, RetryKnowledge
<1>5. RetryOrder' /\ Backed' /\ SameResult'
  BY <1>1 DEF RetryIInv, RetryOrder, Backed, SameResult
<1> QED
  BY <1>3, <1>4, <1>5 DEF RetryIInv

LEMMA RetryMoves == RetryIInv /\ [RetryNext]_retryVars => RetryIInv'
<1>1. SUFFICES ASSUME RetryIInv, [RetryNext]_retryVars
               PROVE  RetryIInv'
  OBVIOUS
<1>2. CASE UNCHANGED retryVars
  BY <1>1, <1>2
  DEF retryVars, RetryIInv, RetryTypeOK, RetryKnowledge, RetryOrder, Backed, SameResult
<1>3. CASE \E s \in Sides : EnterRetry(s)
  BY <1>1, <1>3, RetryEnter
<1>4. CASE \E s \in Sides : StepRetry(s)
  BY <1>1, <1>4, RetryStep
<1>5. CASE \E s \in Sides : \E m \in netRetry : ReceiveRetry(s, m)
  BY <1>1, <1>5, RetryReceive
<1>6. CASE \E s \in Sides : SendRetry(s)
  BY <1>1, <1>6, RetrySend
<1>7. ASSUME NEW s \in Sides, NEW c \in {1, 2}, Choose(s, c)
      PROVE  RetryIInv'
  <2>1. UNCHANGED <<localRetry, peerRetry, result, netRetry>>
        /\ player' \in [Sides -> RetryChoices]
    BY <1>1, <1>7 DEF Choose, RetryIInv, RetryTypeOK, RetryChoices
  <2> QED
    BY <1>1, <2>1 DEF RetryIInv, RetryTypeOK, RetryKnowledge, RetryOrder, Backed, SameResult
<1> QED
  BY <1>1, <1>2, <1>3, <1>4, <1>5, <1>6, <1>7 DEF RetryNext

\* The inductive invariant holds throughout.
THEOREM RetryInvariant == RetrySpec => []RetryIInv
BY RetryStarts, RetryMoves, PTL DEF RetrySpec

\* Choices, acknowledgements, results and packets have their types.
THEOREM RetryTypes == RetrySpec => []RetryTypeOK
<1>1. RetryIInv => RetryTypeOK
  BY DEF RetryIInv
<1> QED
  BY <1>1, RetryInvariant, PTL

\* The next fight begins only if both players have chosen it.
THEOREM NobodyIsForced == RetrySpec => []NobodyForced
<1>1. RetryIInv => NobodyForced
  <2>1. SUFFICES ASSUME RetryIInv, NEW s \in Sides, NEW t \in Sides,
                        localRetry[s].epoch > 0, localRetry[t].epoch = localRetry[s].epoch,
                        result[localRetry[s].epoch][s] = Again
                 PROVE  localRetry[t].choice = 1
    BY DEF NobodyForced
  <2>2. /\ localRetry[Other(s)].epoch >= localRetry[s].epoch
        /\ localRetry[s].choice = 1
        /\ localRetry[Other(s)].epoch = localRetry[s].epoch
           => localRetry[Other(s)].choice = 1
    BY <2>1, RetryNames DEF RetryIInv, Backed
  <2>3. t = s \/ t = Other(s)
    BY Pair
  <2>4. CASE t = s
    BY <2>1, <2>2, <2>4, Pair
  <2>5. CASE t = Other(s)
    BY <2>1, <2>2, <2>5
  <2> QED
    BY <2>3, <2>4, <2>5
<1> QED
  BY <1>1, RetryInvariant, PTL

\* The menus implement the decision they promise: each side decides once on a
\* menu, and never otherwise than the other.
THEOREM RetryAgreed == RetrySpec => RetryDecision
<1>1. RetryInit => RetryPromise!Init
  BY DEF RetryInit, RetryPromise!Init
<1>2. RetryIInv /\ RetryIInv' /\ [RetryNext]_retryVars => [RetryPromise!Next]_result
  <2>1. SUFFICES ASSUME RetryIInv, RetryIInv', RetryNext
                 PROVE  result' = result \/ RetryPromise!Next
    BY DEF retryVars
  <2>2. ASSUME NEW s \in Sides, StepRetry(s)
        PROVE  result' = result \/ RetryPromise!Next
    <3>1. PICK l \in RetryStates, p \in RetryStates :
             /\ l.epoch = localRetry[s].epoch /\ l.epoch \in 1 .. Menus
             /\ localRetry[s].choice # 0 => l.choice = localRetry[s].choice
             /\ localRetry' = [localRetry EXCEPT ![s] = l]
             /\ result[l.epoch][s] = NoResult
             /\ RetryOlder(p, localRetry[Other(s)])
             /\ \/ result' = result
                \/ /\ Result(l, p) # NoResult
                   /\ result' = [result EXCEPT ![l.epoch][s] = Result(l, p)]
      BY <2>1, <2>2, RetryStepFacts
    <3> DEFINE m == l.epoch
               r == Result(l, p)
    <3>2. m \in 1 .. Menus /\ result[m][s] = NoResult
      BY <3>1
    <3>3. r \in {NoResult, Again, Select}
      BY ResultFacts
    <3>4. CASE r # NoResult /\ result' = [result EXCEPT ![m][s] = r]
      <4> HIDE DEF m, r
      <4>1. \A t \in Sides : result'[m][t] = IF t = s THEN r ELSE result[m][t]
        <5>1. result
              \in [1 .. Menus -> [Sides -> {NoResult, Again, Select}]]
          BY <2>1 DEF RetryIInv, RetryTypeOK
        <5>2. result'[m] = [result[m] EXCEPT ![s] = r]
          BY <5>1, <3>2, <3>4
        <5> QED
          BY <5>1, <5>2, <3>2
      <4>2. \A t \in Sides : result[m][t] \in {NoResult, r}
        BY <4>1, <3>2, <3>4, <2>1 DEF RetryIInv, SameResult
      <4>3. r \in {Again, Select}
        BY <3>3, <3>4
      <4>4. RetryPromise!Decide(m, s, r)
        BY <4>2, <3>2, <3>4 DEF RetryPromise!Decide
      <4> QED
        BY <4>3, <4>4, <3>2, <2>2 DEF RetryPromise!Next
    <3> QED
      BY <3>1, <3>4
  <2>3. CASE \E s \in Sides : StepRetry(s)
    BY <2>2, <2>3
  <2>4. CASE ~ \E s \in Sides : StepRetry(s)
    BY <2>1, <2>4 DEF RetryNext, EnterRetry, Choose, SendRetry, ReceiveRetry
  <2> QED
    BY <2>3, <2>4
<1> QED
  BY <1>1, <1>2, RetryInvariant, PTL
  DEF RetrySpec, RetryDecision, RetryPromise!Spec
=============================================================================
