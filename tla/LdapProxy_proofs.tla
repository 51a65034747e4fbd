--------------------------- MODULE LdapProxy_proofs ---------------------------
(***************************************************************************)
(* Theorems about the sessions of the LDAP backend, for any connections,   *)
(* addresses, servers and outages.                                         *)
(***************************************************************************)
EXTENDS LdapProxy, TLAPS

\* A connection that is there in the network is being served, is the only one
\* of its address there, and, if it came alone, the only one at all.
Places ==
    \A c \in Conns : live[c] =>
        /\ pc[c] \notin {"closed", "closing"}
        /\ \A d \in Conns \ {c} : addr[d] = addr[c] => ~live[d] /\ ~alone[c]

\* A link is used from one address.
Apart ==
    /\ \A a, b \in Addrs : sessions[a] # None /\ sessions[a] = sessions[b] => a = b
    /\ \A a \in Addrs, c \in Conns :
         link[c] # None /\ sessions[a] = link[c] => addr[c] = a
    /\ \A c, d \in Conns : link[c] # None /\ link[c] = link[d] => addr[c] = addr[d]

\* A link that is not stored yet is anonymous and nobody else's.
Fresh ==
    \A c \in Conns : pc[c] = "store" =>
        /\ links[link[c]].who = Nobody
        /\ \A d \in Conns \ {c} : link[d] # link[c]
        /\ \A a \in Addrs : sessions[a] # link[c]

\* Whom a link was bound as has bound from its address.
Known ==
    /\ \A a \in Addrs : sessions[a] # None =>
         links[sessions[a]].who \in {Nobody} \cup names[a]
    /\ \A c \in Conns : link[c] # None =>
         links[link[c]].who \in {Nobody} \cup names[addr[c]]

\* Who came alone, and is there, has the entry of his address to himself.
Own ==
    \A c \in Conns : live[c] /\ alone[c] =>
        /\ pc[c] \in {"choose", "dial", "store"} => sessions[addr[c]] = None
        /\ pc[c] \in {"talk", "hung"} => sessions[addr[c]] = link[c]
        /\ (/\ pc[c] # "hung"
            /\ sessions[addr[c]] # None
            /\ links[sessions[addr[c]]].live) =>
               links[sessions[addr[c]]].who \in {Nobody, boundDN[c]}

\* The connection that stored an entry, or bound its link last, vouches for it:
\* it has no other link, and none in prospect.
Vouches(c, a) ==
    /\ addr[c] = a
    /\ pc[c] \notin {"closed", "choose", "dial"}
    /\ link[c] \in {None, sessions[a]}
    /\ links[sessions[a]].live =>
         links[sessions[a]].who \in {Nobody, boundDN[c]} \/ pc[c] = "hung"

Vouched == \A a \in Addrs : sessions[a] # None => \E c \in Conns : Vouches(c, a)

SessionInv == TypeOK /\ Places /\ Apart /\ Fresh /\ Known /\ Own /\ Vouched

LEMMA SessionInit == Init => SessionInv
<1>. SUFFICES ASSUME Init PROVE SessionInv
  OBVIOUS
<1>1. TypeOK
  <2>1. 1 \in Servers /\ pinged \in 0 .. NumServers /\ 0 \in 0 .. NumServers
    BY ProxyAssumption DEF Init, Servers
  <2>. QED  BY <2>1, ProxyAssumption DEF Init, TypeOK, Link, Blank, Identities, Working
<1>. QED  BY <1>1 DEF Init, SessionInv, Places, Apart, Fresh, Known, Own, Vouched

-----------------------------------------------------------------------------
(* Steps that leave sessions and links alone, or only forget links.        *)

\* What is in reach keeps its link.
LEMMA Updated ==
  ASSUME NEW new, Update(new), NEW l \in Links, l \in Reached'
  PROVE  links'[l] = new[l]
BY DEF Update

LEMMA UpdateType ==
  ASSUME NEW new \in [Links -> Link], Update(new)
  PROVE  links' \in [Links -> Link]
<1>1. Blank \in Link
  BY ProxyAssumption DEF Blank, Link, Servers, Identities
<1>. QED  BY <1>1 DEF Update

\* A connection has a link of Links or none.
LEMMA Holds ==
  ASSUME TypeOK, NEW c \in Conns
  PROVE  /\ pc[c] \in {"store", "talk", "hung"} <=> link[c] # None
         /\ link[c] # None => link[c] \in Links
         /\ pc[c] # "closed" => addr[c] \in Addrs
         /\ pc[c] = "closed" => addr[c] = None
BY ProxyAssumption DEF TypeOK, Working

LEMMA ConnectStep ==
  ASSUME SessionInv, NEW c \in Conns, NEW a \in Addrs, Connect(c, a)
  PROVE  SessionInv'
<1>. USE DEF SessionInv, Connect, Runs, Goto, servers, monitor
<1>0. /\ a # None /\ link[c] = None /\ addr[c] = None
      /\ \A d \in Conns : d # c => /\ pc'[d] = pc[d] /\ addr'[d] = addr[d]
                                   /\ live'[d] = live[d] /\ alone'[d] = alone[d]
      /\ pc'[c] = "idle" /\ addr'[c] = a /\ live'[c] /\ alone'[c] = (Others(c, a) = {})
      /\ UNCHANGED <<sessions, links, link, boundDN, names>>
  BY Holds, ProxyAssumption DEF TypeOK
<1>1. TypeOK'
  BY <1>0, ProxyAssumption DEF TypeOK, Working
<1>2. Places'
  <2>1. \A d \in Conns \ {c} : addr[d] = a => d \in Others(c, a)
    BY <1>0, Holds DEF Others
  <2>2. \A d \in Conns \ {c} : addr[d] = a => ~live[d]
    BY <2>1
  <2>3. \A d \in Conns \ {c} : addr[d] = a => ~alone'[c]
    BY <1>0, <2>1
  <2>. QED  BY <1>0, <2>2, <2>3 DEF Places
<1>3. Apart' /\ Fresh' /\ Known'
  <2>1. Apart'
    BY <1>0, Holds DEF Apart
  <2>2. Fresh'
    BY <1>0 DEF Fresh
  <2>3. Known'
    BY <1>0, Holds DEF Known
  <2>. QED  BY <2>1, <2>2, <2>3
<1>4. Own'
  <2>1. sessions[a] # None => Others(c, a) # {}
    <3>. SUFFICES ASSUME sessions[a] # None PROVE Others(c, a) # {}
      OBVIOUS
    <3>1. PICK d \in Conns : addr[d] = a /\ pc[d] # "closed"
      BY DEF Vouched, Vouches
    <3>. QED  BY <3>1 DEF Others
  <2>2. ASSUME NEW d \in Conns, live'[d], alone'[d]
        PROVE  /\ pc'[d] \in {"choose", "dial", "store"} => sessions[addr'[d]] = None
               /\ pc'[d] \in {"talk", "hung"} => sessions[addr'[d]] = link[d]
               /\ (/\ pc'[d] # "hung"
                   /\ sessions[addr'[d]] # None
                   /\ links[sessions[addr'[d]]].live) =>
                      links[sessions[addr'[d]]].who \in {Nobody, boundDN[d]}
    <3>1. CASE d = c
      <4>1. alone'[c]
        BY <2>2, <3>1, Zenon
      <4>2. Others(c, a) = {}
        BY <1>0, <4>1, Zenon
      <4>3. sessions[a] = None
        BY <2>1, <4>2
      <4>. QED  BY <1>0, <3>1, <4>3
    <3>2. CASE d # c
      BY <1>0, <2>2, <3>2 DEF Own
    <3>. QED  BY <3>1, <3>2
  <2>. QED  BY <1>0, <2>2 DEF Own
<1>5. Vouched'
  BY <1>0, Holds DEF Vouched, Vouches
<1>. QED  BY <1>1, <1>2, <1>3, <1>4, <1>5

LEMMA ResetStep ==
  ASSUME SessionInv, NEW c \in Conns, Reset(c)
  PROVE  SessionInv'
<1>. USE DEF SessionInv, Reset, servers, monitor, history
<1>1. TypeOK'
  BY DEF TypeOK
<1>2. \A d \in Conns : live'[d] => live[d]
  BY Zenon DEF TypeOK
<1>3. UNCHANGED <<sessions, links, pc, addr, link, boundDN, alone, names>>
  OBVIOUS
<1>4. Places'
  BY <1>2, <1>3 DEF Places
<1>5. Apart' /\ Fresh' /\ Known' /\ Vouched'
  BY <1>3 DEF Apart, Fresh, Known, Vouched, Vouches
<1>6. Own'
  BY <1>2, <1>3 DEF Own
<1>. QED  BY <1>1, <1>4, <1>5, <1>6

\* Steps of a goroutine that has no link and gets none.
LEMMA UnlinkedStep ==
  ASSUME SessionInv, NEW c \in Conns, Request(c) \/ Choose(c) \/ DialFailed(c)
  PROVE  SessionInv'
<1>. USE DEF SessionInv, servers, history, Runs, Goto
<1>1. /\ link[c] = None /\ link' = link
      /\ pc[c] \in {"idle", "choose", "dial"}
      /\ pc[c] = "idle" => pc'[c] = "lookup"
      /\ pc'[c] \in {"idle", "lookup", "dial"}
      /\ pc'[c] = "dial" => pc[c] = "choose"
      /\ \A d \in Conns : d # c => pc'[d] = pc[d]
      /\ UNCHANGED <<sessions, links, addr, live, boundDN, alone, names>>
  <2>1. CASE Request(c)
    BY <2>1, Holds DEF Request, TypeOK
  <2>2. CASE Choose(c)
    BY <2>2, Holds DEF Choose, Answer, TypeOK
  <2>3. CASE DialFailed(c)
    BY <2>3, Holds DEF DialFailed, Answer, TypeOK
  <2>. QED  BY <2>1, <2>2, <2>3
<1>2. TypeOK'
  <2>1. CASE Request(c)
    BY <2>1, ProxyAssumption DEF Request, monitor, TypeOK, Working
  <2>2. CASE Choose(c)
    <3>0. 0 \in 0 .. NumServers /\ Servers \subseteq 0 .. NumServers
      BY ProxyAssumption DEF Servers
    <3>1. CASE Best = {}
      BY <2>2, <3>0, <3>1, <1>1 DEF Choose, Answer, monitor, TypeOK, Working
    <3>2. CASE Best # {}
      <4>1. PICK k \in Servers : target' = [target EXCEPT ![c] = k]
        BY <2>2, <3>2 DEF Choose, Best
      <4>2. k # 0
        BY ProxyAssumption DEF Servers
      <4>. QED  BY <2>2, <3>0, <3>2, <4>1, <4>2, <1>1 DEF Choose, monitor, TypeOK, Working
    <3>. QED  BY <3>1, <3>2
  <2>3. CASE DialFailed(c)
    <3>1. 0 \in 0 .. NumServers /\ pinged' \in 0 .. NumServers
      BY <2>3, ProxyAssumption DEF DialFailed, TypeOK
    <3>. QED  BY <2>3, <3>1, <1>1 DEF DialFailed, Answer, TypeOK, Working
  <2>. QED  BY <2>1, <2>2, <2>3
<1>3. Places'
  BY <1>1 DEF Places
<1>4. Apart' /\ Fresh' /\ Known'
  BY <1>1 DEF Apart, Fresh, Known
<1>5. Own'
  BY <1>1 DEF Own
<1>6. Vouched'
  BY <1>1 DEF Vouched, Vouches
<1>. QED  BY <1>2, <1>3, <1>4, <1>5, <1>6

-----------------------------------------------------------------------------
(* Steps that take a link.                                                 *)

LEMMA LookupStep ==
  ASSUME SessionInv, NEW c \in Conns, Lookup(c)
  PROVE  SessionInv'
<1>. USE DEF SessionInv, Runs, Goto, Key
<1>. DEFINE found == sessions[addr[c]]
<1>0. /\ pc[c] = "lookup" /\ addr[c] \in Addrs /\ link[c] = None
      /\ found \in Links \cup {None}
      /\ link'[c] = found
      /\ pc'[c] = IF found = None THEN "choose" ELSE "talk"
      /\ \A d \in Conns : d # c => pc'[d] = pc[d] /\ link'[d] = link[d]
      /\ UNCHANGED <<sessions, links, addr, live, boundDN, alone, names>>
  BY Holds DEF Lookup, TypeOK, history
<1>1. TypeOK'
  BY <1>0, ProxyAssumption DEF Lookup, servers, monitor, history, TypeOK, Working
<1>. HIDE DEF found
<1>2. Places'
  BY <1>0 DEF Places
<1>3. Apart'
  BY <1>0 DEF Apart, found
<1>4. Fresh'
  BY <1>0, Holds DEF Fresh, found
<1>5. Known'
  BY <1>0 DEF Known, found
<1>6. Own'
  BY <1>0 DEF Own, found
<1>7. Vouched'
  <2>1. ASSUME NEW a \in Addrs, sessions[a] # None
        PROVE  \E d \in Conns : Vouches(d, a)'
    <3>1. PICK d \in Conns : Vouches(d, a)
      BY <2>1 DEF Vouched
    <3>2. CASE d # c
      BY <1>0, <3>1, <3>2 DEF Vouches
    <3>3. CASE d = c
      BY <1>0, <2>1, <3>1, <3>3 DEF Vouches, found
    <3>. QED  BY <3>2, <3>3
  <2>. QED  BY <1>0, <2>1 DEF Vouched
<1>. QED  BY <1>1, <1>2, <1>3, <1>4, <1>5, <1>6, <1>7

LEMMA DialDoneStep ==
  ASSUME SessionInv, NEW c \in Conns, DialDone(c)
  PROVE  SessionInv'
<1>. USE DEF SessionInv, Runs, Goto
<1>1. PICK l \in Links \ Reached :
        /\ link' = [link EXCEPT ![c] = l]
        /\ links' = [links EXCEPT ![l] =
                       [server |-> target[c], live |-> TRUE, who |-> Nobody]]
  BY DEF DialDone
<1>2. /\ \A a \in Addrs : sessions[a] # l
      /\ \A d \in Conns : link[d] # l
  BY DEF Reached
<1>0. /\ pc[c] = "dial" /\ addr[c] \in Addrs /\ link[c] = None /\ l # None
      /\ link'[c] = l /\ links'[l].who = Nobody
      /\ pc'[c] = "store"
      /\ \A d \in Conns : d # c => pc'[d] = pc[d] /\ link'[d] = link[d]
      /\ \A k \in Links : k # l => links'[k] = links[k]
      /\ \A a \in Addrs : sessions[a] \in Links \cup {None}
      /\ \A d \in Conns : link[d] \in Links \cup {None}
      /\ UNCHANGED <<sessions, addr, live, boundDN, alone, names>>
  BY <1>1, Holds, ProxyAssumption DEF DialDone, TypeOK, history
<1>3. TypeOK'
  <2>1. target[c] \in Servers /\ 0 \in 0 .. NumServers
    BY <1>0, ProxyAssumption DEF TypeOK, Servers
  <2>2. [server |-> target[c], live |-> TRUE, who |-> Nobody] \in Link
    BY <2>1 DEF Link, Identities
  <2>3. links' \in [Links -> Link]
    BY <1>1, <2>2 DEF TypeOK
  <2>4. /\ target' \in [Conns -> 0 .. NumServers]
        /\ \A d \in Conns : pc'[d] = "dial" <=> target'[d] # 0
    BY <2>1 DEF DialDone, TypeOK
  <2>5. /\ link' \in [Conns -> Links \cup {None}]
        /\ \A d \in Conns : pc'[d] \in {"store", "talk", "hung"} <=> link'[d] # None
    BY <1>0, <1>1, Holds DEF TypeOK
  <2>. QED
    BY <2>3, <2>4, <2>5 DEF DialDone, servers, monitor, history, TypeOK, Working
<1>4. Places'
  BY <1>0 DEF Places
<1>5. Apart'
  BY <1>0, <1>2 DEF Apart
<1>6. Fresh'
  BY <1>0, <1>2, Holds DEF Fresh
<1>7. Known'
  BY <1>0, <1>2 DEF Known
<1>8. Own'
  <2>1. ASSUME NEW d \in Conns, live[d], alone[d]
        PROVE  addr[d] \in Addrs
    BY <2>1, Holds DEF Places
  <2>. QED  BY <1>0, <1>2, <2>1 DEF Own
<1>9. Vouched'
  BY <1>0, <1>2 DEF Vouched, Vouches
<1>. QED  BY <1>3, <1>4, <1>5, <1>6, <1>7, <1>8, <1>9

\* Storing a link takes another one out of the map, perhaps out of reach.
LEMMA StoreStep ==
  ASSUME SessionInv, NEW c \in Conns, Store(c)
  PROVE  SessionInv'
<1>. USE DEF SessionInv, Runs, Goto, Key
<1>0. /\ pc[c] = "store" /\ pc'[c] = "talk"
      /\ addr[c] \in Addrs /\ link[c] \in Links /\ link[c] # None
      /\ sessions' = [sessions EXCEPT ![addr[c]] = link[c]]
      /\ sessions'[addr[c]] = link[c]
      /\ \A a \in Addrs : a # addr[c] => sessions'[a] = sessions[a]
      /\ \A d \in Conns : d # c => pc'[d] = pc[d]
      /\ \A a \in Addrs : sessions'[a] \in Links \cup {None}
      /\ \A d \in Conns : link[d] \in Links \cup {None}
      /\ UNCHANGED <<link, addr, live, boundDN, alone, names>>
  BY Holds, ProxyAssumption DEF Store, TypeOK, locals, history
<1>1. /\ \A a \in Addrs : sessions'[a] # None => links'[sessions'[a]] = links[sessions'[a]]
      /\ \A d \in Conns : link[d] # None => links'[link[d]] = links[link[d]]
  <2>1. ASSUME NEW l \in Links, l \in Reached'
        PROVE  links'[l] = links[l]
    BY <2>1 DEF Store, Update
  <2>. QED  BY <1>0, <2>1 DEF Reached
<1>2. links' \in [Links -> Link]
  BY UpdateType DEF Store, TypeOK
<1>3. TypeOK'
  BY <1>0, <1>2 DEF Store, servers, monitor, locals, history, TypeOK, Working
<1>4. Places'
  BY <1>0 DEF Places
<1>5. Apart'
  BY <1>0 DEF Apart
<1>6. Fresh'
  <2>. SUFFICES ASSUME NEW d \in Conns, pc'[d] = "store"
                PROVE  /\ links'[link[d]].who = Nobody
                       /\ \A e \in Conns \ {d} : link[e] # link[d]
                       /\ \A a \in Addrs : sessions'[a] # link[d]
    BY <1>0 DEF Fresh
  <2>1. d # c /\ pc[d] = "store" /\ link[d] # None
    BY <1>0, Holds
  <2>. QED  BY <1>0, <1>1, <2>1 DEF Fresh
<1>7. Known'
  BY <1>0, <1>1 DEF Known
<1>8. Own'
  <2>1. ASSUME NEW d \in Conns, live[d], alone[d], d # c
        PROVE  addr[d] # addr[c] /\ addr[d] \in Addrs
    BY <1>0, <2>1, Holds DEF Places
  <2>2. links'[link[c]].who = Nobody
    BY <1>0, <1>1 DEF Fresh
  <2>. QED  BY <1>0, <1>1, <2>1, <2>2 DEF Own
<1>9. Vouched'
  <2>1. Vouches(c, addr[c])'
    BY <1>0, <1>1 DEF Vouches, Fresh
  <2>2. ASSUME NEW a \in Addrs, a # addr[c], sessions'[a] # None
        PROVE  \E d \in Conns : Vouches(d, a)'
    BY <1>0, <1>1, <2>2 DEF Vouched, Vouches
  <2>. QED  BY <1>0, <2>1, <2>2 DEF Vouched
<1>. QED  BY <1>3, <1>4, <1>5, <1>6, <1>7, <1>8, <1>9

-----------------------------------------------------------------------------
(* Steps over a link, and back.                                            *)

\* The goroutine returns from a request, the server having heard nothing of
\* it, or having taken the link for nobody.
LEMMA ReturnedStep ==
  ASSUME SessionInv, NEW c \in Conns, BindRefused(c) \/ Answered(c) \/ Broken(c)
  PROVE  SessionInv'
<1>. USE DEF SessionInv, Runs, Goto, Answer
<1>0. /\ pc[c] \in {"talk", "hung"} /\ pc'[c] = "idle"
      /\ addr[c] \in Addrs /\ link[c] \in Links /\ link[c] # None /\ link'[c] = None
      /\ \A d \in Conns : d # c => pc'[d] = pc[d] /\ link'[d] = link[d]
      /\ \A a \in Addrs : sessions[a] \in Links \cup {None}
      /\ \A d \in Conns : link[d] \in Links \cup {None}
      /\ UNCHANGED <<sessions, addr, live, boundDN, alone, names>>
      /\ pc[c] = "hung" => ~links[link[c]].live
  BY Holds, ProxyAssumption DEF BindRefused, Answered, Broken, TypeOK, history
<1>1. PICK new \in [Links -> Link] :
        /\ Update(new)
        /\ \A l \in Links : new[l].who \in {links[l].who, Nobody}
        /\ \A l \in Links : new[l].live = links[l].live
  <2>1. CASE BindRefused(c)
    <3>1. /\ TakenFor(c, Nobody) \in [Links -> Link]
          /\ \A l \in Links : TakenFor(c, Nobody)[l].who \in {links[l].who, Nobody}
          /\ \A l \in Links : TakenFor(c, Nobody)[l].live = links[l].live
      BY <1>0 DEF TakenFor, TypeOK, Link, Identities
    <3>. QED  BY <2>1, <3>1 DEF BindRefused
  <2>2. CASE Answered(c) \/ Broken(c)
    BY <2>2 DEF Answered, Broken, TypeOK
  <2>. QED  BY <2>1, <2>2
<1>2. /\ \A a \in Addrs : sessions[a] # None => links'[sessions[a]] = new[sessions[a]]
      /\ \A d \in Conns \ {c} : link[d] # None => links'[link[d]] = new[link[d]]
  <2>1. ASSUME NEW l \in Links, l \in Reached'
        PROVE  links'[l] = new[l]
    BY <1>1, <2>1, Updated
  <2>2. ASSUME NEW a \in Addrs, sessions[a] # None
        PROVE  sessions[a] \in Reached'
    BY <1>0, <2>2 DEF Reached
  <2>3. ASSUME NEW d \in Conns \ {c}, link[d] # None
        PROVE  link[d] \in Reached'
    BY <1>0, <2>3 DEF Reached
  <2>. QED  BY <1>0, <2>1, <2>2, <2>3
<1>3. TypeOK'
  <2>1. links' \in [Links -> Link]
    BY <1>1, UpdateType
  <2>2. 0 \in 0 .. NumServers
    BY ProxyAssumption
  <2>3. CASE BindRefused(c)
    BY <1>0, <2>1, <2>2, <2>3 DEF BindRefused, servers, monitor, history, TypeOK, Working
  <2>4. CASE Answered(c)
    BY <1>0, <2>1, <2>2, <2>4 DEF Answered, servers, monitor, history, TypeOK, Working
  <2>5. CASE Broken(c)
    BY <1>0, <2>1, <2>2, <2>5 DEF Broken, servers, monitor, history, TypeOK, Working
  <2>. QED  BY <2>3, <2>4, <2>5
<1>4. Places'
  BY <1>0 DEF Places
<1>5. Apart'
  BY <1>0 DEF Apart
<1>6. Fresh'
  <2>. SUFFICES ASSUME NEW d \in Conns, pc'[d] = "store"
                PROVE  /\ links'[link'[d]].who = Nobody
                       /\ \A e \in Conns \ {d} : link'[e] # link'[d]
                       /\ \A a \in Addrs : sessions[a] # link'[d]
    BY <1>0 DEF Fresh
  <2>1. d # c /\ pc[d] = "store" /\ link[d] # None
    BY <1>0, Holds
  <2>. QED  BY <1>0, <1>1, <1>2, <2>1 DEF Fresh
<1>7. Known'
  <2>1. ASSUME NEW a \in Addrs, sessions[a] # None
        PROVE  links'[sessions[a]].who \in {Nobody} \cup names[a]
    BY <1>0, <1>1, <1>2, <2>1 DEF Known
  <2>2. ASSUME NEW d \in Conns, link'[d] # None
        PROVE  links'[link'[d]].who \in {Nobody} \cup names[addr[d]]
    BY <1>0, <1>1, <1>2, <2>2 DEF Known
  <2>. QED  BY <1>0, <2>1, <2>2 DEF Known
<1>8. Own'
  <2>. SUFFICES ASSUME NEW d \in Conns, live[d], alone[d]
                PROVE  /\ pc'[d] \in {"choose", "dial", "store"} => sessions[addr[d]] = None
                       /\ pc'[d] \in {"talk", "hung"} => sessions[addr[d]] = link'[d]
                       /\ (/\ pc'[d] # "hung"
                           /\ sessions[addr[d]] # None
                           /\ links'[sessions[addr[d]]].live) =>
                              links'[sessions[addr[d]]].who \in {Nobody, boundDN[d]}
    BY <1>0 DEF Own
  <2>1. addr[d] \in Addrs
    BY Holds DEF Places
  <2>2. CASE d = c
    BY <1>0, <1>1, <1>2, <2>1, <2>2 DEF Own
  <2>3. CASE d # c
    BY <1>0, <1>1, <1>2, <2>1, <2>3 DEF Own
  <2>. QED  BY <2>2, <2>3
<1>9. Vouched'
  <2>1. ASSUME NEW a \in Addrs, sessions[a] # None
        PROVE  \E d \in Conns : Vouches(d, a)'
    <3>1. PICK d \in Conns : Vouches(d, a)
      BY <2>1 DEF Vouched
    <3>2. CASE d # c
      BY <1>0, <1>1, <1>2, <2>1, <3>1, <3>2 DEF Vouches
    <3>3. CASE d = c
      BY <1>0, <1>1, <1>2, <2>1, <3>1, <3>3 DEF Vouches
    <3>. QED  BY <3>2, <3>3
  <2>. QED  BY <1>0, <2>1 DEF Vouched
<1>. QED  BY <1>3, <1>4, <1>5, <1>6, <1>7, <1>8, <1>9

\* Who binds over a link vouches for it from now on.
LEMMA BoundStep ==
  ASSUME SessionInv, NEW c \in Conns, NEW n \in Identities, BindAccepted(c, n)
  PROVE  SessionInv'
<1>. USE DEF SessionInv, Runs, Goto, Answer
<1>. DEFINE new == TakenFor(c, n)
<1>0. /\ pc[c] = "talk" /\ pc'[c] = "idle" /\ boundDN'[c] = n
      /\ addr[c] \in Addrs /\ link[c] \in Links /\ link[c] # None /\ link'[c] = None
      /\ \A d \in Conns : d # c => /\ pc'[d] = pc[d] /\ link'[d] = link[d]
                                   /\ boundDN'[d] = boundDN[d]
      /\ \A a \in Addrs : sessions[a] \in Links \cup {None}
      /\ \A d \in Conns : link[d] \in Links \cup {None}
      /\ UNCHANGED <<sessions, addr, live, alone>>
  BY Holds, ProxyAssumption DEF BindAccepted, TypeOK
<1>1. /\ new \in [Links -> Link]
      /\ new[link[c]].who = n
      /\ \A l \in Links : l # link[c] => new[l] = links[l]
  BY <1>0 DEF TakenFor, TypeOK, Link
<1>2. /\ names' \in [Addrs -> SUBSET Names]
      /\ \A a \in Addrs : names[a] \subseteq names'[a]
      /\ n \in {Nobody} \cup names'[addr[c]]
  <2>1. n \in Names \cup {Nobody} /\ names \in [Addrs -> SUBSET Names]
    BY DEF Identities, TypeOK
  <2>. QED  BY <1>0, <2>1 DEF BindAccepted, NamesWith
<1>3. /\ \A a \in Addrs : sessions[a] # None => links'[sessions[a]] = new[sessions[a]]
      /\ \A d \in Conns \ {c} : link[d] # None => links'[link[d]] = new[link[d]]
      /\ links' \in [Links -> Link]
  <2>0. Update(new)
    BY DEF BindAccepted
  <2>. HIDE DEF new
  <2>1. ASSUME NEW l \in Links, l \in Reached'
        PROVE  links'[l] = new[l]
    BY <2>0, <2>1, Updated
  <2>2. ASSUME NEW a \in Addrs, sessions[a] # None
        PROVE  sessions[a] \in Reached'
    BY <1>0, <2>2 DEF Reached
  <2>3. ASSUME NEW d \in Conns \ {c}, link[d] # None
        PROVE  link[d] \in Reached'
    BY <1>0, <2>3 DEF Reached
  <2>4. links' \in [Links -> Link]
    BY <1>1, <2>0, UpdateType
  <2>. QED  BY <1>0, <2>1, <2>2, <2>3, <2>4
<1>. HIDE DEF new
<1>4. TypeOK'
  <2>1. 0 \in 0 .. NumServers
    BY ProxyAssumption
  <2>. QED
    BY <1>0, <1>2, <1>3, <2>1 DEF BindAccepted, servers, monitor, TypeOK, Working
<1>5. Places'
  BY <1>0 DEF Places
<1>6. Apart'
  BY <1>0 DEF Apart
<1>7. Fresh'
  <2>. SUFFICES ASSUME NEW d \in Conns, pc'[d] = "store"
                PROVE  /\ links'[link'[d]].who = Nobody
                       /\ \A e \in Conns \ {d} : link'[e] # link'[d]
                       /\ \A a \in Addrs : sessions[a] # link'[d]
    BY <1>0 DEF Fresh
  <2>1. d # c /\ pc[d] = "store" /\ link[d] # None
    BY <1>0, Holds
  <2>. QED  BY <1>0, <1>1, <1>3, <2>1 DEF Fresh
<1>8. Known'
  <2>1. ASSUME NEW a \in Addrs, sessions[a] # None
        PROVE  links'[sessions[a]].who \in {Nobody} \cup names'[a]
    <3>1. CASE sessions[a] = link[c]
      <4>1. addr[c] = a
        BY <1>0, <3>1 DEF Apart
      <4>. QED  BY <1>1, <1>2, <1>3, <2>1, <3>1, <4>1
    <3>2. CASE sessions[a] # link[c]
      BY <1>0, <1>1, <1>2, <1>3, <2>1, <3>2 DEF Known
    <3>. QED  BY <3>1, <3>2
  <2>2. ASSUME NEW d \in Conns, link'[d] # None
        PROVE  links'[link'[d]].who \in {Nobody} \cup names'[addr[d]]
    <3>0. d # c /\ link[d] # None /\ link'[d] = link[d] /\ addr[d] \in Addrs
      BY <1>0, <2>2, Holds
    <3>1. CASE link[d] = link[c]
      <4>1. addr[c] = addr[d]
        BY <1>0, <3>1 DEF Apart
      <4>. QED  BY <1>1, <1>2, <1>3, <3>0, <3>1, <4>1
    <3>2. CASE link[d] # link[c]
      BY <1>0, <1>1, <1>2, <1>3, <3>0, <3>2 DEF Known
    <3>. QED  BY <3>1, <3>2
  <2>. QED  BY <1>0, <2>1, <2>2 DEF Known
<1>9. Own'
  <2>. SUFFICES ASSUME NEW d \in Conns, live[d], alone[d]
                PROVE  /\ pc'[d] \in {"choose", "dial", "store"} => sessions[addr[d]] = None
                       /\ pc'[d] \in {"talk", "hung"} => sessions[addr[d]] = link'[d]
                       /\ (/\ pc'[d] # "hung"
                           /\ sessions[addr[d]] # None
                           /\ links'[sessions[addr[d]]].live) =>
                              links'[sessions[addr[d]]].who \in {Nobody, boundDN'[d]}
    BY <1>0 DEF Own
  <2>1. addr[d] \in Addrs
    BY Holds DEF Places
  <2>2. CASE d = c
    <3>1. sessions[addr[c]] = link[c]
      BY <1>0, <2>2 DEF Own
    <3>. QED  BY <1>0, <1>1, <1>3, <2>2, <3>1
  <2>3. CASE d # c
    <3>1. sessions[addr[d]] # link[c]
      <4>1. sessions[addr[d]] = link[c] => addr[c] = addr[d]
        BY <1>0, <2>1 DEF Apart
      <4>2. addr[c] # addr[d]
        BY <1>0, <2>3 DEF Places
      <4>. QED  BY <4>1, <4>2
    <3>. QED  BY <1>0, <1>1, <1>3, <2>1, <2>3, <3>1 DEF Own
  <2>. QED  BY <2>2, <2>3
<1>10. Vouched'
  <2>1. ASSUME NEW a \in Addrs, sessions[a] # None
        PROVE  \E d \in Conns : Vouches(d, a)'
    <3>1. CASE sessions[a] = link[c]
      <4>1. addr[c] = a
        BY <1>0, <3>1 DEF Apart
      <4>2. Vouches(c, a)'
        BY <1>0, <1>1, <1>3, <2>1, <3>1, <4>1 DEF Vouches
      <4>. QED  BY <4>2
    <3>2. CASE sessions[a] # link[c]
      <4>1. PICK d \in Conns : Vouches(d, a)
        BY <2>1 DEF Vouched
      <4>2. d # c
        BY <1>0, <3>2, <4>1 DEF Vouches
      <4>3. links'[sessions[a]] = links[sessions[a]]
        BY <1>0, <1>1, <1>3, <2>1, <3>2
      <4>. QED  BY <1>0, <2>1, <4>1, <4>2, <4>3 DEF Vouches
    <3>. QED  BY <3>1, <3>2
  <2>. QED  BY <1>0, <2>1 DEF Vouched
<1>. QED  BY <1>4, <1>5, <1>6, <1>7, <1>8, <1>9, <1>10

\* A server that hangs has taken the link for somebody, or heard nothing.
LEMMA HangStep ==
  ASSUME SessionInv, NEW c \in Conns, Hang(c)
  PROVE  SessionInv'
<1>. USE DEF SessionInv, Runs, Goto
<1>0. /\ pc[c] = "talk" /\ pc'[c] = "hung"
      /\ addr[c] \in Addrs /\ link[c] \in Links /\ link[c] # None
      /\ \A d \in Conns : d # c => pc'[d] = pc[d]
      /\ \A a \in Addrs : sessions[a] \in Links \cup {None}
      /\ \A d \in Conns : link[d] \in Links \cup {None}
      /\ UNCHANGED <<sessions, link, addr, live, boundDN, alone>>
  BY Holds, ProxyAssumption DEF Hang, TypeOK, locals
<1>1. /\ links' \in [Links -> Link]
      /\ names' \in [Addrs -> SUBSET Names]
      /\ \A a \in Addrs : names[a] \subseteq names'[a]
      /\ \A l \in Links : l # link[c] => links'[l] = links[l]
      /\ links'[link[c]].who \in {links[link[c]].who, Nobody} \cup names'[addr[c]]
  <2>1. CASE UNCHANGED <<links, names>>
    BY <1>0, <2>1 DEF TypeOK
  <2>2. ASSUME NEW n \in Identities, links' = TakenFor(c, n), names' = NamesWith(c, n)
        PROVE  /\ links' \in [Links -> Link]
               /\ names' \in [Addrs -> SUBSET Names]
               /\ \A a \in Addrs : names[a] \subseteq names'[a]
               /\ \A l \in Links : l # link[c] => links'[l] = links[l]
               /\ links'[link[c]].who \in {Nobody} \cup names'[addr[c]]
    <3>1. n \in Names \cup {Nobody} /\ names \in [Addrs -> SUBSET Names]
      BY DEF Identities, TypeOK
    <3>2. /\ names' \in [Addrs -> SUBSET Names]
          /\ \A a \in Addrs : names[a] \subseteq names'[a]
          /\ n \in {Nobody} \cup names'[addr[c]]
      BY <1>0, <2>2, <3>1 DEF NamesWith
    <3>3. /\ links' \in [Links -> Link]
          /\ links'[link[c]].who = n
          /\ \A l \in Links : l # link[c] => links'[l] = links[l]
      BY <1>0, <2>2 DEF TakenFor, TypeOK, Link
    <3>. QED  BY <3>2, <3>3
  <2>. QED  BY <2>1, <2>2 DEF Hang
<1>2. TypeOK'
  BY <1>0, <1>1 DEF Hang, servers, monitor, locals, TypeOK, Working
<1>3. Places'
  BY <1>0 DEF Places
<1>4. Apart'
  BY <1>0 DEF Apart
<1>5. Fresh'
  BY <1>0, <1>1, Holds DEF Fresh
<1>6. Known'
  <2>1. ASSUME NEW a \in Addrs, sessions[a] # None
        PROVE  links'[sessions[a]].who \in {Nobody} \cup names'[a]
    <3>1. CASE sessions[a] = link[c]
      <4>1. addr[c] = a
        BY <1>0, <3>1 DEF Apart
      <4>. QED  BY <1>0, <1>1, <2>1, <3>1, <4>1 DEF Known
    <3>2. CASE sessions[a] # link[c]
      BY <1>0, <1>1, <2>1, <3>2 DEF Known
    <3>. QED  BY <3>1, <3>2
  <2>2. ASSUME NEW d \in Conns, link[d] # None
        PROVE  links'[link[d]].who \in {Nobody} \cup names'[addr[d]]
    <3>0. addr[d] \in Addrs
      BY <2>2, Holds
    <3>1. CASE link[d] = link[c]
      <4>1. addr[c] = addr[d]
        BY <1>0, <3>1 DEF Apart
      <4>. QED  BY <1>0, <1>1, <2>2, <3>1, <4>1 DEF Known
    <3>2. CASE link[d] # link[c]
      BY <1>0, <1>1, <2>2, <3>0, <3>2 DEF Known
    <3>. QED  BY <3>1, <3>2
  <2>. QED  BY <1>0, <2>1, <2>2 DEF Known
<1>7. Own'
  <2>. SUFFICES ASSUME NEW d \in Conns, live[d], alone[d]
                PROVE  /\ pc'[d] \in {"choose", "dial", "store"} => sessions[addr[d]] = None
                       /\ pc'[d] \in {"talk", "hung"} => sessions[addr[d]] = link[d]
                       /\ (/\ pc'[d] # "hung"
                           /\ sessions[addr[d]] # None
                           /\ links'[sessions[addr[d]]].live) =>
                              links'[sessions[addr[d]]].who \in {Nobody, boundDN[d]}
    BY <1>0 DEF Own
  <2>1. addr[d] \in Addrs
    BY Holds DEF Places
  <2>2. CASE d = c
    BY <1>0, <2>2 DEF Own
  <2>3. CASE d # c
    <3>1. sessions[addr[d]] # link[c]
      <4>1. sessions[addr[d]] = link[c] => addr[c] = addr[d]
        BY <1>0, <2>1 DEF Apart
      <4>2. addr[c] # addr[d]
        BY <1>0, <2>3 DEF Places
      <4>. QED  BY <4>1, <4>2
    <3>. QED  BY <1>0, <1>1, <2>1, <2>3, <3>1 DEF Own
  <2>. QED  BY <2>2, <2>3
<1>8. Vouched'
  <2>1. ASSUME NEW a \in Addrs, sessions[a] # None
        PROVE  \E d \in Conns : Vouches(d, a)'
    <3>1. CASE sessions[a] = link[c]
      <4>1. addr[c] = a
        BY <1>0, <3>1 DEF Apart
      <4>2. Vouches(c, a)'
        BY <1>0, <3>1, <4>1 DEF Vouches
      <4>. QED  BY <4>2
    <3>2. CASE sessions[a] # link[c]
      <4>1. PICK d \in Conns : Vouches(d, a)
        BY <2>1 DEF Vouched
      <4>2. d # c
        BY <1>0, <3>2, <4>1 DEF Vouches
      <4>3. links'[sessions[a]] = links[sessions[a]]
        BY <1>0, <1>1, <2>1, <3>2
      <4>. QED  BY <1>0, <2>1, <4>1, <4>2, <4>3 DEF Vouches
    <3>. QED  BY <3>1, <3>2
  <2>. QED  BY <1>0, <2>1 DEF Vouched
<1>. QED  BY <1>2, <1>3, <1>4, <1>5, <1>6, <1>7, <1>8

-----------------------------------------------------------------------------
(* The end of a connection.                                                *)

LEMMA HangupStep ==
  ASSUME SessionInv, NEW c \in Conns, Hangup(c)
  PROVE  SessionInv'
<1>. USE DEF SessionInv, Runs, Goto
<1>0. /\ pc[c] \in {"idle", "talk"} /\ pc'[c] = "closing" /\ link'[c] = None /\ ~live'[c]
      /\ \A d \in Conns : d # c => /\ pc'[d] = pc[d] /\ link'[d] = link[d]
                                   /\ live'[d] = live[d]
      /\ \A a \in Addrs : sessions[a] \in Links \cup {None}
      /\ \A d \in Conns : link[d] \in Links \cup {None}
      /\ UNCHANGED <<sessions, addr, boundDN, alone, names>>
  BY DEF Hangup, TypeOK, history
<1>1. /\ \A a \in Addrs : sessions[a] # None => links'[sessions[a]] = links[sessions[a]]
      /\ \A d \in Conns \ {c} : link[d] # None => links'[link[d]] = links[link[d]]
  <2>1. ASSUME NEW l \in Links, l \in Reached'
        PROVE  links'[l] = links[l]
    BY <2>1 DEF Hangup, Update
  <2>2. ASSUME NEW a \in Addrs, sessions[a] # None
        PROVE  sessions[a] \in Reached'
    BY <1>0, <2>2 DEF Reached
  <2>3. ASSUME NEW d \in Conns \ {c}, link[d] # None
        PROVE  link[d] \in Reached'
    BY <1>0, <2>3 DEF Reached
  <2>. QED  BY <1>0, <2>1, <2>2, <2>3
<1>2. TypeOK'
  <2>1. links' \in [Links -> Link]
    BY UpdateType DEF Hangup, TypeOK
  <2>. QED  BY <2>1 DEF Hangup, servers, monitor, history, TypeOK, Working
<1>3. Places'
  BY <1>0 DEF Places
<1>4. Apart'
  BY <1>0 DEF Apart
<1>5. Fresh'
  BY <1>0, <1>1, Holds DEF Fresh
<1>6. Known'
  BY <1>0, <1>1 DEF Known
<1>7. Own'
  <2>1. ASSUME NEW d \in Conns, live'[d]
        PROVE  d # c /\ live[d] /\ addr[d] \in Addrs
    BY <1>0, <2>1, Holds DEF Places
  <2>. QED  BY <1>0, <1>1, <2>1 DEF Own
<1>8. Vouched'
  <2>1. ASSUME NEW a \in Addrs, sessions[a] # None
        PROVE  \E d \in Conns : Vouches(d, a)'
    <3>1. PICK d \in Conns : Vouches(d, a)
      BY <2>1 DEF Vouched
    <3>. QED  BY <1>0, <1>1, <2>1, <3>1 DEF Vouches
  <2>. QED  BY <1>0, <2>1 DEF Vouched
<1>. QED  BY <1>2, <1>3, <1>4, <1>5, <1>6, <1>7, <1>8

LEMMA DeleteStep ==
  ASSUME SessionInv, NEW c \in Conns, Delete(c)
  PROVE  SessionInv'
<1>. USE DEF SessionInv, Runs, Goto, Key, Gone
<1>0. /\ pc[c] = "closing" /\ pc'[c] = "closed" /\ link[c] = None
      /\ addr[c] \in Addrs /\ addr'[c] = None /\ ~live[c] /\ None \notin Addrs
      /\ sessions'[addr[c]] = None
      /\ \A a \in Addrs : a # addr[c] => sessions'[a] = sessions[a]
      /\ \A d \in Conns : d # c => /\ pc'[d] = pc[d] /\ addr'[d] = addr[d]
                                   /\ boundDN'[d] = boundDN[d] /\ alone'[d] = alone[d]
      /\ \A a \in Addrs : sessions[a] \in Links \cup {None}
      /\ \A d \in Conns : link[d] \in Links \cup {None}
      /\ UNCHANGED <<link, live>>
  BY Holds, ProxyAssumption DEF Delete, TypeOK, Places
<1>1. /\ \A a \in Addrs : sessions'[a] # None => links'[sessions'[a]] = links[sessions'[a]]
      /\ \A d \in Conns : link[d] # None => links'[link[d]] = links[link[d]]
  <2>1. ASSUME NEW l \in Links, l \in Reached'
        PROVE  links'[l] = links[l]
    BY <2>1 DEF Delete, Update
  <2>2. ASSUME NEW a \in Addrs, sessions'[a] # None
        PROVE  sessions'[a] \in Reached'
    BY <1>0, <2>2 DEF Reached
  <2>3. ASSUME NEW d \in Conns, link[d] # None
        PROVE  link[d] \in Reached'
    BY <1>0, <2>3 DEF Reached
  <2>. QED  BY <1>0, <2>1, <2>2, <2>3
<1>2. /\ names' \in [Addrs -> SUBSET Names]
      /\ \A a \in Addrs : names'[a] # names[a] => a = addr[c] /\ Others(c, a) = {}
  <2>1. CASE Others(c, addr[c]) = {}
    BY <1>0, <2>1 DEF Delete, TypeOK
  <2>2. CASE Others(c, addr[c]) # {}
    BY <1>0, <2>2 DEF Delete, TypeOK
  <2>. QED  BY <2>1, <2>2
<1>3. TypeOK'
  <2>1. links' \in [Links -> Link]
    BY UpdateType DEF Delete, TypeOK
  <2>2. Nobody \in Identities
    BY DEF Identities
  <2>3. sessions' \in [Addrs -> Links \cup {None}] /\ addr' \in [Conns -> Addrs \cup {None}]
    BY DEF Delete, TypeOK
  <2>. QED
    BY <1>0, <1>2, <2>1, <2>2, <2>3 DEF Delete, servers, monitor, TypeOK, Working
<1>4. Places'
  <2>. SUFFICES ASSUME NEW d \in Conns, live[d]
                PROVE  /\ pc'[d] \notin {"closed", "closing"}
                       /\ \A e \in Conns \ {d} : addr'[e] = addr'[d] => ~live[e] /\ ~alone'[d]
    BY <1>0 DEF Places
  <2>1. d # c /\ addr[d] \in Addrs
    BY <1>0, Holds DEF Places
  <2>. QED  BY <1>0, <2>1 DEF Places
<1>5. Apart'
  BY <1>0 DEF Apart
<1>6. Fresh'
  BY <1>0, <1>1, Holds DEF Fresh
<1>7. Known'
  <2>1. ASSUME NEW a \in Addrs, sessions'[a] # None
        PROVE  links'[sessions'[a]].who \in {Nobody} \cup names'[a]
    BY <1>0, <1>1, <1>2, <2>1 DEF Known
  <2>2. ASSUME NEW d \in Conns, link[d] # None
        PROVE  links'[link[d]].who \in {Nobody} \cup names'[addr'[d]]
    <3>1. d # c /\ addr[d] \in Addrs /\ pc[d] # "closed" /\ addr'[d] = addr[d]
      BY <1>0, <2>2, Holds
    <3>2. d \in Others(c, addr[d])
      BY <3>1 DEF Others
    <3>3. names'[addr[d]] = names[addr[d]]
      BY <1>2, <3>1, <3>2
    <3>. QED  BY <1>1, <2>2, <3>1, <3>3 DEF Known
  <2>. QED  BY <1>0, <2>1, <2>2 DEF Known
<1>8. Own'
  <2>. SUFFICES ASSUME NEW d \in Conns, live[d], alone'[d]
                PROVE  /\ pc'[d] \in {"choose", "dial", "store"} => sessions'[addr'[d]] = None
                       /\ pc'[d] \in {"talk", "hung"} => sessions'[addr'[d]] = link[d]
                       /\ (/\ pc'[d] # "hung"
                           /\ sessions'[addr'[d]] # None
                           /\ links'[sessions'[addr'[d]]].live) =>
                              links'[sessions'[addr'[d]]].who \in {Nobody, boundDN'[d]}
    BY <1>0 DEF Own
  <2>1. d # c /\ addr[d] \in Addrs /\ alone[d]
    BY <1>0, Holds DEF Places
  <2>2. addr[d] # addr[c]
    BY <1>0, <2>1 DEF Places
  <2>. QED  BY <1>0, <1>1, <2>1, <2>2 DEF Own
<1>9. Vouched'
  <2>1. ASSUME NEW a \in Addrs, sessions'[a] # None
        PROVE  \E d \in Conns : Vouches(d, a)'
    <3>1. a # addr[c] /\ sessions'[a] = sessions[a]
      BY <1>0, <2>1
    <3>2. PICK d \in Conns : Vouches(d, a)
      BY <2>1, <3>1 DEF Vouched
    <3>. QED  BY <1>0, <1>1, <2>1, <3>1, <3>2 DEF Vouches
  <2>. QED  BY <2>1 DEF Vouched
<1>. QED  BY <1>3, <1>4, <1>5, <1>6, <1>7, <1>8, <1>9

-----------------------------------------------------------------------------
(* Servers and the monitor.                                                *)

\* A server that goes away breaks links, and changes nothing else about them.
LEMMA OutageStep ==
  ASSUME SessionInv, NEW k \in Servers, Outage(k)
  PROVE  SessionInv'
<1>. USE DEF SessionInv, Outage
<1>0. UNCHANGED <<sessions, pc, addr, live, link, boundDN, alone, names>>
  BY DEF locals, history
<1>1. /\ links' \in [Links -> Link]
      /\ \A l \in Links : /\ links'[l].who = links[l].who
                          /\ links'[l].live => links[l].live
  <2>1. ASSUME NEW l \in Links
        PROVE  /\ links'[l] \in Link /\ links'[l].who = links[l].who
               /\ links'[l].live => links[l].live
    <3>1. links[l] \in Link
      BY DEF TypeOK
    <3>2. CASE links[l].server = k
      BY <3>1, <3>2, Zenon DEF Link
    <3>3. CASE links[l].server # k
      BY <3>1, <3>3
    <3>. QED  BY <3>2, <3>3
  <2>2. links' \in [Links -> Link]
    BY <2>1
  <2>. QED  BY <2>1, <2>2
<1>2. TypeOK'
  BY <1>1 DEF TypeOK, monitor, locals, history
<1>3. /\ \A a \in Addrs : sessions[a] \in Links \cup {None}
      /\ \A d \in Conns : link[d] \in Links \cup {None}
  BY DEF TypeOK
<1>4. Places' /\ Apart'
  BY <1>0 DEF Places, Apart
<1>5. Fresh'
  BY <1>0, <1>1, <1>3, Holds DEF Fresh
<1>6. Known'
  BY <1>0, <1>1, <1>3 DEF Known
<1>7. Own'
  <2>1. ASSUME NEW d \in Conns, live[d]
        PROVE  addr[d] \in Addrs
    BY <2>1, Holds DEF Places
  <2>. QED  BY <1>0, <1>1, <1>3, <2>1 DEF Own
<1>8. Vouched'
  <2>1. ASSUME NEW a \in Addrs, sessions[a] # None
        PROVE  \E d \in Conns : Vouches(d, a)'
    <3>1. PICK d \in Conns : Vouches(d, a)
      BY <2>1 DEF Vouched
    <3>. QED  BY <1>0, <1>1, <1>3, <2>1, <3>1 DEF Vouches
  <2>. QED  BY <1>0, <2>1 DEF Vouched
<1>. QED  BY <1>2, <1>4, <1>5, <1>6, <1>7, <1>8

\* Nothing is left of connections when the process ends.
LEMMA ExitStep ==
  ASSUME TypeOK, Exit, UNCHANGED <<servers, status, ping, pinged, serving>>
  PROVE  SessionInv'
<1>1. Blank \in Link /\ Nobody \in Identities /\ 0 \in 0 .. NumServers
  BY ProxyAssumption DEF Blank, Link, Servers, Identities
<1>2. TypeOK'
  BY <1>1 DEF Exit, TypeOK, servers, Working
<1>3. Places' /\ Apart' /\ Fresh'
  BY DEF Exit, Places, Apart, Fresh
<1>4. Known' /\ Own' /\ Vouched'
  BY DEF Exit, Known, Own, Vouched
<1>. QED  BY <1>2, <1>3, <1>4 DEF SessionInv

\* Steps that concern no connection.
LEMMA ElsewhereStep ==
  ASSUME SessionInv, TypeOK', UNCHANGED <<sessions, links, pc, locals, history>>
  PROVE  SessionInv'
BY DEF SessionInv, locals, history, Places, Apart, Fresh, Known, Own, Vouched, Vouches

LEMMA MonitorStep ==
  ASSUME SessionInv, Ping \/ Timer \/ \E k \in Servers : Return(k)
  PROVE  SessionInv'
<1>. USE DEF SessionInv
<1>1. CASE Timer
  <2>1. 1 \in 0 .. NumServers
    BY ProxyAssumption
  <2>2. TypeOK'
    BY <1>1, <2>1 DEF Timer, TypeOK, servers, locals, history
  <2>. QED  BY <1>1, <2>2, ElsewhereStep DEF Timer
<1>2. ASSUME NEW k \in Servers, Return(k) PROVE SessionInv'
  <2>1. TypeOK'
    BY <1>2 DEF Return, TypeOK, monitor, locals, history
  <2>. QED  BY <1>2, <2>1, ElsewhereStep DEF Return
<1>3. CASE Ping
  <2>1. CASE alive[pinged]
    <3>1. /\ pinged \in 0 .. NumServers /\ pinged # 0
          /\ pinged' = IF pinged = NumServers THEN 0 ELSE pinged + 1
          /\ status' = [status EXCEPT ![pinged] = TRUE]
          /\ serving' = (serving \/ pinged = NumServers)
          /\ UNCHANGED <<servers, up, sessions, links, pc, locals, history>>
      BY <1>3, <2>1 DEF Ping, TypeOK
    <3>2. pinged \in Servers /\ pinged' \in 0 .. NumServers
      BY <3>1, ProxyAssumption DEF Servers
    <3>3. PICK p \in Pings[pinged] : ping' = [ping EXCEPT ![pinged] = p]
      BY <1>3, <2>1 DEF Ping
    <3>4. p \in Nat
      BY <3>2, ProxyAssumption
    <3>5. serving' \in BOOLEAN
      BY <3>1, Zenon DEF TypeOK
    <3>6. TypeOK'
      BY <3>1, <3>2, <3>3, <3>4, <3>5 DEF TypeOK, servers, locals, history
    <3>. QED  BY <3>1, <3>6, ElsewhereStep
  <2>2. CASE ~alive[pinged]
    BY <1>3, <2>2, ExitStep DEF Ping
  <2>. QED  BY <2>1, <2>2
<1>. QED  BY <1>1, <1>2, <1>3

LEMMA SessionStep == SessionInv /\ [Next]_vars => SessionInv'
<1>. SUFFICES ASSUME SessionInv, [Next]_vars PROVE SessionInv'
  OBVIOUS
<1>1. CASE UNCHANGED vars
  <2>1. TypeOK'
    BY <1>1 DEF vars, servers, monitor, locals, history, SessionInv, TypeOK
  <2>. QED  BY <1>1, <2>1, ElsewhereStep DEF vars
<1>2. ASSUME NEW c \in Conns, Step(c) \/ Client(c) \/ Hang(c) PROVE SessionInv'
  BY <1>2, ConnectStep, ResetStep, UnlinkedStep, LookupStep, DialDoneStep, StoreStep,
     ReturnedStep, BoundStep, HangStep, HangupStep, DeleteStep DEF Step, Client
<1>3. ASSUME NEW k \in Servers, Outage(k) PROVE SessionInv'
  BY <1>3, OutageStep
<1>. QED  BY <1>1, <1>2, <1>3, MonitorStep DEF Next

\* Every variable keeps its type, whatever the servers and the monitor do.
THEOREM TypeCorrect == Spec => []TypeOK
<1>1. SessionInv => TypeOK
  BY DEF SessionInv
<1>. QED  BY <1>1, SessionInit, SessionStep, PTL DEF Spec

\* A request travels to a server as the client that made it, or anonymously;
\* as somebody else only if its client came while another connection had his
\* address, and then as one who has bound from there (line 369).
THEOREM OwnIdentityAlways == Spec => []OwnIdentity
<1>1. SessionInv => OwnIdentity
  <2>. SUFFICES ASSUME SessionInv, NEW c \in Conns,
                       pc[c] = "talk", live[c], links[link[c]].live
                PROVE  \/ links[link[c]].who \in {Nobody, boundDN[c]}
                       \/ ~alone[c] /\ links[link[c]].who \in names[addr[c]]
    BY DEF OwnIdentity
  <2>1. link[c] # None
    BY Holds DEF SessionInv
  <2>2. CASE alone[c]
    BY <2>1, <2>2 DEF SessionInv, Own
  <2>3. CASE ~alone[c]
    BY <2>1, <2>3 DEF SessionInv, Known
  <2>. QED  BY <2>2, <2>3
<1>. QED  BY <1>1, SessionInit, SessionStep, PTL DEF Spec

\* No session outlives the connections from its address.
THEOREM NoSessionLeft == Spec => []SessionsOfTheConnected
<1>1. SessionInv => SessionsOfTheConnected
  BY DEF SessionInv, Vouched, Vouches, SessionsOfTheConnected
<1>. QED  BY <1>1, SessionInit, SessionStep, PTL DEF Spec

=============================================================================
