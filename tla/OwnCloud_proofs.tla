--------------------------- MODULE OwnCloud_proofs ---------------------------
(***************************************************************************)
(* Theorems about the sessions of the ownCloud backend, for any            *)
(* connections, addresses and users.                                       *)
(***************************************************************************)
EXTENDS OwnCloud, TLAPS

\* A connection in the network is open and the only one of its address there;
\* while it is there, the others of its address only finish what they had at
\* hand when it connected.
Alone ==
    \A c \in Conns : live[c] =>
        /\ pc[c] \notin {"closed"} \cup Closing
        /\ \A d \in SameAddress(c) : ~live[d]
        /\ alone[c] => \A d \in SameAddress(c) : pc[d] = "closed"
        /\ \A d \in SameAddress(c) : pc[d] \in Binding => as[d] \in late[c]

\* What a connection is bound as is in the map under its address, unless a
\* late delete took it or a late login replaced it; who searches is bound.
Kept ==
    \A c \in Conns :
        /\ pc[c] = "closed" => boundDN[c] = None
        /\ pc[c] \in {"search", "lookup"} => boundDN[c] # None
        /\ (live[c] /\ boundDN[c] # None) =>
              \/ sessions[AddrOf[c]] = boundDN[c]
              \/ ~alone[c] /\ sessions[AddrOf[c]] = None
              \/ sessions[AddrOf[c]] \in late[c]

SessionInv == TypeOK /\ Alone /\ Kept /\ SearchesAsBound /\ SessionsOfTheConnected

LEMMA SessionInit == Init => SessionInv
BY ConnAssumption DEF Init, SessionInv, TypeOK, Labels, Binding, Closing, Alone, Kept,
     SearchesAsBound, SessionsOfTheConnected

Step(c) ==
    \/ Connect(c) \/ Reset(c)
    \/ \E u \in Users : Bind(c, u)
    \/ LoginFails(c) \/ LoginSucceeds(c)
    \/ Lock(c) \/ Store(c) \/ Lookup(c) \/ Delete(c)
    \/ Search(c) \/ QueryAnswered(c) \/ Hang(c) \/ Hangup(c)

\* Mutual exclusion and the types.
LEMMA TypeStep ==
  ASSUME TypeOK, NEW c \in Conns, Step(c)
  PROVE  TypeOK'
<1>. USE ConnAssumption DEF TypeOK, Labels, Binding, Closing, Goto
<1>1. CASE Connect(c)
  <2>1. late' \in [Conns -> SUBSET (Users \cup {None})]
    <3>1. {as[d] : d \in {e \in SameAddress(c) : pc[e] \in Binding}} \subseteq Users \cup {None}
      <4>1. \A d \in Conns : as[d] \in Users \cup {None}
        OBVIOUS
      <4>. QED  BY <4>1, Zenon DEF SameAddress
    <3>. QED  BY <1>1, <3>1 DEF Connect
  <2>2. alone' \in [Conns -> BOOLEAN]
    BY <1>1, Zenon DEF Connect
  <2>3. live' \in [Conns -> BOOLEAN]
    BY <1>1, Zenon DEF Connect
  <2>. QED  BY <1>1, <2>1, <2>2, <2>3 DEF Connect
<1>2. CASE Reset(c)
  BY <1>2 DEF Reset
<1>3. CASE \E u \in Users : Bind(c, u)
  <2>1. PICK u \in Users : Bind(c, u)
    BY <1>3
  <2>. QED  BY <2>1 DEF Bind
<1>4. CASE LoginFails(c) \/ LoginSucceeds(c)
  BY <1>4 DEF LoginFails, LoginSucceeds
<1>5. CASE Lock(c)
  BY <1>5 DEF Lock
<1>6. CASE Store(c)
  BY <1>6 DEF Store
<1>7. CASE Lookup(c)
  BY <1>7 DEF Lookup
<1>8. CASE Delete(c)
  <2>1. late' \in [Conns -> SUBSET (Users \cup {None})]
    BY <1>8 DEF Delete, Gone
  <2>2. alone' \in [Conns -> BOOLEAN]
    BY <1>8, Zenon DEF Delete, Gone
  <2>. QED  BY <1>8, <2>1, <2>2 DEF Delete, Gone
<1>9. CASE Search(c)
  BY <1>9 DEF Search
<1>10. CASE QueryAnswered(c) \/ Hang(c)
  <2>1. PICK l \in {"idle", "hung"} : pc' = [pc EXCEPT ![c] = l]
    BY <1>10 DEF QueryAnswered, Hang
  <2>2. pc[c] \in {"query", "login"} /\ as' = [as EXCEPT ![c] = None]
        /\ UNCHANGED <<boundDN, sessions, lock, live, alone, late>>
    BY <1>10 DEF QueryAnswered, Hang
  <2>. QED  BY <2>1, <2>2
<1>11. CASE Hangup(c)
  <2>1. live' \in [Conns -> BOOLEAN]
    BY <1>11, Zenon DEF Hangup
  <2>. QED  BY <1>11, <2>1 DEF Hangup
<1>. QED
  BY <1>1, <1>2, <1>3, <1>4, <1>5, <1>6, <1>7, <1>8, <1>9, <1>10, <1>11 DEF Step

\* A step is about one connection.
LEMMA Frame ==
  ASSUME TypeOK, NEW c \in Conns, Step(c), NEW d \in Conns, d # c
  PROVE  /\ pc'[d] = pc[d] /\ boundDN'[d] = boundDN[d] /\ as'[d] = as[d]
         /\ live'[d] = live[d] /\ alone'[d] = alone[d] /\ late'[d] = late[d]
<1>. USE DEF TypeOK, Goto
<1>1. CASE Connect(c) \/ Reset(c)
  <2>1. live'[d] = live[d]
    BY <1>1, Zenon DEF Connect, Reset
  <2>. QED  BY <1>1, <2>1 DEF Connect, Reset
<1>2. CASE \E u \in Users : Bind(c, u)
  BY <1>2 DEF Bind
<1>3. CASE LoginFails(c) \/ LoginSucceeds(c) \/ Lock(c) \/ Store(c)
  BY <1>3 DEF LoginFails, LoginSucceeds, Lock, Store
<1>4. CASE Lookup(c) \/ Delete(c) \/ Search(c)
  BY <1>4 DEF Lookup, Delete, Gone, Search
<1>5. CASE QueryAnswered(c) \/ Hang(c)
  BY <1>5 DEF QueryAnswered, Hang
<1>6. CASE Hangup(c)
  <2>1. live'[d] = live[d]
    BY <1>6, Zenon DEF Hangup
  <2>. QED  BY <1>6, <2>1 DEF Hangup
<1>. QED  BY <1>1, <1>2, <1>3, <1>4, <1>5, <1>6 DEF Step

\* What a step does to its own connection's place in the network.
LEMMA OwnPlace ==
  ASSUME TypeOK, Alone, NEW c \in Conns, Step(c), ~Connect(c)
  PROVE  /\ live'[c] => /\ live[c] /\ alone'[c] = alone[c] /\ late'[c] = late[c]
                        /\ pc'[c] \notin {"closed"} \cup Closing
         /\ pc[c] = "closed" => pc'[c] = "closed"
         /\ (~live[c] /\ pc'[c] \in Binding) => pc[c] \in Binding /\ as'[c] = as[c]
<1>. USE DEF TypeOK, Goto, Alone, Binding, Closing
<1>1. CASE Reset(c)
  <2>1. ~live'[c]
    BY <1>1, Zenon DEF Reset
  <2>. QED  BY <1>1, <2>1 DEF Reset
<1>2. CASE \E u \in Users : Bind(c, u)
  BY <1>2 DEF Bind
<1>3. CASE LoginFails(c) \/ LoginSucceeds(c)
  BY <1>3 DEF LoginFails, LoginSucceeds
<1>4. CASE Lock(c) \/ Store(c) \/ Lookup(c) \/ Delete(c)
  BY <1>4 DEF Lock, Store, Lookup, Delete, Gone
<1>5. CASE Search(c) \/ QueryAnswered(c) \/ Hang(c)
  BY <1>5 DEF Search, QueryAnswered, Hang
<1>6. CASE Hangup(c)
  <2>1. ~live'[c]
    BY <1>6, Zenon DEF Hangup
  <2>. QED  BY <1>6, <2>1 DEF Hangup
<1>. QED  BY <1>1, <1>2, <1>3, <1>4, <1>5, <1>6 DEF Step

\* One conjunct of Alone, for a pair of connections of an address.
Apart(c, d) ==
    live[c] => /\ ~live[d]
               /\ alone[c] => pc[d] = "closed"
               /\ pc[d] \in Binding => as[d] \in late[c]

LEMMA AloneStep ==
  ASSUME TypeOK, Alone, NEW c \in Conns, Step(c)
  PROVE  Alone'
<1>1. ASSUME NEW d \in Conns, live'[d]
      PROVE  pc'[d] \notin {"closed"} \cup Closing
  <2>1. CASE d # c
    BY <1>1, <2>1, Frame DEF Alone
  <2>2. CASE d = c /\ Connect(c)
    BY <2>2 DEF Connect, Goto, TypeOK, Closing
  <2>3. CASE d = c /\ ~Connect(c)
    BY <1>1, <2>3, OwnPlace
  <2>. QED  BY <2>1, <2>2, <2>3
<1>2. ASSUME NEW d \in Conns, NEW e \in SameAddress(d)
      PROVE  Apart(d, e)'
  <2>. e \in Conns /\ e # d /\ e \in SameAddress(d) /\ d \in SameAddress(e)
    BY <1>2 DEF SameAddress
  <2>. SUFFICES ASSUME live'[d] PROVE Apart(d, e)'
    BY DEF Apart
  <2>1. CASE d = c /\ Connect(c)
    <3>1. pc'[e] = pc[e] /\ live'[e] = live[e] /\ as'[e] = as[e]
      BY <2>1, Frame
    <3>2. ~live[e]
      BY <2>1 DEF Connect
    <3>3. alone'[d] => pc[e] = "closed"
      BY <2>1, Zenon DEF Connect, TypeOK
    <3>4. late'[d] = {as[f] : f \in {g \in SameAddress(d) : pc[g] \in Binding}}
      BY <2>1 DEF Connect, TypeOK
    <3>. QED  BY <3>1, <3>2, <3>3, <3>4 DEF Apart
  <2>2. CASE d = c /\ ~Connect(c)
    <3>1. live[d] /\ alone'[d] = alone[d] /\ late'[d] = late[d]
      BY <2>2, OwnPlace
    <3>2. pc'[e] = pc[e] /\ live'[e] = live[e] /\ as'[e] = as[e]
      BY <2>2, Frame
    <3>. QED  BY <3>1, <3>2 DEF Alone, Apart
  <2>3. CASE e = c
    <3>1. live[d] /\ alone'[d] = alone[d] /\ late'[d] = late[d]
      BY <2>3, Frame
    <3>2. ~Connect(c)
      BY <2>3, <3>1 DEF Connect
    <3>3. /\ ~live[e]
          /\ alone[d] => pc[e] = "closed"
          /\ pc[e] \in Binding => as[e] \in late[d]
      BY <3>1 DEF Alone
    <3>4. /\ ~live'[e]
          /\ pc[e] = "closed" => pc'[e] = "closed"
          /\ pc'[e] \in Binding => pc[e] \in Binding /\ as'[e] = as[e]
      BY <2>3, <3>2, <3>3, OwnPlace
    <3>. QED  BY <3>1, <3>3, <3>4 DEF Apart
  <2>4. CASE d # c /\ e # c
    <3>1. /\ live[d] /\ alone'[d] = alone[d] /\ late'[d] = late[d]
          /\ pc'[e] = pc[e] /\ live'[e] = live[e] /\ as'[e] = as[e]
      BY <2>4, Frame
    <3>. QED  BY <3>1 DEF Alone, Apart
  <2>. QED  BY <2>1, <2>2, <2>3, <2>4
<1>. QED  BY <1>1, <1>2 DEF Alone, Apart, SameAddress

\* Only a store of its own, a late store and a late delete touch what a
\* connection relies on.
LEMMA KeptStep ==
  ASSUME TypeOK, Alone, Kept, NEW c \in Conns, Step(c)
  PROVE  Kept'
<1>. SUFFICES ASSUME NEW d \in Conns
              PROVE  /\ (pc[d] = "closed" => boundDN[d] = None)'
                     /\ (pc[d] \in {"search", "lookup"} => boundDN[d] # None)'
                     /\ ((live[d] /\ boundDN[d] # None) =>
                           \/ sessions[AddrOf[d]] = boundDN[d]
                           \/ ~alone[d] /\ sessions[AddrOf[d]] = None
                           \/ sessions[AddrOf[d]] \in late[d])'
  BY DEF Kept
<1>. USE DEF Goto
<1>0. AddrOf[c] \in Addrs /\ AddrOf[d] \in Addrs
  BY ConnAssumption
<1>1. CASE d # c
  <2>1. /\ pc'[d] = pc[d] /\ boundDN'[d] = boundDN[d]
        /\ live'[d] = live[d] /\ alone'[d] = alone[d] /\ late'[d] = late[d]
    BY <1>1, Frame
  <2>2. ASSUME live[d], boundDN[d] # None
        PROVE  \/ sessions'[AddrOf[d]] = boundDN[d]
               \/ ~alone[d] /\ sessions'[AddrOf[d]] = None
               \/ sessions'[AddrOf[d]] \in late[d]
    <3>1. \/ sessions[AddrOf[d]] = boundDN[d]
          \/ ~alone[d] /\ sessions[AddrOf[d]] = None
          \/ sessions[AddrOf[d]] \in late[d]
      BY <2>2 DEF Kept
    <3>2. CASE Store(c) \/ Delete(c)
      <4>1. CASE AddrOf[c] # AddrOf[d]
        BY <1>0, <3>1, <3>2, <4>1 DEF Store, Delete, TypeOK
      <4>2. CASE AddrOf[c] = AddrOf[d]
        <5>1. c \in SameAddress(d)
          BY <1>1, <4>2 DEF SameAddress
        <5>2. CASE Store(c)
          <6>1. as[c] \in late[d]
            BY <2>2, <5>1, <5>2 DEF Alone, Binding, Store
          <6>. QED  BY <1>0, <4>2, <5>2, <6>1 DEF Store, TypeOK
        <5>3. CASE Delete(c)
          <6>1. ~alone[d]
            BY <2>2, <5>1, <5>3 DEF Alone, Delete
          <6>. QED  BY <1>0, <4>2, <5>3, <6>1 DEF Delete, TypeOK
        <5>. QED  BY <3>2, <5>2, <5>3
      <4>. QED  BY <4>1, <4>2
    <3>3. CASE ~Store(c) /\ ~Delete(c)
      <4>1. sessions' = sessions
        BY <3>3 DEF Step, Connect, Reset, Bind, LoginFails, LoginSucceeds, Lock, Lookup,
                    Search, QueryAnswered, Hang, Hangup
      <4>. QED  BY <3>1, <4>1
    <3>. QED  BY <3>2, <3>3
  <2>. QED  BY <2>1, <2>2 DEF Kept
<1>2. CASE d = c
  <2>. USE <1>2 DEF Kept, TypeOK
  <2>1. CASE Connect(c)
    BY <2>1 DEF Connect
  <2>2. CASE Store(c)
    BY <1>0, <2>2, ConnAssumption DEF Store
  <2>3. CASE Delete(c)
    <3>1. ~live'[c]
      BY <2>3 DEF Delete, Gone, Alone, Closing
    <3>. QED  BY <2>3, <3>1 DEF Delete, Gone
  <2>4. CASE ~Connect(c) /\ ~Store(c) /\ ~Delete(c)
    <3>1. sessions' = sessions /\ boundDN' = boundDN
      BY <2>4 DEF Step, Reset, Bind, LoginFails, LoginSucceeds, Lock, Lookup,
                  Search, QueryAnswered, Hang, Hangup
    <3>2. live'[c] => live[c] /\ alone'[c] = alone[c] /\ late'[c] = late[c]
      BY <2>4, OwnPlace
    <3>3. pc'[c] # "closed"
      <4>1. CASE Reset(c)
        BY <4>1 DEF Reset, Alone
      <4>2. CASE \E u \in Users : Bind(c, u)
        BY <4>2 DEF Bind
      <4>3. CASE LoginFails(c) \/ LoginSucceeds(c) \/ Lock(c) \/ Lookup(c)
        BY <4>3 DEF LoginFails, LoginSucceeds, Lock, Lookup
      <4>4. CASE Search(c) \/ QueryAnswered(c) \/ Hang(c) \/ Hangup(c)
        BY <4>4 DEF Search, QueryAnswered, Hang, Hangup
      <4>. QED  BY <2>4, <4>1, <4>2, <4>3, <4>4 DEF Step
    <3>4. pc'[c] \in {"search", "lookup"} => boundDN[c] # None
      <4>1. CASE Reset(c)
        BY <4>1 DEF Reset
      <4>2. CASE \E u \in Users : Bind(c, u)
        BY <4>2 DEF Bind
      <4>3. CASE LoginFails(c) \/ LoginSucceeds(c) \/ Lock(c) \/ Lookup(c)
        BY <4>3 DEF LoginFails, LoginSucceeds, Lock, Lookup
      <4>4. CASE Search(c) \/ QueryAnswered(c) \/ Hang(c) \/ Hangup(c)
        BY <4>4 DEF Search, QueryAnswered, Hang, Hangup
      <4>. QED  BY <2>4, <4>1, <4>2, <4>3, <4>4 DEF Step
    <3>. QED  BY <3>1, <3>2, <3>3, <3>4
  <2>. QED  BY <2>1, <2>2, <2>3, <2>4
<1>. QED  BY <1>1, <1>2

\* Only a lookup starts a query, and it reads what Kept says of the map.
LEMMA SearchStep ==
  ASSUME TypeOK, Alone, Kept, SearchesAsBound, NEW c \in Conns, Step(c)
  PROVE  SearchesAsBound'
<1>. SUFFICES ASSUME NEW d \in Conns,
                     pc'[d] = "query", live'[d]
              PROVE  \/ as'[d] = boundDN'[d]
                     \/ ~alone'[d] /\ as'[d] = None
                     \/ as'[d] \in late'[d]
  BY DEF SearchesAsBound
<1>1. CASE d # c
  <2>1. /\ pc[d] = "query" /\ live[d] /\ alone'[d] = alone[d] /\ late'[d] = late[d]
        /\ as'[d] = as[d] /\ boundDN'[d] = boundDN[d]
    BY <1>1, Frame
  <2>. QED  BY <2>1 DEF SearchesAsBound
<1>2. CASE d = c /\ Lookup(c)
  BY <1>2, ConnAssumption DEF Lookup, Kept, TypeOK, Goto
<1>3. CASE d = c /\ Reset(c)
  BY <1>3, Zenon DEF Reset, TypeOK
<1>4. CASE d = c /\ ~Lookup(c) /\ ~Reset(c)
  <2>. USE <1>4 DEF TypeOK, Goto
  <2>1. CASE Connect(c) \/ Search(c) \/ QueryAnswered(c) \/ Hang(c) \/ Hangup(c)
    BY <2>1 DEF Connect, Search, QueryAnswered, Hang, Hangup
  <2>2. CASE \E u \in Users : Bind(c, u)
    BY <2>2 DEF Bind
  <2>3. CASE LoginFails(c) \/ LoginSucceeds(c) \/ Lock(c) \/ Store(c) \/ Delete(c)
    BY <2>3 DEF LoginFails, LoginSucceeds, Lock, Store, Delete, Gone
  <2>. QED  BY <2>1, <2>2, <2>3 DEF Step
<1>. QED  BY <1>1, <1>2, <1>3, <1>4

\* The connection that stored a session last vouches for it until it deletes
\* it.
LEMMA ConnectedStep ==
  ASSUME TypeOK, SessionsOfTheConnected, NEW c \in Conns, Step(c)
  PROVE  SessionsOfTheConnected'
<1>. SUFFICES ASSUME NEW a \in Addrs, sessions'[a] # None
              PROVE  \E d \in Conns : AddrOf[d] = a /\ boundDN'[d] = sessions'[a]
                                      /\ pc'[d] # "closed"
  BY DEF SessionsOfTheConnected
<1>. USE ConnAssumption DEF TypeOK, Closing, Goto
<1>1. CASE Store(c)
  <2>1. CASE a = AddrOf[c]
    <3>1. boundDN'[c] = sessions'[a] /\ pc'[c] # "closed"
      BY <1>1, <2>1 DEF Store
    <3>. QED  BY <2>1, <3>1
  <2>2. CASE a # AddrOf[c]
    <3>1. sessions'[a] = sessions[a]
      BY <1>1, <2>2 DEF Store
    <3>2. PICK d \in Conns : AddrOf[d] = a /\ boundDN[d] = sessions[a] /\ pc[d] # "closed"
      BY <3>1 DEF SessionsOfTheConnected
    <3>. QED  BY <1>1, <2>2, <3>1, <3>2 DEF Store
  <2>. QED  BY <2>1, <2>2
<1>2. CASE Delete(c)
  <2>1. a # AddrOf[c] /\ sessions'[a] = sessions[a]
    BY <1>2 DEF Delete
  <2>2. PICK d \in Conns : AddrOf[d] = a /\ boundDN[d] = sessions[a] /\ pc[d] # "closed"
    BY <2>1 DEF SessionsOfTheConnected
  <2>. QED  BY <1>2, <2>1, <2>2 DEF Delete, Gone
<1>3. CASE ~Store(c) /\ ~Delete(c)
  <2>1. UNCHANGED <<sessions, boundDN>>
    BY <1>3 DEF Step, Connect, Reset, Bind, LoginFails, LoginSucceeds, Lock, Lookup,
                Search, QueryAnswered, Hang, Hangup
  <2>2. PICK d \in Conns : AddrOf[d] = a /\ boundDN[d] = sessions[a] /\ pc[d] # "closed"
    BY <2>1 DEF SessionsOfTheConnected
  <2>3. pc'[d] # "closed"
    <3>1. CASE Connect(c) \/ Reset(c)
      BY <2>2, <3>1 DEF Connect, Reset
    <3>2. CASE (\E u \in Users : Bind(c, u)) \/ LoginFails(c) \/ LoginSucceeds(c)
      BY <2>2, <3>2 DEF Bind, LoginFails, LoginSucceeds
    <3>3. CASE Lock(c) \/ Lookup(c) \/ Search(c)
      BY <2>2, <3>3 DEF Lock, Lookup, Search
    <3>4. CASE QueryAnswered(c) \/ Hang(c) \/ Hangup(c)
      BY <2>2, <3>4 DEF QueryAnswered, Hang, Hangup
    <3>. QED  BY <1>3, <3>1, <3>2, <3>3, <3>4 DEF Step
  <2>. QED  BY <2>1, <2>2, <2>3
<1>. QED  BY <1>1, <1>2, <1>3

LEMMA SessionNext == SessionInv /\ [Next]_vars => SessionInv'
<1>. SUFFICES ASSUME SessionInv, [Next]_vars PROVE SessionInv'
  OBVIOUS
<1>1. CASE Next
  <2>1. PICK c \in Conns : Step(c)
    BY <1>1 DEF Next, Serve, Client, Step
  <2>. QED
    BY <2>1, TypeStep, AloneStep, KeptStep, SearchStep, ConnectedStep DEF SessionInv
<1>2. CASE UNCHANGED vars
  BY <1>2 DEF vars, SessionInv, TypeOK, Alone, SameAddress, Kept, SearchesAsBound,
              SessionsOfTheConnected
<1>. QED  BY <1>1, <1>2

\* Mutual exclusion under ownCloudLock, and the types.
THEOREM TypeCorrect == Spec => []TypeOK
<1>1. SessionInv => TypeOK
  BY DEF SessionInv
<1>. QED  BY <1>1, SessionInit, SessionNext, PTL DEF Spec

\* A search goes to ownCloud as the user the connection is bound as, or, if
\* another connection from the address was not over when it connected, with no
\* session or as the user that one was binding as then; as nobody else.
THEOREM SearchesGoAsBound == Spec => []SearchesAsBound
<1>1. SessionInv => SearchesAsBound
  BY DEF SessionInv
<1>. QED  BY <1>1, SessionInit, SessionNext, PTL DEF Spec

\* Credentials are kept for the connected only.
THEOREM SessionsAreOfTheConnected == Spec => []SessionsOfTheConnected
<1>1. SessionInv => SessionsOfTheConnected
  BY DEF SessionInv
<1>. QED  BY <1>1, SessionInit, SessionNext, PTL DEF Spec

=============================================================================
