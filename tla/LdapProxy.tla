------------------------------ MODULE LdapProxy ------------------------------
(***************************************************************************)
(* The LDAP backend (v2/pkg/handler/ldap.go): a request of a client goes   *)
(* over a connection to one of the configured servers, here a link.  The   *)
(* links are kept in `sessions`, under the addresses of the client's       *)
(* connection; a monitor goroutine dials every server once a minute, or    *)
(* when a request could not reach one.                                     *)
(*                                                                         *)
(* External: the servers, the network, and the front end, which runs one   *)
(* goroutine per client connection, serves its requests one by one, ends a *)
(* connection after a search that returned an error, and calls Close when  *)
(* the connection is over.  An address can be used again once the          *)
(* connection from it is gone from the network: glauth closed it, or its   *)
(* client reset it, and then its request may still be at work.  A server   *)
(* answers a refused bind by taking the link for anonymous (RFC 4511,      *)
(* 4.2.1); it may never answer, and no request has a timeout.              *)
(***************************************************************************)
EXTENDS Naturals

CONSTANTS
    Conns,          \* client connections (goroutines)
    Addrs,          \* the addresses they come from
    NumServers,     \* [backend] servers, pinged in this order
    Links,          \* heap cells for connections to servers
    Names,          \* what clients bind as
    Nobody,         \* the anonymous identity
    None,           \* no session
    Pings,          \* bound: the pings that may be measured, per server
    MaxOutages      \* bound: number of outages of servers

Servers == 1 .. NumServers

ASSUME ProxyAssumption ==
    /\ NumServers \in Nat \ {0}
    /\ Pings \in [Servers -> SUBSET (Nat \ {0})]
    /\ MaxOutages \in Nat
    /\ Links \subseteq Nat
    /\ Nobody \notin Names
    /\ None \notin Links \cup Addrs

Identities == Names \cup {Nobody}

VARIABLES
    alive,          \* servers that accept connections
    outages,
    status, ping,   \* servers[k].Status = Up, servers[k].Ping
    pinged,         \* the server the monitor dials next, 0 when it waits
    serving,        \* NewLdapHandler has returned
    up,             \* FALSE once the process has exited
    sessions,       \* the map: link of each address, or None
    links,          \* the links
    pc,             \* where the goroutine of each connection is
    addr,           \* where the connection comes from
    live,           \* is it there in the network?
    target,         \* the server getBestServer chose for it
    link,           \* the link its request goes over
    boundDN,        \* whom the front end takes it for
    alone,          \* history: no other connection had its address when it
                    \* connected, not even one that was still being closed
    names           \* history: names bound from each address since no
                    \* connection had it

servers == <<alive, outages>>
monitor == <<status, ping, pinged, serving, up>>
locals == <<addr, live, target, link, boundDN>>
history == <<alone, names>>
vars == <<servers, monitor, sessions, links, pc, locals, history>>

Link == [server : Servers, live : BOOLEAN, who : Identities]

\* A link nothing refers to any more.
Blank == [server |-> 1, live |-> FALSE, who |-> Nobody]

Reached == {l \in Links : \/ \E a \in Addrs : sessions[a] = l
                          \/ \E c \in Conns : link[c] = l}

\* The links are now `new`, and what is out of reach is garbage.
Update(new) == links' = [l \in Links |-> IF l \in Reached' THEN new[l] ELSE Blank]

Init ==
    /\ alive = [k \in Servers |-> TRUE]
    /\ outages = 0
    /\ status = [k \in Servers |-> FALSE]
    /\ ping = [k \in Servers |-> 0]
    /\ pinged = 1
    /\ serving = FALSE
    /\ up = TRUE
    /\ sessions = [a \in Addrs |-> None]
    /\ links = [l \in Links |-> Blank]
    /\ pc = [c \in Conns |-> "closed"]
    /\ addr = [c \in Conns |-> None]
    /\ live = [c \in Conns |-> FALSE]
    /\ target = [c \in Conns |-> 0]
    /\ link = [c \in Conns |-> None]
    /\ boundDN = [c \in Conns |-> Nobody]
    /\ alone = [c \in Conns |-> FALSE]
    /\ names = [a \in Addrs |-> {}]

-----------------------------------------------------------------------------
(* ping and monitorServers.                                                *)

\* The process ends, and with it all connections and what it knew of them.
Exit ==
    /\ up' = FALSE
    /\ sessions' = [a \in Addrs |-> None]
    /\ links' = [l \in Links |-> Blank]
    /\ pc' = [c \in Conns |-> "closed"]
    /\ addr' = [c \in Conns |-> None]
    /\ live' = [c \in Conns |-> FALSE]
    /\ target' = [c \in Conns |-> 0]
    /\ link' = [c \in Conns |-> None]
    /\ boundDN' = [c \in Conns |-> Nobody]
    /\ alone' = [c \in Conns |-> FALSE]
    /\ names' = [a \in Addrs |-> {}]

\* Slip: a server that does not answer keeps the status it had.
PingForgives ==
    /\ up /\ pinged # 0
    /\ pinged' = IF pinged = NumServers THEN 0 ELSE pinged + 1
    /\ serving' = (serving \/ pinged = NumServers)
    /\ status' = [status EXCEPT ![pinged] = @ \/ alive[pinged]]
    /\ IF alive[pinged]
       THEN \E p \in Pings[pinged] : ping' = [ping EXCEPT ![pinged] = p]
       ELSE UNCHANGED ping
    /\ UNCHANGED <<servers, up, sessions, links, pc, locals, history>>

\* Slip: the loop runs one server too far.
PingPast ==
    /\ up /\ pinged # 0
    /\ alive[pinged]
    /\ pinged' = IF pinged > NumServers THEN 0 ELSE pinged + 1
    /\ UNCHANGED <<servers, status, ping, serving, up, sessions, links, pc, locals, history>>

\* One turn of the loop of ping.  log.Fatal exits when a server does not
\* answer, so the lines that would mark it Down are never reached.
Ping ==
    /\ up /\ pinged # 0
    /\ IF alive[pinged]
       THEN /\ \E p \in Pings[pinged] : ping' = [ping EXCEPT ![pinged] = p]
            /\ status' = [status EXCEPT ![pinged] = TRUE]
            /\ pinged' = IF pinged = NumServers THEN 0 ELSE pinged + 1
            /\ serving' = (serving \/ pinged = NumServers)
            /\ UNCHANGED <<up, sessions, links, pc, locals, history>>
       ELSE Exit /\ UNCHANGED <<status, ping, pinged, serving>>
    /\ UNCHANGED servers

\* case <-time.NewTimer(60 * time.Second).C
Timer ==
    /\ up /\ pinged = 0
    /\ pinged' = 1
    /\ UNCHANGED <<servers, status, ping, serving, up, sessions, links, pc, locals, history>>

-----------------------------------------------------------------------------
(* A connection's goroutine.                                               *)

Runs(c, l) == up /\ serving /\ pc[c] = l
Goto(c, l) == pc' = [pc EXCEPT ![c] = l]

\* The other connections from an address whose goroutines are not done.
Others(c, a) == {d \in Conns \ {c} : pc[d] # "closed" /\ addr[d] = a}

\* External: a client connects.  To the operating system the address is free
\* when no live connection has it.
Connect(c, a) ==
    /\ Runs(c, "closed")
    /\ \A d \in Others(c, a) : ~live[d]
    /\ Goto(c, "idle")
    /\ addr' = [addr EXCEPT ![c] = a]
    /\ live' = [live EXCEPT ![c] = TRUE]
    /\ alone' = [alone EXCEPT ![c] = (Others(c, a) = {})]
    /\ UNCHANGED <<servers, monitor, sessions, links, target, link, boundDN, names>>

\* External: the client resets the connection.
Reset(c) ==
    /\ up /\ live[c]
    /\ live' = [live EXCEPT ![c] = FALSE]
    /\ UNCHANGED <<servers, monitor, sessions, links, pc, addr, target, link, boundDN,
                   history>>

\* Bind, its TOTP code accepted, or Search is called.
Request(c) ==
    /\ Runs(c, "idle")
    /\ live[c]
    /\ Goto(c, "lookup")
    /\ UNCHANGED <<servers, monitor, sessions, links, addr, live, target, link, boundDN, history>>

\* connID: the addresses of both ends
Key(c) == addr[c]

\* getSession: h.sessions[id], under the lock
Lookup(c) ==
    LET found == sessions[Key(c)] IN
    /\ Runs(c, "lookup")
    /\ link' = [link EXCEPT ![c] = found]
    /\ Goto(c, IF found = None THEN "choose" ELSE "talk")
    /\ UNCHANGED <<servers, monitor, sessions, links, addr, live, target, boundDN, history>>

\* getBestServer: the first of the fastest servers with Status Up
Best == {k \in Servers :
           /\ status[k]
           /\ \A j \in Servers : status[j] =>
                ping[k] < ping[j] \/ (ping[k] = ping[j] /\ k <= j)}

\* The handler returns to the front end, which reads the next request.
Answer(c) ==
    /\ Goto(c, "idle")
    /\ target' = [target EXCEPT ![c] = 0]
    /\ link' = [link EXCEPT ![c] = None]

Choose(c) ==
    /\ Runs(c, "choose")
    /\ IF Best = {}
       THEN Answer(c)
       ELSE /\ \E k \in Best : target' = [target EXCEPT ![c] = k]
            /\ Goto(c, "dial")
            /\ UNCHANGED link
    /\ UNCHANGED <<servers, monitor, sessions, links, addr, live, boundDN, history>>

\* The server is reached over a new link.
DialDone(c) ==
    /\ Runs(c, "dial")
    /\ alive[target[c]]
    /\ target' = [target EXCEPT ![c] = 0]
    /\ \E l \in Links \ Reached :
         /\ \A j \in Links \ Reached : l <= j
         /\ link' = [link EXCEPT ![c] = l]
         /\ links' = [links EXCEPT ![l] =
                        [server |-> target[c], live |-> TRUE, who |-> Nobody]]
    /\ Goto(c, "store")
    /\ UNCHANGED <<servers, monitor, sessions, addr, live, boundDN, history>>

\* The dial fails: the monitor is asked to ping if it is waiting, and the
\* request gets an error.
DialFailed(c) ==
    /\ Runs(c, "dial")
    /\ ~alive[target[c]]
    /\ pinged' = IF pinged = 0 THEN 1 ELSE pinged
    /\ Answer(c)
    /\ UNCHANGED <<servers, status, ping, serving, up, sessions, links, addr, live, boundDN,
                   history>>

\* h.sessions[s.id] = s, under the lock again
Store(c) ==
    /\ Runs(c, "store")
    /\ sessions' = [sessions EXCEPT ![Key(c)] = link[c]]
    /\ Goto(c, "talk")
    /\ UNCHANGED <<servers, monitor, locals, history>>
    /\ Update(links)

\* The links when the server takes the one of c for n.
TakenFor(c, n) == [links EXCEPT ![link[c]].who = n]

NamesWith(c, n) == [names EXCEPT ![addr[c]] = @ \cup ({n} \ {Nobody})]

\* The server accepts the bind; the front end notes the name.
BindAccepted(c, n) ==
    /\ Runs(c, "talk")
    /\ links[link[c]].live
    /\ names' = NamesWith(c, n)
    /\ boundDN' = [boundDN EXCEPT ![c] = n]
    /\ Answer(c)
    /\ UNCHANGED <<servers, monitor, sessions, addr, live, alone>>
    /\ Update(TakenFor(c, n))

\* The server refuses the bind; the front end keeps the name it had.
BindRefused(c) ==
    /\ Runs(c, "talk")
    /\ links[link[c]].live
    /\ Answer(c)
    /\ UNCHANGED <<servers, monitor, sessions, addr, live, boundDN, history>>
    /\ Update(TakenFor(c, Nobody))

\* The server answers a search.
Answered(c) ==
    /\ Runs(c, "talk")
    /\ links[link[c]].live
    /\ Answer(c)
    /\ UNCHANGED <<servers, monitor, sessions, addr, live, boundDN, history>>
    /\ Update(links)

\* Slip: who waits for a server goes on waiting when the link breaks.
BrokenUnheard(c) ==
    /\ Runs(c, "talk")
    /\ ~links[link[c]].live
    /\ Answer(c)
    /\ UNCHANGED <<servers, monitor, sessions, addr, live, boundDN, history>>
    /\ Update(links)

\* The link is broken: a bind is answered with an error.  The entry stays.
Broken(c) ==
    /\ Runs(c, "talk") \/ Runs(c, "hung")
    /\ ~links[link[c]].live
    /\ Answer(c)
    /\ UNCHANGED <<servers, monitor, sessions, addr, live, boundDN, history>>
    /\ Update(links)

\* External: the server never answers, whatever it has made of the request.
Hang(c) ==
    /\ Runs(c, "talk")
    /\ links[link[c]].live
    /\ \/ \E n \in Identities : links' = TakenFor(c, n) /\ names' = NamesWith(c, n)
       \/ UNCHANGED <<links, names>>
    /\ Goto(c, "hung")
    /\ UNCHANGED <<servers, monitor, sessions, locals, alone>>

\* The connection is over: the client has left, or a search got an error.
\* Close: conn.Close() ..
Hangup(c) ==
    /\ Runs(c, "idle") \/ Runs(c, "talk")
    /\ Goto(c, "closing")
    /\ live' = [live EXCEPT ![c] = FALSE]
    /\ link' = [link EXCEPT ![c] = None]
    /\ UNCHANGED <<servers, monitor, sessions, addr, target, boundDN, history>>
    /\ Update(links)

\* The goroutine ends.
Gone(c) ==
    /\ Goto(c, "closed")
    /\ addr' = [addr EXCEPT ![c] = None]
    /\ boundDN' = [boundDN EXCEPT ![c] = Nobody]
    /\ alone' = [alone EXCEPT ![c] = FALSE]
    /\ names' = IF Others(c, addr[c]) = {} THEN [names EXCEPT ![addr[c]] = {}] ELSE names

\* Slip: the entry is left in the map.
KeepSession(c) ==
    /\ Runs(c, "closing")
    /\ Gone(c)
    /\ UNCHANGED <<servers, monitor, sessions, links, live, target, link>>

\* Slip: only who is bound is taken to have an entry.
KeepAnonymous(c) ==
    /\ Runs(c, "closing")
    /\ sessions' = [sessions EXCEPT ![Key(c)] = IF boundDN[c] = Nobody THEN @ ELSE None]
    /\ Gone(c)
    /\ UNCHANGED <<servers, monitor, live, target, link>>
    /\ Update(links)

\* .. and delete(h.sessions, connID(conn)).  The link is forgotten, not closed.
Delete(c) ==
    /\ Runs(c, "closing")
    /\ sessions' = [sessions EXCEPT ![Key(c)] = None]
    /\ Gone(c)
    /\ UNCHANGED <<servers, monitor, live, target, link>>
    /\ Update(links)

-----------------------------------------------------------------------------
(* Servers (external).                                                     *)

\* A server goes away and breaks its links.  One that goes without a word
\* hangs.
Outage(k) ==
    /\ alive[k]
    /\ outages < MaxOutages
    /\ outages' = outages + 1
    /\ alive' = [alive EXCEPT ![k] = FALSE]
    /\ links' = [l \in Links |-> IF links[l].server = k
                                 THEN [links[l] EXCEPT !.live = FALSE] ELSE links[l]]
    /\ UNCHANGED <<monitor, sessions, pc, locals, history>>

Return(k) ==
    /\ ~alive[k]
    /\ alive' = [alive EXCEPT ![k] = TRUE]
    /\ UNCHANGED <<outages, monitor, sessions, links, pc, locals, history>>

\* The steps the scheduler takes for a goroutine that has work.
Step(c) ==
    \/ Lookup(c) \/ Choose(c) \/ DialDone(c) \/ DialFailed(c) \/ Store(c)
    \/ \E n \in Identities : BindAccepted(c, n)
    \/ BindRefused(c) \/ Answered(c) \/ Broken(c)
    \/ Delete(c)
    \/ ~(pc[c] = "idle" /\ live[c]) /\ Hangup(c)

Client(c) ==
    \/ \E a \in Addrs : Connect(c, a)
    \/ Request(c)
    \/ pc[c] = "idle" /\ live[c] /\ Hangup(c)
    \/ Reset(c)

Next ==
    \/ Ping \/ Timer
    \/ \E c \in Conns : Step(c) \/ Client(c) \/ Hang(c)
    \/ \E k \in Servers : Outage(k) \/ Return(k)

Spec == Init /\ [][Next]_vars

\* Goroutines with work are run, dials end, the minute passes, and a server
\* answers what it does not hang.
FairSpec ==
    /\ Spec
    /\ WF_vars(Ping) /\ WF_vars(Timer)
    /\ \A c \in Conns : WF_vars(Step(c))

-----------------------------------------------------------------------------
(* Properties.                                                             *)

\* At work on a request, or parked in one.
Working == {"lookup", "choose", "dial", "store", "talk", "hung"}

\* Every variable keeps its type; a goroutine uses what it has: an address, a
\* server to dial, a link to talk over.
TypeOK ==
    /\ alive \in [Servers -> BOOLEAN]
    /\ outages \in Nat
    /\ status \in [Servers -> BOOLEAN]
    /\ ping \in [Servers -> Nat]
    /\ pinged \in 0 .. NumServers
    /\ serving \in BOOLEAN
    /\ up \in BOOLEAN
    /\ sessions \in [Addrs -> Links \cup {None}]
    /\ links \in [Links -> Link]
    /\ pc \in [Conns -> {"closed", "idle", "closing"} \cup Working]
    /\ addr \in [Conns -> Addrs \cup {None}]
    /\ live \in [Conns -> BOOLEAN]
    /\ target \in [Conns -> 0 .. NumServers]
    /\ link \in [Conns -> Links \cup {None}]
    /\ boundDN \in [Conns -> Identities]
    /\ alone \in [Conns -> BOOLEAN]
    /\ names \in [Addrs -> SUBSET Names]
    /\ \A c \in Conns :
         /\ pc[c] # "closed" <=> addr[c] # None
         /\ pc[c] = "dial" <=> target[c] # 0
         /\ pc[c] \in {"store", "talk", "hung"} <=> link[c] # None

\* A request of a client that is there is sent to a server as that client: the
\* link it goes over was bound, if at all, by the last bind of that connection
\* that succeeded.  Only who connected while another connection had the address,
\* being closed or with a request at work after its client reset it, can be
\* taken for somebody else (line 369), and then for one who was bound from the
\* address meanwhile.
OwnIdentity ==
    \A c \in Conns : pc[c] = "talk" /\ live[c] /\ links[link[c]].live =>
        LET w == links[link[c]].who IN
        \/ w \in {Nobody, boundDN[c]}
        \/ ~alone[c] /\ w \in names[addr[c]]

\* The map holds links of connections that are there, or are just being closed,
\* bound, if still good, as one of these is, or may have asked a
\* server to be that hangs: it does not grow with the clients that
\* came and went, and keeps nobody's identity beyond his time.
SessionsOfTheConnected ==
    \A a \in Addrs : sessions[a] # None =>
        \E c \in Conns :
            /\ pc[c] # "closed" /\ addr[c] = a
            /\ LET l == links[sessions[a]] IN
               l.live => l.who \in {Nobody, boundDN[c]} \/ pc[c] = "hung"

\* A server that stays away does not stay in the choice of getBestServer.
OutageNoticed ==
    \A k \in Servers : ~alive[k] /\ serving ~> alive[k] \/ ~status[k] \/ ~up

\* Every request is answered, or its connection ended, or the process is gone:
\* only a server that keeps the link and never answers can hold it up.
EveryRequestAnswered ==
    \A c \in Conns : pc[c] \in Working ~>
        \/ pc[c] \notin Working
        \/ pc[c] = "hung" /\ links[link[c]].live
        \/ ~up

=============================================================================
