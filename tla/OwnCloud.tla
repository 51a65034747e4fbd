------------------------------ MODULE OwnCloud ------------------------------
(***************************************************************************)
(* The ownCloud backend (v2/pkg/handler/owncloud.go).  A bind asks         *)
(* ownCloud whether the credentials are good and keeps them in `sessions`  *)
(* under the addresses of the connection; a search takes them from there   *)
(* and asks ownCloud with them.  One lock, shared by all backends of this  *)
(* kind, guards the map, and no request is made under it.                  *)
(*                                                                         *)
(* External: ownCloud, which may answer, refuse, fail or never answer (the *)
(* HTTP client has no timeout); and the front end, which serves the        *)
(* requests of a connection one by one, takes a panic of a handler for an  *)
(* error, ends a connection after a search that returned one, and calls    *)
(* Close when the connection is over.  An address can be used again once   *)
(* the connection from it is gone from the network: glauth closed it, or   *)
(* its client reset it, and then its request may still be at work.         *)
(***************************************************************************)

CONSTANTS
    Conns, Addrs,
    AddrOf,         \* the address a connection comes from
    Users,
    None            \* no user, no session, nobody

ASSUME ConnAssumption == AddrOf \in [Conns -> Addrs] /\ None \notin Users \cup Conns

VARIABLES
    pc,             \* where the goroutine of each connection is
    boundDN,        \* whom the front end takes it for
    as,             \* the user whose credentials its request carries
    sessions,       \* the map: the user of each address's session
    lock,           \* who holds ownCloudLock
    live,           \* is it there in the network?
    alone,          \* history: when it connected, was every connection from
                    \* its address over?
    late            \* history: whom those that were not were binding as then

vars == <<pc, boundDN, as, sessions, lock, live, alone, late>>

Init ==
    /\ pc = [c \in Conns |-> "closed"]
    /\ boundDN = [c \in Conns |-> None]
    /\ as = [c \in Conns |-> None]
    /\ sessions = [a \in Addrs |-> None]
    /\ lock = None
    /\ live = [c \in Conns |-> FALSE]
    /\ alone = [c \in Conns |-> TRUE]
    /\ late = [c \in Conns |-> {}]

-----------------------------------------------------------------------------
Goto(c, l) == pc' = [pc EXCEPT ![c] = l]
Binding == {"login", "accepted", "store"}
Closing == {"closing", "delete"}
SameAddress(c) == {d \in Conns \ {c} : AddrOf[d] = AddrOf[c]}

Connect(c) ==
    /\ pc[c] = "closed"
    /\ \A d \in SameAddress(c) : ~live[d]
    /\ Goto(c, "idle")
    /\ live' = [live EXCEPT ![c] = TRUE]
    /\ alone' = [alone EXCEPT ![c] = \A d \in SameAddress(c) : pc[d] = "closed"]
    /\ late' = [late EXCEPT ![c] = {as[d] : d \in {e \in SameAddress(c) : pc[e] \in Binding}}]
    /\ UNCHANGED <<boundDN, as, sessions, lock>>

\* External: the client resets the connection.
Reset(c) ==
    /\ live[c]
    /\ live' = [live EXCEPT ![c] = FALSE]
    /\ UNCHANGED <<pc, boundDN, as, sessions, lock, alone, late>>

\* Slip: the session is there before ownCloud has agreed.
BindAtOnce(c, u) ==
    /\ pc[c] = "idle" /\ live[c]
    /\ Goto(c, "login")
    /\ as' = [as EXCEPT ![c] = u]
    /\ sessions' = [sessions EXCEPT ![AddrOf[c]] = u]
    /\ UNCHANGED <<boundDN, lock, live, alone, late>>

\* Bind, with a DN that is under the base DN
Bind(c, u) ==
    /\ pc[c] = "idle" /\ live[c]
    /\ Goto(c, "login")
    /\ as' = [as EXCEPT ![c] = u]
    /\ UNCHANGED <<boundDN, sessions, lock, live, alone, late>>

\* login: refused, or a panic since there is no response; either way the
\* connection stays what it was.
LoginFails(c) ==
    /\ pc[c] = "login"
    /\ Goto(c, "idle")
    /\ as' = [as EXCEPT ![c] = None]
    /\ UNCHANGED <<boundDN, sessions, lock, live, alone, late>>

LoginSucceeds(c) ==
    /\ pc[c] = "login"
    /\ Goto(c, "accepted")
    /\ UNCHANGED <<boundDN, as, sessions, lock, live, alone, late>>

\* Slip: a return without Unlock.
StoreLocked(c) ==
    /\ pc[c] = "store"
    /\ sessions' = [sessions EXCEPT ![AddrOf[c]] = as[c]]
    /\ boundDN' = [boundDN EXCEPT ![c] = as[c]]
    /\ as' = [as EXCEPT ![c] = None]
    /\ Goto(c, "idle")
    /\ UNCHANGED <<lock, live, alone, late>>

\* h.sessions[id] = s; the answer makes the front end note the name.
Store(c) ==
    /\ pc[c] = "store"
    /\ sessions' = [sessions EXCEPT ![AddrOf[c]] = as[c]]
    /\ boundDN' = [boundDN EXCEPT ![c] = as[c]]
    /\ as' = [as EXCEPT ![c] = None]
    /\ lock' = None
    /\ Goto(c, "idle")
    /\ UNCHANGED <<live, alone, late>>

\* h.lock.Lock(), in Bind, Search and Close
Lock(c) ==
    /\ lock = None
    /\ lock' = c
    /\ \/ pc[c] = "accepted" /\ Goto(c, "store")
       \/ pc[c] = "search" /\ Goto(c, "lookup")
       \/ pc[c] = "closing" /\ Goto(c, "delete")
    /\ UNCHANGED <<boundDN, as, sessions, live, alone, late>>

\* A search by somebody bound, under the base DN, with a filter
Search(c) ==
    /\ pc[c] = "idle" /\ live[c]
    /\ boundDN[c] # None
    /\ Goto(c, "search")
    /\ UNCHANGED <<boundDN, as, sessions, lock, live, alone, late>>

\* session := h.sessions[id], a copy, zero if there is none
Lookup(c) ==
    /\ pc[c] = "lookup"
    /\ as' = [as EXCEPT ![c] = sessions[AddrOf[c]]]
    /\ lock' = None
    /\ Goto(c, "query")
    /\ UNCHANGED <<boundDN, sessions, live, alone, late>>

\* getGroups, getUsers
QueryAnswered(c) ==
    /\ pc[c] = "query"
    /\ as[c] # None
    /\ Goto(c, "idle")
    /\ as' = [as EXCEPT ![c] = None]
    /\ UNCHANGED <<boundDN, sessions, lock, live, alone, late>>

\* The connection is over: the client has left, or a search was refused or
\* failed, or panicked without a session.  Close: conn.Close() ..
Hangup(c) ==
    /\ pc[c] \in {"idle", "query"}
    /\ Goto(c, "closing")
    /\ as' = [as EXCEPT ![c] = None]
    /\ live' = [live EXCEPT ![c] = FALSE]
    /\ UNCHANGED <<boundDN, sessions, lock, alone, late>>

Gone(c) ==
    /\ Goto(c, "closed")
    /\ boundDN' = [boundDN EXCEPT ![c] = None]
    /\ alone' = [alone EXCEPT ![c] = TRUE]
    /\ late' = [late EXCEPT ![c] = {}]
    /\ lock' = None
    /\ UNCHANGED <<as, live>>

\* Slip: the session outlives its connection.
DeleteNothing(c) ==
    /\ pc[c] = "delete"
    /\ Gone(c)
    /\ UNCHANGED sessions

\* .. and delete(h.sessions, connID(conn)), under the lock
Delete(c) ==
    /\ pc[c] = "delete"
    /\ Gone(c)
    /\ sessions' = [sessions EXCEPT ![AddrOf[c]] = None]

\* External: ownCloud never answers.
Hang(c) ==
    /\ pc[c] \in {"login", "query"}
    /\ as[c] # None
    /\ Goto(c, "hung")
    /\ as' = [as EXCEPT ![c] = None]
    /\ UNCHANGED <<boundDN, sessions, lock, live, alone, late>>

\* What the handler does of itself.
Serve(c) ==
    \/ LoginFails(c) \/ LoginSucceeds(c)
    \/ Lock(c)
    \/ Store(c) \/ Lookup(c) \/ Delete(c)
    \/ QueryAnswered(c)
    \/ pc[c] = "query" /\ Hangup(c)
    \/ pc[c] = "idle" /\ ~live[c] /\ Hangup(c)

Client(c) ==
    \/ Connect(c)
    \/ \E u \in Users : Bind(c, u)
    \/ Search(c)
    \/ pc[c] = "idle" /\ live[c] /\ Hangup(c)
    \/ Reset(c)

Next == \E c \in Conns : Serve(c) \/ Client(c) \/ Hang(c)

Spec == Init /\ [][Next]_vars

\* Goroutines are scheduled, the mutex starves nobody, and ownCloud answers
\* what does not hang.
FairSpec == Spec /\ \A c \in Conns : SF_vars(Serve(c))

-----------------------------------------------------------------------------
(* Properties.                                                             *)

Labels == {"closed", "idle", "search", "lookup", "query", "hung"} \cup Binding \cup Closing

\* Every variable keeps its type, and the lock has a holder exactly while one
\* goroutine is between Lock and Unlock.
TypeOK ==
    /\ pc \in [Conns -> Labels]
    /\ boundDN \in [Conns -> Users \cup {None}]
    /\ as \in [Conns -> Users \cup {None}]
    /\ sessions \in [Addrs -> Users \cup {None}]
    /\ lock \in Conns \cup {None}
    /\ \A c \in Conns : lock = c <=> pc[c] \in {"store", "lookup", "delete"}
    /\ live \in [Conns -> BOOLEAN]
    /\ alone \in [Conns -> BOOLEAN]
    /\ late \in [Conns -> SUBSET (Users \cup {None})]

\* A search goes to ownCloud with the credentials of the user the connection
\* is bound as, through refused binds, other binds, and connections that had
\* the address before.  Who connected while one of these was not over may find
\* no session, because its late delete took it; and if that one was binding, the
\* user it was binding as, because the login was late.  Nobody else's.
SearchesAsBound ==
    \A c \in Conns : (pc[c] = "query" /\ live[c]) =>
        \/ as[c] = boundDN[c]
        \/ ~alone[c] /\ as[c] = None
        \/ as[c] \in late[c]

\* The map holds no credentials but those of users whose connection is there
\* or is just being closed.
SessionsOfTheConnected ==
    \A a \in Addrs : sessions[a] # None =>
        \E c \in Conns : AddrOf[c] = a /\ boundDN[c] = sessions[a] /\ pc[c] # "closed"

\* A request is answered or its connection ended, however many others wait for
\* an ownCloud that never answers.
EveryRequestAnswered ==
    \A c \in Conns :
        pc[c] \notin {"idle", "closed"} ~> pc[c] \in {"idle", "closed", "hung"}

=============================================================================
