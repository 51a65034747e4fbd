------------------------------ MODULE SqlGroups ------------------------------
(***************************************************************************)
(* Group inclusion over a database (v2/pkg/plugins/basesqlhandler.go).     *)
(* memoizeGroups reads the inclusions once, in rows that come in no        *)
(* particular order; the walks of GroupClosure then go over what it made   *)
(* of them, but every call of getGroupMemberDNs reads the users anew, from *)
(* tables that others change meanwhile, and takes a query that fails for   *)
(* one without users.  The walks of GroupClosure are what the request      *)
(* would do if nothing changed.                                            *)
(***************************************************************************)
EXTENDS GroupClosure, Naturals, SequencesExt

CONSTANTS
    Tables,         \* what the query may return: rows [gid, included]
    Nothing,        \* a gid nobody has: NULL, or that of a row that opens no entry
    MaxTroubles     \* bound: changes and failed queries during a request

ASSUME SqlAssumption ==
    /\ Nothing \in Gids
    /\ \A t \in Tables : /\ t \in Seq([gid : Gids \ {Nothing}, included : Gids])
                         /\ DOMAIN t \subseteq Groups
    /\ MaxTroubles \in Nat

VARIABLES
    rows,           \* the result of memoizeGroups' query
    belongs,        \* the gids of each user, as the table has them now
    pending,        \* gids the walk down has still to visit
    listed,         \* what it has collected
    failed,         \* a query failed
    troubles,
    ever, always    \* history: the gids each user had at some time, or all the time

svars == <<vars, rows, belongs, pending, listed, failed, troubles, ever, always>>

\* recentId != groupId: row i has another gid than the row before, and opens an
\* entry.  Entries go by the row that opened them.
Opens(i) == i = 1 \/ rows[i].gid # rows[i - 1].gid

\* Slip: pg keeps pointing at the first entry.
MemoizedFirst(i) ==
    {rows[j].included : j \in {k \in i .. Len(rows) : i = 1}} \ {Nothing}

\* Slip: an entry keeps the inclusion of its last row.
MemoizedLast(i) ==
    {rows[j].included :
       j \in {k \in i .. Len(rows) :
               /\ \A l \in i .. k : rows[l].gid = rows[i].gid
               /\ k = Len(rows) \/ rows[k + 1].gid # rows[i].gid}} \ {Nothing}

\* What pg.IncludeGroups of the entry opened by row i gets: the inclusions of
\* that row and of those that follow it with the same gid.
Memoized(i) ==
    {rows[j].included :
       j \in {k \in i .. Len(rows) : \A l \in i .. k : rows[l].gid = rows[i].gid}} \ {Nothing}

\* The entries that memoizeGroups makes of the rows.
Memo == {i \in DOMAIN rows : Opens(i)}

SInit ==
    /\ rows \in Tables
    /\ gidOf = [g \in Groups |-> IF g \in Memo THEN rows[g].gid ELSE Nothing]
    /\ includes = [g \in Groups |-> IF g \in Memo THEN Memoized(g) ELSE {}]
    /\ group \in Memo
    /\ primary \in [Users -> Gids \ {Nothing}]
    /\ others \in [Users -> SUBSET (Gids \ {Nothing})]
    /\ Init
    /\ belongs = [u \in Users |-> others[u] \cup {primary[u]}]
    /\ pending = down
    /\ listed = {}
    /\ failed = FALSE
    /\ troubles = 0
    /\ ever = belongs
    /\ always = belongs

\* The users the query finds in gid.
Found(gid) == {u \in Users : gid \in belongs[u]}

\* getGroupMemberDNs(gid)
Scan(gid) ==
    /\ Descend(gid)
    /\ IF gid \in pending
       THEN /\ listed' = listed \cup Found(gid)
            /\ pending' = (pending \ {gid}) \cup Included(gid)
       ELSE UNCHANGED <<listed, pending>>
    /\ UNCHANGED <<rows, belongs, failed, troubles, ever, always>>

\* Its query fails: no users, and no walk into what gid includes.
ScanFails(gid) ==
    /\ Descend(gid)
    /\ gid \in pending
    /\ troubles < MaxTroubles
    /\ troubles' = troubles + 1
    /\ failed' = TRUE
    /\ pending' = pending \ {gid}
    /\ UNCHANGED <<rows, belongs, listed, ever, always>>

\* The accounts of a search come after its groups.
ClimbAfter(gid) ==
    /\ down = {}
    /\ Climb(gid)
    /\ UNCHANGED <<rows, belongs, pending, listed, failed, troubles, ever, always>>

\* External: a user enters or leaves a group.
Change(u, gid) ==
    /\ down # {}
    /\ troubles < MaxTroubles
    /\ troubles' = troubles + 1
    /\ belongs' = [belongs EXCEPT
         ![u] = IF gid \in belongs[u] THEN belongs[u] \ {gid} ELSE belongs[u] \cup {gid}]
    /\ ever' = [ever EXCEPT ![u] = @ \cup {gid}]
    /\ always' = [always EXCEPT ![u] = @ \ {gid}]
    /\ UNCHANGED <<vars, rows, pending, listed, failed>>

Walk == \E gid \in Gids : Scan(gid) \/ ScanFails(gid) \/ ClimbAfter(gid)

SNext ==
    \/ Walk
    \/ \E u \in Users, gid \in Gids \ {Nothing} : Change(u, gid)

SSpec == SInit /\ [][SNext]_svars

\* The calls of a request are made one after the other.
SFairSpec == SSpec /\ WF_svars(Walk)

-----------------------------------------------------------------------------
(* Properties.                                                             *)

\* The inclusions of the table itself, whatever memoizeGroups makes of them.
Includes(gid) == {r.included : r \in {s \in ToSet(rows) : s.gid = gid}} \ {gid, Nothing}

Below(gid) ==
    {x \in Gids : \A S \in SUBSET Gids :
       gid \in S /\ (\A y \in S : Includes(y) \subseteq S) => x \in S}

\* Whoever stayed in a group that the listed group includes, at any depth, is
\* listed, in whatever order the rows came and whatever else changed during
\* the request, unless a query failed ("Silent fail... for now").
SteadyMembersListed ==
    down = {} /\ ~failed =>
        {u \in Users : always[u] \cap Below(gidOf[group]) # {}} \subseteq listed

\* Nobody is listed who never was in such a group, not even halfway through.
NobodyElseListed ==
    listed \subseteq {u \in Users : ever[u] \cap Below(gidOf[group]) # {}}

=============================================================================
