----------------------------- MODULE GroupClosure -----------------------------
(***************************************************************************)
(* Group inclusion in v2/pkg/handler/config.go (and, word for word, in     *)
(* v2/pkg/plugins/basesqlhandler.go).  A search that returns a group calls *)
(* getGroupMemberDNs and getGroupMemberIDs, which walk down the included   *)
(* groups; a search that returns a user calls getGroupDNs, which walks up  *)
(* to the including groups.  Each recursive call is one step here; the     *)
(* calls still to be made are a set, since the results are collected in a  *)
(* Go map.                                                                 *)
(***************************************************************************)
EXTENDS FiniteSets

CONSTANTS
    Users,
    Groups,         \* [[groups]] entries; two may have the same gidnumber
    Gids,           \* group numbers, defined by an entry or not
    Cyclic          \* the configuration may include groups in a circle

ASSUME GroupAssumption == Cyclic \in BOOLEAN

VARIABLES
    primary, others,    \* User.PrimaryGroup, User.OtherGroups
    gidOf, includes,    \* Group.GIDNumber, Group.IncludeGroups
    group,              \* the group whose entry is built
    down, members,      \* gids getGroupMemberDNs still has to visit; its result
    user,               \* the user whose entry is built
    up, memberOf,       \* gids getGroupDNs still has to visit; its result
    visited, climbed    \* history: gids visited by each walk

config == <<primary, others, gidOf, includes, group, user>>
vars == <<config, down, members, up, memberOf, visited, climbed>>

-----------------------------------------------------------------------------
\* u belongs to gid without any inclusion.
Belongs(u, gid) == primary[u] = gid \/ gid \in others[u]

Direct(gid) == {u \in Users : Belongs(u, gid)}

\* What the calls for gid recurse into; a gid that includes itself is skipped.
Included(gid) ==
    (UNION {includes[g] : g \in {h \in Groups : gidOf[h] = gid}}) \ {gid}

\* Slip: the test g.GIDNumber != gid is left out.
IncludingItself(gid) ==
    {gidOf[g] : g \in {h \in Groups : gid \in includes[h]}}

\* The groups that getGroupDNs goes on with.
Including(gid) ==
    {gidOf[g] : g \in {h \in Groups : gid \in includes[h]}} \ {gid}

\* Sets of gids that contain everything their members include.
Closed(S) == \A x \in S : Included(x) \subseteq S

\* The gids that gid includes, directly or not, and gid itself.
Within(gid) ==
    {x \in Gids : \A S \in SUBSET Gids : gid \in S /\ Closed(S) => x \in S}

\* No gid includes itself by way of another one.
Acyclic == \A x \in Gids : \A y \in Included(x) : x \notin Within(y)

Init ==
    /\ primary \in [Users -> Gids]
    /\ others \in [Users -> SUBSET Gids]
    /\ gidOf \in [Groups -> Gids]
    /\ includes \in [Groups -> SUBSET Gids]
    /\ Cyclic \/ Acyclic
    /\ group \in Groups
    /\ down = {gidOf[group]}
    /\ members = {}
    /\ user \in Users
    /\ up = others[user] \cup {primary[user]}
    /\ memberOf = {}
    /\ visited = {}
    /\ climbed = {}

\* Slip: included groups contribute only if they are defined by an entry.
DescendDefined(gid) ==
    /\ gid \in down
    /\ members' = members \cup Direct(gid)
    /\ down' = (down \ {gid}) \cup {x \in Included(gid) : \E g \in Groups : gidOf[g] = x}
    /\ visited' = visited \cup {gid}
    /\ UNCHANGED <<config, up, memberOf, climbed>>

\* One call of getGroupMemberDNs (and of getGroupMemberIDs).
Descend(gid) ==
    /\ gid \in down
    /\ members' = members \cup Direct(gid)
    /\ down' = (down \ {gid}) \cup Included(gid)
    /\ visited' = visited \cup {gid}
    /\ UNCHANGED <<config, up, memberOf, climbed>>

\* Slip: an `else` between the two tests of the loop body.
ClimbElse(gid) ==
    /\ gid \in up
    /\ memberOf' = memberOf \cup {g \in Groups : gidOf[g] = gid}
    /\ up' = (up \ {gid})
             \cup {gidOf[g] : g \in {h \in Groups : gidOf[h] # gid /\ gid \in includes[h]
                                                /\ \A k \in Groups : gidOf[k] # gid}}
    /\ climbed' = climbed \cup {gid}
    /\ UNCHANGED <<config, down, members, visited>>

\* One turn of the loop over gids in getGroupDNs.
Climb(gid) ==
    /\ gid \in up
    /\ memberOf' = memberOf \cup {g \in Groups : gidOf[g] = gid}
    /\ up' = (up \ {gid}) \cup Including(gid)
    /\ climbed' = climbed \cup {gid}
    /\ UNCHANGED <<config, down, members, visited>>

Next == \E gid \in Gids : Descend(gid) \/ Climb(gid)

Spec == Init /\ [][Next]_vars

\* The calls of a request are made one after the other until none is left.
FairSpec == Spec /\ WF_vars(Next)

-----------------------------------------------------------------------------
(* Properties.                                                             *)

\* Every variable keeps its type.
TypeOK ==
    /\ primary \in [Users -> Gids]
    /\ others \in [Users -> SUBSET Gids]
    /\ gidOf \in [Groups -> Gids]
    /\ includes \in [Groups -> SUBSET Gids]
    /\ group \in Groups
    /\ user \in Users
    /\ down \subseteq Gids
    /\ members \subseteq Users
    /\ up \subseteq Gids
    /\ memberOf \subseteq Groups
    /\ visited \subseteq Gids
    /\ climbed \subseteq Gids

\* uniqueMember and memberUid name exactly the users that belong to the group
\* or to a group it includes, at any depth.
MembersAreThoseWithin ==
    down = {} => members = UNION {Direct(x) : x \in Within(gidOf[group])}

\* memberOf names exactly the groups that hold the user at some depth.
MemberOfIsThoseAround ==
    up = {} => memberOf = {g \in Groups :
                             \E x \in Within(gidOf[g]) : Belongs(user, x)}

\* The two directions agree: a user lists a group in memberOf if and only if
\* the group lists the user in uniqueMember.
BothWaysAgree ==
    down = {} /\ up = {} => (user \in members <=> group \in memberOf)

\* Building an entry ends.
WalksEnd == <>(down = {} /\ up = {})

=============================================================================
