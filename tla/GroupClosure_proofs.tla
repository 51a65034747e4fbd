------------------------- MODULE GroupClosure_proofs -------------------------
(***************************************************************************)
(* Theorems about group inclusion, for any users, groups, numbers and      *)
(* configuration, circular ones included: each walk, if it ends, has found *)
(* exactly what lies below (above) where it started, and the two agree.    *)
(* That the walks end is left to TLC; with a circle they do not.           *)
(***************************************************************************)
EXTENDS GroupClosure, TLAPS

\* What a gid reaches by inclusion contains the gid ..
LEMMA WithinSelf ==
  ASSUME NEW x \in Gids
  PROVE  x \in Within(x)
  BY DEF Within

\* .. and whatever its members include ..
LEMMA WithinClosed ==
  ASSUME TypeOK, NEW x \in Gids, NEW y \in Within(x)
  PROVE  Included(y) \subseteq Within(x)
<1>. SUFFICES ASSUME NEW z \in Included(y) PROVE z \in Within(x)
  OBVIOUS
<1>1. z \in Gids
  BY DEF Included, TypeOK
<1>2. ASSUME NEW S \in SUBSET Gids, x \in S, Closed(S) PROVE z \in S
  <2>1. y \in S
    BY <1>2 DEF Within
  <2>. QED  BY <1>2, <2>1 DEF Closed
<1>. QED  BY <1>1, <1>2 DEF Within

\* .. and nothing else.
LEMMA WithinLeast ==
  ASSUME NEW x \in Gids, NEW S \in SUBSET Gids, x \in S, Closed(S)
  PROVE  Within(x) \subseteq S
  BY DEF Within

\* The two directions of one inclusion.
LEMMA AboveIffBelow ==
  ASSUME NEW x, NEW y
  PROVE  x \in Including(y) <=> y \in Included(x)
<1>1. x \in Including(y) <=> x # y /\ \E g \in Groups : gidOf[g] = x /\ y \in includes[g]
  BY DEF Including
<1>2. y \in Included(x) <=> x # y /\ \E g \in Groups : gidOf[g] = x /\ y \in includes[g]
  BY DEF Included
<1>. QED  BY <1>1, <1>2

-----------------------------------------------------------------------------
(* The inductive invariant.                                                *)

Seeds == others[user] \cup {primary[user]}

\* The gids that hold the user at some depth.
Around == {x \in Gids : \E y \in Within(x) : Belongs(user, y)}

\* The walk down has passed, or has still before it, its start and whatever
\* the gids it has passed include, and is never outside of Within.
WalkDown ==
    /\ gidOf[group] \in down \cup visited
    /\ down \cup visited \subseteq Within(gidOf[group])
    /\ \A x \in visited : Included(x) \subseteq down \cup visited
    /\ members = UNION {Direct(x) : x \in visited}

\* The same for the walk up.
WalkUp ==
    /\ Seeds \subseteq up \cup climbed
    /\ up \cup climbed \subseteq Around
    /\ \A x \in climbed : Including(x) \subseteq up \cup climbed
    /\ memberOf = {g \in Groups : gidOf[g] \in climbed}

ClosureInv == TypeOK /\ WalkDown /\ WalkUp

\* Who includes a gid that holds the user holds the user.
LEMMA AroundClosed ==
  ASSUME TypeOK, NEW y \in Around
  PROVE  Including(y) \subseteq Around
<1>. SUFFICES ASSUME NEW x \in Including(y) PROVE x \in Around
  OBVIOUS
<1>1. x \in Gids /\ y \in Gids /\ y \in Included(x)
  BY AboveIffBelow DEF Including, Around, TypeOK
<1>2. y \in Within(x)
  BY <1>1, WithinSelf, WithinClosed
<1>3. Within(x) \in SUBSET Gids /\ Closed(Within(x))
  BY <1>1, WithinClosed DEF Within, Closed
<1>4. Within(y) \subseteq Within(x)
  BY <1>1, <1>2, <1>3, WithinLeast
<1>. QED  BY <1>1, <1>4 DEF Around

LEMMA ClosureInit == Init => ClosureInv
<1>. SUFFICES ASSUME Init PROVE ClosureInv
  OBVIOUS
<1>1. TypeOK
  BY DEF Init, TypeOK
<1>2. gidOf[group] \in Gids /\ Seeds \subseteq Gids
  BY <1>1 DEF TypeOK, Seeds
<1>3. WalkDown
  BY <1>2, WithinSelf DEF Init, WalkDown
<1>4. ASSUME NEW x \in Seeds PROVE x \in Around
  BY <1>2, <1>4, WithinSelf DEF Around, Seeds, Belongs
<1>5. WalkUp
  BY <1>4 DEF Init, WalkUp, Seeds
<1>. QED  BY <1>1, <1>3, <1>5 DEF ClosureInv

LEMMA ClosureStep == ClosureInv /\ [Next]_vars => ClosureInv'
<1>. SUFFICES ASSUME ClosureInv, [Next]_vars PROVE ClosureInv'
  OBVIOUS
<1>. USE DEF ClosureInv
<1>1. ASSUME NEW gid \in Gids, Descend(gid) PROVE ClosureInv'
  <2>1. UNCHANGED <<primary, others, gidOf, includes, group, user, up, memberOf, climbed>>
    BY <1>1 DEF Descend, config
  <2>2. /\ gid \in down
        /\ down' = (down \ {gid}) \cup Included(gid)
        /\ visited' = visited \cup {gid}
        /\ members' = members \cup Direct(gid)
    BY <1>1 DEF Descend
  <2>3. TypeOK'
    BY <2>1, <2>2 DEF TypeOK, Included, Direct
  <2>4. /\ \A x : Included(x)' = Included(x) /\ Direct(x)' = Direct(x)
        /\ \A x : Including(x)' = Including(x) /\ Within(x)' = Within(x)
        /\ Around' = Around /\ Seeds' = Seeds
    BY <2>1 DEF Included, Direct, Belongs, Including, Within, Closed, Around, Seeds
  <2>5. WalkDown'
    <3>1. gidOf[group] \in Gids
      BY DEF TypeOK
    <3>2. Included(gid) \subseteq Within(gidOf[group])
      BY <2>2, <3>1, WithinClosed DEF WalkDown
    <3>3. (gidOf[group] \in down \cup visited)'
      BY <2>1, <2>2 DEF WalkDown
    <3>4. (down \cup visited \subseteq Within(gidOf[group]))'
      BY <2>1, <2>2, <2>4, <3>2 DEF WalkDown
    <3>5. (\A x \in visited : Included(x) \subseteq down \cup visited)'
      BY <2>2, <2>4 DEF WalkDown
    <3>6. (members = UNION {Direct(x) : x \in visited})'
      BY <2>2, <2>4 DEF WalkDown
    <3>. QED  BY <3>3, <3>4, <3>5, <3>6 DEF WalkDown
  <2>6. WalkUp'
    BY <2>1, <2>4 DEF WalkUp
  <2>. QED  BY <2>3, <2>5, <2>6
<1>2. ASSUME NEW gid \in Gids, Climb(gid) PROVE ClosureInv'
  <2>1. UNCHANGED <<primary, others, gidOf, includes, group, user, down, members, visited>>
    BY <1>2 DEF Climb, config
  <2>2. /\ gid \in up
        /\ up' = (up \ {gid}) \cup Including(gid)
        /\ climbed' = climbed \cup {gid}
        /\ memberOf' = memberOf \cup {g \in Groups : gidOf[g] = gid}
    BY <1>2 DEF Climb
  <2>3. TypeOK'
    BY <2>1, <2>2 DEF TypeOK, Including
  <2>4. /\ \A x : Included(x)' = Included(x) /\ Direct(x)' = Direct(x)
        /\ \A x : Including(x)' = Including(x) /\ Within(x)' = Within(x)
        /\ Around' = Around /\ Seeds' = Seeds
    BY <2>1 DEF Included, Direct, Belongs, Including, Within, Closed, Around, Seeds
  <2>5. WalkDown'
    BY <2>1, <2>4 DEF WalkDown
  <2>6. WalkUp'
    <3>1. Including(gid) \subseteq Around
      BY <2>2, AroundClosed DEF WalkUp
    <3>2. (Seeds \subseteq up \cup climbed)'
      BY <2>2, <2>4 DEF WalkUp
    <3>3. (up \cup climbed \subseteq Around)'
      BY <2>2, <2>4, <3>1 DEF WalkUp
    <3>4. (\A x \in climbed : Including(x) \subseteq up \cup climbed)'
      BY <2>2, <2>4 DEF WalkUp
    <3>5. (memberOf = {g \in Groups : gidOf[g] \in climbed})'
      BY <2>1, <2>2 DEF WalkUp
    <3>. QED  BY <3>2, <3>3, <3>4, <3>5 DEF WalkUp
  <2>. QED  BY <2>3, <2>5, <2>6
<1>3. CASE UNCHANGED vars
  <2>1. UNCHANGED <<primary, others, gidOf, includes, group, user>>
        /\ UNCHANGED <<down, members, visited, up, memberOf, climbed>>
    BY <1>3 DEF vars, config
  <2>2. TypeOK'
    BY <2>1 DEF TypeOK
  <2>3. /\ \A x : Included(x)' = Included(x) /\ Direct(x)' = Direct(x)
        /\ \A x : Including(x)' = Including(x) /\ Within(x)' = Within(x)
        /\ Around' = Around /\ Seeds' = Seeds
    BY <2>1 DEF Included, Direct, Belongs, Including, Within, Closed, Around, Seeds
  <2>. QED  BY <2>1, <2>2, <2>3 DEF WalkDown, WalkUp
<1>. QED  BY <1>1, <1>2, <1>3 DEF Next

LEMMA ClosureAlways == Spec => []ClosureInv
  BY ClosureInit, ClosureStep, PTL DEF Spec

-----------------------------------------------------------------------------
\* A walk down that has ended has passed everything below its start.
LEMMA DownComplete ==
  ASSUME ClosureInv, down = {}
  PROVE  visited = Within(gidOf[group])
<1>. USE DEF ClosureInv
<1>1. visited \in SUBSET Gids /\ gidOf[group] \in Gids /\ gidOf[group] \in visited
  BY DEF TypeOK, WalkDown
<1>2. Closed(visited)
  BY DEF WalkDown, Closed
<1>3. Within(gidOf[group]) \subseteq visited
  BY <1>1, <1>2, WithinLeast
<1>. QED  BY <1>3 DEF WalkDown

\* A walk up that has ended has passed every group around its start: the gids
\* it has not passed include none that it has.
LEMMA UpComplete ==
  ASSUME ClosureInv, up = {}, NEW g \in Groups, gidOf[g] \in Around
  PROVE  gidOf[g] \in climbed
<1>. USE DEF ClosureInv
<1>. SUFFICES ASSUME gidOf[g] \notin climbed PROVE FALSE
  OBVIOUS
<1>. DEFINE S == Gids \ climbed
<1>1. gidOf[g] \in Gids /\ gidOf[g] \in S
  BY DEF TypeOK
<1>2. ASSUME NEW x \in S, NEW y \in Included(x) PROVE y \in S
  <2>1. y \in Gids
    BY DEF Included, TypeOK
  <2>2. x \in Including(y)
    BY AboveIffBelow
  <2>. QED  BY <2>1, <2>2 DEF WalkUp
<1>3. Within(gidOf[g]) \subseteq S
  BY <1>1, <1>2, WithinLeast DEF Closed
<1>4. PICK y \in Within(gidOf[g]) : Belongs(user, y)
  BY DEF Around
<1>5. y \in Seeds
  BY <1>4 DEF Belongs, Seeds
<1>. QED  BY <1>3, <1>4, <1>5 DEF WalkUp

LEMMA DownFound == ClosureInv => MembersAreThoseWithin
  BY DownComplete DEF ClosureInv, WalkDown, MembersAreThoseWithin

LEMMA UpFound == ClosureInv => MemberOfIsThoseAround
<1>. SUFFICES ASSUME ClosureInv, up = {}
              PROVE  memberOf = {g \in Groups : \E x \in Within(gidOf[g]) : Belongs(user, x)}
  BY DEF MemberOfIsThoseAround
<1>1. memberOf = {g \in Groups : gidOf[g] \in climbed}
  BY DEF ClosureInv, WalkUp
<1>2. ASSUME NEW g \in Groups
      PROVE  gidOf[g] \in climbed <=> \E x \in Within(gidOf[g]) : Belongs(user, x)
  <2>1. gidOf[g] \in Gids
    BY DEF ClosureInv, TypeOK
  <2>2. gidOf[g] \in Around <=> \E x \in Within(gidOf[g]) : Belongs(user, x)
    BY <2>1 DEF Around
  <2>3. gidOf[g] \in climbed => gidOf[g] \in Around
    BY DEF ClosureInv, WalkUp
  <2>. QED  BY <2>2, <2>3, UpComplete
<1>. QED  BY <1>1, <1>2

-----------------------------------------------------------------------------
\* uniqueMember and memberUid name exactly the users of the group and of the
\* groups it includes at any depth, in every configuration.
THEOREM MembersFound == Spec => []MembersAreThoseWithin
  BY ClosureAlways, DownFound, PTL

\* memberOf names exactly the groups that hold the user at some depth.
THEOREM MemberOfFound == Spec => []MemberOfIsThoseAround
  BY ClosureAlways, UpFound, PTL

\* A user lists a group in memberOf if and only if the group lists the user:
\* two recursions in opposite directions over any configuration.
THEOREM DirectionsAgree == Spec => []BothWaysAgree
<1>1. ClosureInv => BothWaysAgree
  <2>. SUFFICES ASSUME ClosureInv, down = {}, up = {}
                PROVE  user \in members <=> group \in memberOf
    BY DEF BothWaysAgree
  <2>1. group \in Groups /\ user \in Users
    BY DEF ClosureInv, TypeOK
  <2>2. user \in members <=> \E x \in Within(gidOf[group]) : Belongs(user, x)
    BY <2>1, DownFound DEF MembersAreThoseWithin, Direct
  <2>3. group \in memberOf <=> \E x \in Within(gidOf[group]) : Belongs(user, x)
    BY <2>1, UpFound DEF MemberOfIsThoseAround
  <2>. QED  BY <2>2, <2>3
<1>. QED  BY <1>1, ClosureAlways, PTL

=============================================================================
