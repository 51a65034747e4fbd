-------------------------- MODULE SqlGroups_proofs --------------------------
(***************************************************************************)
(* Theorems about group inclusion over a database, for any tables, users,  *)
(* changes, failed queries and orders of the rows.                         *)
(***************************************************************************)
EXTENDS SqlGroups, GroupClosure_proofs, WellFoundedInduction

\* A request over a database is a request over the configuration that
\* memoizeGroups made of it ..
LEMMA InitRefines == SInit => Init
  BY DEF SInit

LEMMA StepRefines == [SNext]_svars => [Next]_vars
<1>1. ASSUME NEW gid \in Gids, Scan(gid) \/ ScanFails(gid) \/ ClimbAfter(gid)
      PROVE  Next
  BY <1>1 DEF Scan, ScanFails, ClimbAfter, Next
<1>2. ASSUME NEW u \in Users, NEW gid \in Gids, Change(u, gid)
      PROVE  UNCHANGED vars
  BY <1>2 DEF Change
<1>3. UNCHANGED svars => UNCHANGED vars
  BY DEF svars
<1>. QED  BY <1>1, <1>2, <1>3 DEF SNext, Walk

\* .. and every step carries one of GroupClosure or none, as the actions say, so
\* that what is proved of the walks there holds here; what the walks over the
\* tables list is proved below.
LEMMA SqlImplementsClosure == SSpec => Spec
  BY InitRefines, StepRefines, PTL DEF SSpec, Spec

\* What the two walks would find in unchanging tables is what lies below and
\* above, and they agree, whatever memoizeGroups made of the rows.
THEOREM SqlDirectionsAgree ==
  SSpec => [](MembersAreThoseWithin /\ MemberOfIsThoseAround /\ BothWaysAgree)
  BY SqlImplementsClosure, MembersFound, MemberOfFound, DirectionsAgree, PTL

-----------------------------------------------------------------------------
\* The walk that reads the tables does not stray from the one of GroupClosure,
\* and follows it as long as no query fails.
Follows ==
    /\ pending \subseteq down
    /\ ~failed => pending = down

\* What is remembered of the users: always was, is now, was at some time.
Remembered ==
    \A u \in Users : always[u] \subseteq belongs[u] /\ belongs[u] \subseteq ever[u]

\* Who was seen on the way, and who cannot have been missed.
Seen ==
    /\ \A u \in listed : u \in Users /\ \E x \in Within(gidOf[group]) : x \in ever[u]
    /\ ~failed => \A u \in Users : (\E x \in visited : x \in always[u]) => u \in listed

HistoryOK ==
    /\ belongs \in [Users -> SUBSET Gids]
    /\ ever \in [Users -> SUBSET Gids]
    /\ always \in [Users -> SUBSET Gids]
    /\ failed \in BOOLEAN

ListInv == ClosureInv /\ HistoryOK /\ Follows /\ Remembered /\ Seen

LEMMA ListInit == SInit => ListInv
<1>. SUFFICES ASSUME SInit PROVE ListInv
  OBVIOUS
<1>1. ClosureInv
  BY InitRefines, ClosureInit
<1>2. HistoryOK
  BY DEF SInit, HistoryOK
<1>3. Follows /\ Remembered
  BY DEF SInit, Follows, Remembered
<1>4. Seen
  BY <1>2 DEF SInit, Init, Seen
<1>. QED  BY <1>1, <1>2, <1>3, <1>4 DEF ListInv

\* What a step of the walks leaves alone.
LEMMA SameInclusions ==
  ASSUME UNCHANGED config
  PROVE  /\ Within(gidOf[group])' = Within(gidOf[group])
         /\ \A x : Included(x)' = Included(x)
  BY DEF config, Within, Closed, Included

LEMMA ListStep == ListInv /\ [SNext]_svars => ListInv'
<1>. SUFFICES ASSUME ListInv, [SNext]_svars PROVE ListInv'
  OBVIOUS
<1>. USE DEF ListInv
<1>0. ClosureInv'
  BY StepRefines, ClosureStep
<1>1. ASSUME NEW gid \in Gids, Scan(gid) PROVE ListInv'
  <2>1. /\ gid \in down /\ down' = (down \ {gid}) \cup Included(gid)
        /\ visited' = visited \cup {gid} /\ UNCHANGED config
    BY <1>1 DEF Scan, Descend
  <2>2. UNCHANGED <<belongs, failed, ever, always>>
    BY <1>1 DEF Scan
  <2>3. gid \in pending => /\ listed' = listed \cup Found(gid)
                           /\ pending' = (pending \ {gid}) \cup Included(gid)
    BY <1>1 DEF Scan
  <2>4. gid \notin pending => UNCHANGED <<listed, pending>>
    BY <1>1 DEF Scan
  <2>5. Within(gidOf[group])' = Within(gidOf[group])
    BY <2>1, SameInclusions
  <2>6. HistoryOK' /\ Remembered'
    BY <2>2 DEF HistoryOK, Remembered
  <2>7. Follows'
    BY <2>1, <2>2, <2>3, <2>4 DEF Follows
  <2>8. Seen'
    <3>1. gid \in Within(gidOf[group])
      BY <2>1 DEF ClosureInv, WalkDown
    <3>2. \A u \in Found(gid) : u \in Users /\ gid \in ever[u]
      BY DEF Found, Remembered
    <3>3. \A u \in listed' : u \in Users /\ \E x \in Within(gidOf[group]) : x \in ever[u]
      BY <2>3, <2>4, <3>1, <3>2 DEF Seen
    <3>4. ASSUME ~failed, NEW u \in Users, NEW x \in visited \cup {gid}, x \in always[u]
          PROVE  u \in listed'
      <4>1. listed' = listed \cup Found(gid)
        BY <2>1, <2>3, <3>4 DEF Follows
      <4>2. CASE x \in visited
        BY <3>4, <4>1, <4>2 DEF Seen
      <4>3. CASE x = gid
        BY <3>4, <4>1, <4>3 DEF Found, Remembered
      <4>. QED  BY <3>4, <4>2, <4>3
    <3>. QED  BY <2>1, <2>2, <2>5, <3>3, <3>4 DEF Seen
  <2>. QED  BY <1>0, <2>6, <2>7, <2>8
<1>2. ASSUME NEW gid \in Gids, ScanFails(gid) PROVE ListInv'
  <2>1. /\ down' = (down \ {gid}) \cup Included(gid) /\ UNCHANGED config
        /\ pending' = pending \ {gid} /\ failed' = TRUE
        /\ UNCHANGED <<listed, belongs, ever, always>>
    BY <1>2 DEF ScanFails, Descend
  <2>2. Within(gidOf[group])' = Within(gidOf[group])
    BY <2>1, SameInclusions
  <2>3. HistoryOK' /\ Remembered'
    BY <2>1 DEF HistoryOK, Remembered
  <2>4. Follows'
    BY <2>1 DEF Follows
  <2>5. Seen'
    BY <2>1, <2>2 DEF Seen
  <2>. QED  BY <1>0, <2>3, <2>4, <2>5
<1>3. ASSUME NEW u \in Users, NEW gid \in Gids, Change(u, gid) PROVE ListInv'
  <2>1. UNCHANGED <<config, down, visited, pending, listed, failed>>
    BY <1>3 DEF Change, vars
  <2>2. Within(gidOf[group])' = Within(gidOf[group])
    BY <2>1, SameInclusions
  <2>3. HistoryOK'
    BY <1>3, <2>1 DEF Change, HistoryOK
  <2>4. ASSUME NEW v \in Users
        PROVE  /\ always'[v] \subseteq belongs'[v] /\ belongs'[v] \subseteq ever'[v]
               /\ always'[v] \subseteq always[v] /\ ever[v] \subseteq ever'[v]
    <3>1. CASE v = u
      <4>1. /\ belongs'[u] = IF gid \in belongs[u] THEN belongs[u] \ {gid}
                             ELSE belongs[u] \cup {gid}
            /\ ever'[u] = ever[u] \cup {gid}
            /\ always'[u] = always[u] \ {gid}
        BY <1>3 DEF Change, HistoryOK
      <4>2. always[u] \subseteq belongs[u] /\ belongs[u] \subseteq ever[u]
        BY DEF Remembered
      <4>. QED  BY <3>1, <4>1, <4>2
    <3>2. CASE v # u
      BY <1>3, <3>2 DEF Change, HistoryOK, Remembered
    <3>. QED  BY <3>1, <3>2
  <2>5. Remembered'
    BY <2>4 DEF Remembered
  <2>6. Follows'
    BY <2>1 DEF Follows
  <2>7. Seen'
    <3>1. \A w \in listed' : w \in Users /\ \E x \in Within(gidOf[group]) : x \in ever'[w]
      BY <2>1, <2>4 DEF Seen
    <3>2. ~failed' => \A w \in Users : (\E x \in visited' : x \in always'[w]) => w \in listed'
      BY <2>1, <2>4 DEF Seen
    <3>. QED  BY <2>2, <3>1, <3>2 DEF Seen
  <2>. QED  BY <1>0, <2>3, <2>5, <2>6, <2>7
<1>4. ASSUME UNCHANGED <<config, down, visited, pending, listed, failed,
                         belongs, ever, always>>
      PROVE  ListInv'
  <2>1. Within(gidOf[group])' = Within(gidOf[group])
    BY <1>4, SameInclusions
  <2>. QED  BY <1>0, <1>4, <2>1 DEF HistoryOK, Follows, Remembered, Seen
<1>5. ASSUME NEW gid \in Gids, ClimbAfter(gid) PROVE ListInv'
  BY <1>4, <1>5 DEF ClimbAfter, Climb
<1>6. CASE UNCHANGED svars
  BY <1>4, <1>6 DEF svars, vars
<1>. QED  BY <1>1, <1>2, <1>3, <1>5, <1>6 DEF SNext, Walk

\* Whoever stayed in a group that the listed group includes, by what
\* memoizeGroups made of the rows, is listed unless a query failed; and nobody
\* is listed who never was in one, failures or not.
LEMMA SteadyOnesListed ==
  SSpec => [](/\ down = {} /\ ~failed =>
                   {u \in Users : always[u] \cap Within(gidOf[group]) # {}} \subseteq listed
              /\ listed \subseteq {u \in Users : ever[u] \cap Within(gidOf[group]) # {}})
<1>1. ASSUME ListInv
      PROVE  /\ down = {} /\ ~failed =>
                   {u \in Users : always[u] \cap Within(gidOf[group]) # {}} \subseteq listed
             /\ listed \subseteq {u \in Users : ever[u] \cap Within(gidOf[group]) # {}}
  <2>1. down = {} => visited = Within(gidOf[group])
    BY <1>1, DownComplete DEF ListInv
  <2>. QED  BY <1>1, <2>1 DEF ListInv, Seen
<1>. QED  BY <1>1, ListInit, ListStep, PTL DEF SSpec

-----------------------------------------------------------------------------
(* What memoizeGroups makes of the rows.                                   *)

\* The entries are those of the rows, and the rows do not change.
Memoizes ==
    /\ rows \in Tables
    /\ gidOf = [g \in Groups |-> IF g \in Memo THEN rows[g].gid ELSE Nothing]
    /\ includes = [g \in Groups |-> IF g \in Memo THEN Memoized(g) ELSE {}]

LEMMA LeastOf ==
  ASSUME NEW T \in SUBSET Nat, T # {}
  PROVE  \E x \in T : \A y \in T : x <= y
<1>1. IsWellFoundedOn(OpToRel(<, Nat), Nat)
  BY NatLessThanWellFounded
<1>2. PICK x \in T : \A y \in T : ~(<<y, x>> \in OpToRel(<, Nat))
  BY <1>1, WFMin
<1>3. \A y \in T : ~(y < x)
  BY <1>2 DEF OpToRel
<1>. QED  BY <1>3

\* Every row is held by an entry with its gid: that of the first row of the run
\* of rows with this gid that it stands in.
LEMMA HeldByEntry ==
  ASSUME SqlAssumption, rows \in Tables, NEW j \in DOMAIN rows
  PROVE  \E i \in Memo : /\ rows[i].gid = rows[j].gid
                         /\ j \in i .. Len(rows)
                         /\ \A l \in i .. j : rows[l].gid = rows[i].gid
<1>. DEFINE T == {i \in 1 .. j : \A l \in i .. j : rows[l].gid = rows[j].gid}
<1>1. rows \in Seq([gid : Gids \ {Nothing}, included : Gids])
  BY DEF SqlAssumption
<1>2. DOMAIN rows = 1 .. Len(rows) /\ Len(rows) \in Nat /\ j \in 1 .. Len(rows)
  BY <1>1
<1>3. j \in T /\ T \in SUBSET Nat
  BY <1>2
<1>4. PICK i \in T : \A y \in T : i <= y
  BY <1>3, LeastOf
<1>5. i \in 1 .. j /\ \A l \in i .. j : rows[l].gid = rows[j].gid
  BY <1>4
<1>6. rows[i].gid = rows[j].gid
  BY <1>2, <1>5
<1>7. Opens(i)
  <2>. SUFFICES ASSUME i # 1, rows[i].gid = rows[i - 1].gid PROVE FALSE
    BY DEF Opens
  <2>1. i - 1 \in 1 .. j /\ i - 1 < i
    BY <1>2, <1>5
  <2>2. ASSUME NEW l \in (i - 1) .. j PROVE rows[l].gid = rows[j].gid
    <3>1. l = i - 1 \/ l \in i .. j
      BY <1>2, <1>5
    <3>. QED  BY <1>5, <1>6, <3>1
  <2>3. i - 1 \in T
    BY <2>1, <2>2
  <2>. QED  BY <1>2, <1>4, <1>5, <2>1, <2>3
<1>8. i \in Memo /\ j \in i .. Len(rows)
  BY <1>2, <1>5, <1>7 DEF Memo
<1>. QED  BY <1>5, <1>6, <1>8

\* In whatever order the rows come, the entries of a gid include together what
\* the table says that it includes.
LEMMA EntriesKeepInclusions ==
  ASSUME SqlAssumption, Memoizes, NEW gid \in Gids
  PROVE  Included(gid) = Includes(gid)
<1>0. rows \in Seq([gid : Gids \ {Nothing}, included : Gids]) /\ DOMAIN rows \subseteq Groups
  BY DEF SqlAssumption, Memoizes
<1>1. DOMAIN rows = 1 .. Len(rows) /\ Len(rows) \in Nat
  BY <1>0
<1>. DEFINE Ran == {j \in DOMAIN rows : rows[j].gid = gid}
<1>2. Includes(gid) = {rows[j].included : j \in Ran} \ {gid, Nothing}
  <2>1. ToSet(rows) = {rows[j] : j \in DOMAIN rows}
    BY DEF ToSet
  <2>. QED  BY <2>1 DEF Includes
<1>3. ASSUME NEW x \in Included(gid) PROVE x \in Includes(gid)
  <2>1. PICK g \in Groups : gidOf[g] = gid /\ x \in includes[g] /\ x # gid
    BY DEF Included
  <2>2. g \in Memo /\ rows[g].gid = gid /\ x \in Memoized(g)
    BY <2>1 DEF Memoizes
  <2>3. PICK j \in g .. Len(rows) : /\ \A l \in g .. j : rows[l].gid = rows[g].gid
                                    /\ x = rows[j].included /\ x # Nothing
    BY <2>2 DEF Memoized
  <2>4. j \in DOMAIN rows /\ rows[j].gid = gid
    BY <1>1, <2>2, <2>3 DEF Memo
  <2>. QED  BY <1>2, <2>1, <2>3, <2>4
<1>4. ASSUME NEW x \in Includes(gid) PROVE x \in Included(gid)
  <2>1. PICK j \in DOMAIN rows : rows[j].gid = gid /\ x = rows[j].included
                                 /\ x # gid /\ x # Nothing
    BY <1>2
  <2>2. PICK i \in Memo : /\ rows[i].gid = rows[j].gid
                          /\ j \in i .. Len(rows)
                          /\ \A l \in i .. j : rows[l].gid = rows[i].gid
    BY <2>1, HeldByEntry DEF Memoizes
  <2>3. x \in Memoized(i)
    BY <2>1, <2>2 DEF Memoized
  <2>4. i \in Groups
    BY <1>0, <2>2 DEF Memo
  <2>5. gidOf[i] = gid /\ includes[i] = Memoized(i)
    BY <2>1, <2>2, <2>4 DEF Memoizes
  <2>. QED  BY <2>1, <2>3, <2>4, <2>5 DEF Included
<1>. QED  BY <1>3, <1>4

\* So what lies within a group by the entries lies below it by the table.
LEMMA BelowIsWithin ==
  ASSUME SqlAssumption, Memoizes, NEW gid
  PROVE  Below(gid) = Within(gid)
<1>1. \A S \in SUBSET Gids : Closed(S) <=> \A y \in S : Includes(y) \subseteq S
  BY EntriesKeepInclusions DEF Closed
<1>. QED  BY <1>1 DEF Below, Within

LEMMA MemoizesAlways == SSpec => []Memoizes
<1>1. SInit => Memoizes
  BY DEF SInit, Memoizes
<1>2. ASSUME Memoizes, [SNext]_svars PROVE Memoizes'
  <2>1. UNCHANGED <<rows, gidOf, includes>>
    BY <1>2 DEF SNext, Walk, Scan, ScanFails, ClimbAfter, Change, Descend, Climb, config,
                vars, svars
  <2>2. Memo' = Memo /\ \A i : Memoized(i)' = Memoized(i)
    BY <2>1 DEF Memo, Opens, Memoized
  <2>. QED  BY <1>2, <2>1, <2>2 DEF Memoizes
<1>. QED  BY <1>1, <1>2, PTL DEF SSpec

\* Whoever stayed in a group that the listed group includes, by the table, is
\* listed unless a query failed, in whatever order memoizeGroups got the rows.
THEOREM SteadyListed == SSpec => []SteadyMembersListed
<1>1. ASSUME Memoizes,
             /\ down = {} /\ ~failed =>
                  {u \in Users : always[u] \cap Within(gidOf[group]) # {}} \subseteq listed
             /\ listed \subseteq {u \in Users : ever[u] \cap Within(gidOf[group]) # {}}
      PROVE  SteadyMembersListed
  BY <1>1, SqlAssumption, BelowIsWithin DEF SteadyMembersListed
<1>. QED  BY <1>1, MemoizesAlways, SteadyOnesListed, PTL

\* Nobody is listed who never was in a group that the listed group includes, by
\* the table, at any moment of the walk and whatever failed.
THEOREM NobodyElse == SSpec => []NobodyElseListed
<1>1. ASSUME Memoizes,
             /\ down = {} /\ ~failed =>
                  {u \in Users : always[u] \cap Within(gidOf[group]) # {}} \subseteq listed
             /\ listed \subseteq {u \in Users : ever[u] \cap Within(gidOf[group]) # {}}
      PROVE  NobodyElseListed
  BY <1>1, SqlAssumption, BelowIsWithin DEF NobodyElseListed
<1>. QED  BY <1>1, MemoizesAlways, SteadyOnesListed, PTL

===============================================================================
