--------------------------- MODULE Startup_proofs ---------------------------
(***************************************************************************)
(* Theorems about starting and reloading, for any configurations, edits    *)
(* and accounts: nothing but an accepted configuration is ever in force,   *)
(* the LDAP backend asks the slots that are filled, glauth exits after its *)
(* server is set up only if a reload came in between, it listens where it  *)
(* was told to, and splitting a configuration into files changes nothing.  *)
(***************************************************************************)
EXTENDS Startup, WellFoundedInduction, TLAPS

-----------------------------------------------------------------------------
(* The watcher and the editors of ConfigWatch.                             *)

LEMMA QueueType ==
  ASSUME TypeOK, NEW f \in Files, NEW op \in {"Write", "Remove", "Rename"},
         NEW q \in Queues(f, op)
  PROVE  q \in Seq(Event)
<1>. DEFINE e == [file |-> f, op |-> op]
<1>1. e \in Event
  BY DEF Event
<1>2. events \in Seq(Event)
  BY DEF TypeOK
<1>3. Append(events, e) \in Seq(Event)
  BY <1>1, <1>2
<1>. QED  BY <1>2, <1>3 DEF Queues

LEMMA OverwriteType ==
  ASSUME TypeOK, NEW c \in Contents, Overwrite(c)
  PROVE  /\ path' \in Files \cup {Nil} /\ aside' \in Files \cup {Nil}
         /\ text' \in [Files -> Contents] /\ events' \in Seq(Event)
         /\ watch' \subseteq Files
<1>1. path \in Files
  BY DEF Overwrite, TypeOK
<1>2. events' \in Seq(Event)
  BY <1>1, QueueType DEF Overwrite
<1>. QED  BY <1>1, <1>2 DEF Overwrite, TypeOK

LEMMA EditorType ==
  ASSUME TypeOK, NEW kind, MayEdit(kind)
  PROVE  edits' \in Editor /\ edits.to \subseteq Contents
  BY DEF TypeOK, MayEdit, Editor

\* What doConfig is about to copy has been accepted.
Checked == wpc = "apply" => Valid(read)

WatchInv == TypeOK /\ Checked

LEMMA WatcherTypes ==
  ASSUME WatchInv, Watcher
  PROVE  WatchInv'
<1>. USE DEF WatchInv, Checked, TypeOK, disk
<1>1. CASE Receive
  <2>1. events' \in Seq(Event)
    BY <1>1 DEF Receive
  <2>2. isChanged' \in BOOLEAN /\ isRemoved' \in BOOLEAN
    BY <1>1, Zenon DEF Receive
  <2>. QED  BY <1>1, <2>1, <2>2 DEF Receive
<1>2. CASE Wake \/ Stat
  BY <1>2 DEF Wake, Stat
<1>3. CASE Rewatch
  BY <1>3 DEF Rewatch, Watched
<1>4. CASE Parse
  <2>1. read' \in Contents /\ wpc' \in {"select", "apply"} /\ Checked'
    BY <1>4 DEF Parse, Usable
  <2>2. isChanged' \in BOOLEAN
    BY <1>4, Zenon DEF Parse
  <2>. QED  BY <1>4, <2>1, <2>2 DEF Parse
<1>5. CASE Apply
  BY <1>5 DEF Apply, Runs
<1>. QED  BY <1>1, <1>2, <1>3, <1>4, <1>5 DEF Watcher

LEMMA MainTypes ==
  ASSUME WatchInv, Load \/ FirstWatch
  PROVE  WatchInv'
<1>. USE DEF WatchInv, Checked, TypeOK, disk, watcher
<1>1. CASE Load
  BY <1>1 DEF Load, Usable
<1>2. CASE FirstWatch
  BY <1>2 DEF FirstWatch, Watched
<1>. QED  BY <1>1, <1>2

LEMMA EditTypes ==
  ASSUME WatchInv, Edit
  PROVE  WatchInv'
<1>. USE DEF WatchInv, Checked, watcher
<1>. SUFFICES TypeOK'
  BY DEF Edit, Write, Replace, Create, Unlink, Move, DropBackup
<1>1. ASSUME NEW c \in edits.to, Write(c) PROVE TypeOK'
  <2>1. edits' \in Editor /\ c \in Contents
    BY <1>1, EditorType DEF Write
  <2>2. Overwrite(c)
    BY <1>1 DEF Write
  <2>. QED  BY <1>1, <2>1, <2>2, OverwriteType DEF Write, TypeOK
<1>2. ASSUME NEW f \in Files, NEW c \in edits.to, Replace(f, c) PROVE TypeOK'
  <2>1. edits' \in Editor /\ c \in Contents
    BY <1>2, EditorType DEF Replace
  <2>2. path \in Files
    BY <1>2 DEF Replace, TypeOK
  <2>3. events' \in Seq(Event)
    BY <1>2, <2>2, QueueType DEF Replace
  <2>. QED  BY <1>2, <2>1, <2>2, <2>3 DEF Replace, TypeOK
<1>3. ASSUME NEW f \in Files, NEW c \in edits.to, Create(f, c) PROVE TypeOK'
  <2>1. edits' \in Editor /\ c \in Contents
    BY <1>3, EditorType DEF Create
  <2>. QED  BY <1>3, <2>1 DEF Create, TypeOK
<1>4. CASE Unlink \/ Move
  <2>1. edits' \in Editor
    BY <1>4, EditorType DEF Unlink, Move
  <2>2. path \in Files
    BY <1>4 DEF Unlink, Move, TypeOK
  <2>3. events' \in Seq(Event)
    BY <1>4, <2>2, QueueType DEF Unlink, Move
  <2>. QED  BY <1>4, <2>1, <2>2, <2>3 DEF Unlink, Move, TypeOK
<1>5. CASE DropBackup
  <2>1. aside \in Files
    BY <1>5 DEF DropBackup, TypeOK
  <2>2. events' \in Seq(Event)
    BY <1>5, <2>1, QueueType DEF DropBackup
  <2>. QED  BY <1>5, <2>1, <2>2 DEF DropBackup, TypeOK
<1>. QED  BY <1>1, <1>2, <1>3, <1>4, <1>5 DEF Edit

-----------------------------------------------------------------------------
(* The script of Refresher.                                                *)

ScriptTypes ==
    /\ offering \in Accounts
    /\ rpc \in {"sleep", "compare", "truncate", "preconfig", "users", "file", "dead"}
    /\ fetched \in Accounts
    /\ prev \in Accounts \cup {Nil}
    /\ published \in Nat
    /\ crashes \in Nat

ReloadInv == WatchInv /\ ScriptTypes

\* What a script that writes the file leaves alone.
LEMMA WritingTypes ==
  ASSUME WatchInv, NEW c \in Contents, UNCHANGED <<edits, glauth>>,
         Overwrite(c) \/ \E f \in Files : /\ path' = f
                                          /\ text' = [text EXCEPT ![f] = c]
                                          /\ UNCHANGED <<aside, watch, events>>
  PROVE  WatchInv'
<1>. USE DEF WatchInv, Checked, glauth, watcher
<1>1. CASE Overwrite(c)
  BY <1>1, OverwriteType DEF TypeOK
<1>2. ASSUME NEW f \in Files, path' = f, text' = [text EXCEPT ![f] = c],
             UNCHANGED <<aside, watch, events>>
      PROVE  WatchInv'
  BY <1>2 DEF TypeOK
<1>. QED  BY <1>1, <1>2

LEMMA ReloadInit == RInit => ReloadInv
<1>. SUFFICES ASSUME RInit PROVE ReloadInv
  OBVIOUS
<1>1. AnInode \in Files /\ edits \in Editor /\ edits.first \in Contents
  BY WatchAssumption DEF AnInode, RInit, InitAt, Editor
<1>2. WatchInv
  <2>1. path \in Files \cup {Nil} /\ text \in [Files -> Contents] /\ read \in Contents
    BY <1>1 DEF RInit, InitAt
  <2>2. events \in Seq(Event)
    BY DEF RInit, InitAt
  <2>. QED  BY <1>1, <2>1, <2>2 DEF RInit, InitAt, WatchInv, Checked, TypeOK
<1>3. offering \in Accounts
  BY RefresherAssumption DEF RInit
<1>. QED  BY <1>2, <1>3 DEF RInit, ReloadInv, ScriptTypes

LEMMA ReloadStep == ReloadInv /\ [RNext]_rvars => ReloadInv'
<1>. SUFFICES ASSUME ReloadInv, [RNext]_rvars PROVE ReloadInv'
  OBVIOUS
<1>. USE DEF ReloadInv
<1>1. ASSUME UNCHANGED vars PROVE WatchInv'
  BY <1>1 DEF vars, disk, watcher, WatchInv, Checked, TypeOK
<1>2. CASE Elsewhere(Next)
  <2>1. WatchInv'
    BY <1>2, WatcherTypes, MainTypes, EditTypes DEF Elsewhere, Next
  <2>. QED  BY <1>2, <2>1 DEF Elsewhere, script, portal, ScriptTypes
<1>3. CASE Fetch \/ Compare \/ File
  BY <1>1, <1>3 DEF Fetch, Compare, File, portal, ScriptTypes
<1>4. CASE Truncate
  <2>1. Empty \in Contents
    BY RefresherAssumption
  <2>2. WatchInv'
    BY <1>4, <2>1, WritingTypes DEF Truncate, Truncated
  <2>. QED  BY <1>4, <2>2 DEF Truncate, portal, ScriptTypes
<1>5. CASE WritePreconfig
  <2>1. Preconfig \in Contents
    BY RefresherAssumption
  <2>2. WatchInv'
    BY <1>5, <2>1, WritingTypes DEF WritePreconfig
  <2>. QED  BY <1>5, <2>2 DEF WritePreconfig, portal, ScriptTypes
<1>6. CASE WriteUsers
  <2>1. WithAccounts[fetched] \in Contents
    BY RefresherAssumption DEF ScriptTypes
  <2>2. WatchInv'
    BY <1>6, <2>1, WritingTypes DEF WriteUsers
  <2>. QED  BY <1>6, <2>2 DEF WriteUsers, portal, ScriptTypes
<1>7. CASE Crash \/ Restart \/ Publish
  BY <1>1, <1>7 DEF Crash, Restart, Publish, script, portal, ScriptTypes
<1>8. CASE UNCHANGED rvars
  BY <1>1, <1>8 DEF rvars, script, portal, ScriptTypes
<1>. QED  BY <1>2, <1>3, <1>4, <1>5, <1>6, <1>7, <1>8 DEF RNext, Script

-----------------------------------------------------------------------------
(* What several files say, merged.                                         *)

LEMMA LeastOf ==
  ASSUME NEW T \in SUBSET Nat, T # {}
  PROVE  \E x \in T : \A y \in T : x <= y
<1>1. IsWellFoundedOn(OpToRel(<, Nat), Nat)
  BY NatLessThanWellFounded
<1>2. PICK x \in T : \A y \in T : ~(<<y, x>> \in OpToRel(<, Nat))
  BY <1>1, WFMin
<1>3. \A y \in T : ~(y < x)
  BY <1>2 DEF OpToRel
<1>. QED  BY <1>3

\* The documents that come of merging the first files, one after the other.
IsMerging(f, docs, m) ==
    f = [n \in 0 .. m |-> IF n = 0 THEN <<>> ELSE Merge(f[n - 1], docs[n])]

LEMMA Accumulates ==
  ASSUME NEW docs, NEW m \in Nat
  PROVE  \E f : IsMerging(f, docs, m)
<1>. DEFINE T == {n \in Nat : ~ \E f : IsMerging(f, docs, n)}
<1>. SUFFICES ASSUME T # {} PROVE FALSE
  OBVIOUS
<1>1. PICK n \in T : \A k \in T : n <= k
  BY LeastOf
<1>2. CASE n = 0
  <2>. DEFINE g == [i \in 0 .. 0 |-> <<>>]
  <2>1. IsMerging(g, docs, 0)
    BY DEF IsMerging
  <2>. QED  BY <1>1, <1>2, <2>1
<1>3. CASE n # 0
  <2>1. n \in Nat /\ n - 1 \in Nat /\ n - 1 \notin T
    BY <1>1, <1>3
  <2>2. PICK f : IsMerging(f, docs, n - 1)
    BY <2>1
  <2>. DEFINE g == [i \in 0 .. n |-> IF i = n THEN Merge(f[n - 1], docs[n]) ELSE f[i]]
  <2>3. \A i \in 0 .. n - 1 :
          f[i] = IF i = 0 THEN <<>> ELSE Merge(f[i - 1], docs[i])
    BY <2>1, <2>2 DEF IsMerging
  <2>4. \A i \in 0 .. n : g[i] = IF i = 0 THEN <<>> ELSE Merge(g[i - 1], docs[i])
    <3>. SUFFICES ASSUME NEW i \in 0 .. n
                  PROVE  g[i] = IF i = 0 THEN <<>> ELSE Merge(g[i - 1], docs[i])
      OBVIOUS
    <3>1. CASE i = n
      <4>1. g[n] = Merge(f[n - 1], docs[n]) /\ g[n - 1] = f[n - 1]
        BY <2>1
      <4>. QED  BY <1>3, <3>1, <4>1
    <3>2. CASE i # n
      <4>1. i \in 0 .. n - 1 /\ g[i] = f[i] /\ (i # 0 => g[i - 1] = f[i - 1])
        BY <2>1, <3>2
      <4>. QED  BY <2>3, <4>1
    <3>. QED  BY <3>1, <3>2
  <2>5. g = [i \in 0 .. n |-> g[i]]
    OBVIOUS
  <2>. HIDE DEF g
  <2>6. IsMerging(g, docs, n)
    BY <2>4, <2>5 DEF IsMerging
  <2>. QED  BY <1>1, <2>6
<1>. QED  BY <1>2, <1>3

LEMMA MergedIs ==
  ASSUME NEW docs, Len(docs) \in Nat
  PROVE  \E f : IsMerging(f, docs, Len(docs)) /\ Merged(docs) = f[Len(docs)]
<1>1. \E f : IsMerging(f, docs, Len(docs))
  BY Accumulates
<1>. DEFINE up == CHOOSE f : IsMerging(f, docs, Len(docs))
<1>2. IsMerging(up, docs, Len(docs))
  BY <1>1
<1>3. Merged(docs) = up[Len(docs)]
  BY DEF Merged, IsMerging
<1>. QED  BY <1>2, <1>3

\* What one of the first n documents has, and in the tables what one of them
\* sets, is in the document they merge to, and nothing else; what is no list
\* is as in the one document that has it.
MergesTo(d, docs, n) ==
    /\ DOMAIN d = UNION {DOMAIN docs[i] : i \in 1 .. n}
    /\ \A t \in Tables : \A x :
         (t \in DOMAIN d /\ x \in DOMAIN d[t])
           <=> \E i \in 1 .. n : t \in DOMAIN docs[i] /\ x \in DOMAIN docs[i][t]
    /\ \A i \in 1 .. n : \A t \in Tables \cap DOMAIN docs[i] :
         \A x \in DOMAIN docs[i][t] : d[t][x] = docs[i][t][x]
    /\ \A i \in 1 .. n : \A s \in DOMAIN docs[i] \ (Tables \cup Lists) :
         d[s] = docs[i][s]

LEMMA MergesOne ==
  ASSUME NEW d, NEW docs, NEW n \in Nat, MergesTo(d, docs, n),
         NEW e, e = docs[n + 1], \A i \in 1 .. n : ~Clash(docs[i], e)
  PROVE  MergesTo(Merge(d, e), docs, n + 1)
<1>. DEFINE m == Merge(d, e)
<1>0. 1 .. n + 1 = 1 .. n \cup {n + 1}
  OBVIOUS
<1>1. /\ DOMAIN m = DOMAIN d \cup DOMAIN e
      /\ \A s \in DOMAIN d \ DOMAIN e : m[s] = d[s]
      /\ \A s \in DOMAIN e \ DOMAIN d : m[s] = e[s]
      /\ \A s \in Shared(d, e) \ Lists : m[s] = Joined(d[s], e[s])
  BY DEF Merge, Shared
<1>2. \A t \in Tables : t \notin Lists
  BY DEF Tables, Lists
<1>3. \A t \in Shared(d, e) \ Lists :
        /\ DOMAIN m[t] = DOMAIN d[t] \cup DOMAIN e[t]
        /\ \A x \in DOMAIN d[t] : m[t][x] = d[t][x]
        /\ \A x \in DOMAIN e[t] \ DOMAIN d[t] : m[t][x] = e[t][x]
  <2>. SUFFICES ASSUME NEW t \in Shared(d, e) \ Lists
                PROVE  /\ DOMAIN m[t] = DOMAIN d[t] \cup DOMAIN e[t]
                       /\ \A x \in DOMAIN d[t] : m[t][x] = d[t][x]
                       /\ \A x \in DOMAIN e[t] \ DOMAIN d[t] : m[t][x] = e[t][x]
    OBVIOUS
  <2>1. m[t] = Joined(d[t], e[t])
    BY <1>1
  <2>. HIDE DEF m
  <2>. QED  BY <2>1 DEF Joined
<1>4. \A i \in 1 .. n : \A t \in Tables \cap Shared(docs[i], e) :
        Shared(docs[i][t], e[t]) = {}
  BY DEF Clash
<1>5. \A i \in 1 .. n : Shared(docs[i], e) \subseteq Tables \cup Lists
  BY DEF Clash
<1>. HIDE DEF m
<1>6. DOMAIN m = UNION {DOMAIN docs[i] : i \in 1 .. n + 1}
  <2>1. DOMAIN d = UNION {DOMAIN docs[i] : i \in 1 .. n}
    BY DEF MergesTo
  <2>. QED  BY <1>0, <1>1, <2>1
<1>7. ASSUME NEW t \in Tables, NEW x
      PROVE  (t \in DOMAIN m /\ x \in DOMAIN m[t])
               <=> \E i \in 1 .. n + 1 : t \in DOMAIN docs[i] /\ x \in DOMAIN docs[i][t]
  <2>1. (t \in DOMAIN d /\ x \in DOMAIN d[t])
          <=> \E i \in 1 .. n : t \in DOMAIN docs[i] /\ x \in DOMAIN docs[i][t]
    BY DEF MergesTo
  <2>2. (t \in DOMAIN m /\ x \in DOMAIN m[t])
          <=> (t \in DOMAIN d /\ x \in DOMAIN d[t]) \/ (t \in DOMAIN e /\ x \in DOMAIN e[t])
    BY <1>1, <1>2, <1>3 DEF Shared
  <2>. QED  BY <1>0, <2>1, <2>2
<1>8. ASSUME NEW i \in 1 .. n + 1, NEW t \in Tables \cap DOMAIN docs[i],
             NEW x \in DOMAIN docs[i][t]
      PROVE  m[t][x] = docs[i][t][x]
  <2>1. CASE i \in 1 .. n
    <3>1. t \in DOMAIN d /\ x \in DOMAIN d[t] /\ d[t][x] = docs[i][t][x]
      BY <2>1 DEF MergesTo
    <3>. QED  BY <1>1, <1>2, <1>3, <3>1 DEF Shared
  <2>2. CASE i = n + 1
    <3>1. t \in DOMAIN e /\ x \in DOMAIN e[t] /\ e[t][x] = docs[i][t][x]
      BY <2>2
    <3>2. ~(t \in DOMAIN d /\ x \in DOMAIN d[t])
      BY <1>4, <3>1 DEF MergesTo, Shared
    <3>. QED  BY <1>1, <1>2, <1>3, <3>1, <3>2 DEF Shared
  <2>. QED  BY <1>0, <2>1, <2>2
<1>9. ASSUME NEW i \in 1 .. n + 1, NEW s \in DOMAIN docs[i] \ (Tables \cup Lists)
      PROVE  m[s] = docs[i][s]
  <2>1. CASE i \in 1 .. n
    <3>1. s \in DOMAIN d /\ d[s] = docs[i][s] /\ s \notin DOMAIN e
      BY <1>5, <2>1 DEF MergesTo, Shared
    <3>. QED  BY <1>1, <3>1
  <2>2. CASE i = n + 1
    <3>1. s \in DOMAIN e /\ e[s] = docs[i][s] /\ s \notin DOMAIN d
      BY <1>5, <2>2 DEF MergesTo, Shared
    <3>. QED  BY <1>1, <3>1
  <2>. QED  BY <1>0, <2>1, <2>2
<1>10. MergesTo(m, docs, n + 1)
  BY <1>6, <1>7, <1>8, <1>9 DEF MergesTo
<1>. QED  BY <1>10 DEF m

LEMMA Merges ==
  ASSUME NEW S, NEW docs \in Seq(S), ~MergeFails(docs),
         NEW f, IsMerging(f, docs, Len(docs)), NEW k \in 0 .. Len(docs)
  PROVE  MergesTo(f[k], docs, k)
<1>. DEFINE T == {n \in 0 .. Len(docs) : ~MergesTo(f[n], docs, n)}
<1>. SUFFICES ASSUME T # {} PROVE FALSE
  OBVIOUS
<1>1. Len(docs) \in Nat /\ DOMAIN docs = 1 .. Len(docs) /\ T \in SUBSET Nat
  OBVIOUS
<1>2. PICK n \in T : \A j \in T : n <= j
  BY <1>1, LeastOf
<1>3. \A i \in 0 .. Len(docs) :
        f[i] = IF i = 0 THEN <<>> ELSE Merge(f[i - 1], docs[i])
  BY <1>1 DEF IsMerging
<1>4. CASE n = 0
  <2>1. f[0] = <<>> /\ DOMAIN f[0] = {}
    BY <1>1, <1>3
  <2>2. 1 .. 0 = {}
    OBVIOUS
  <2>3. MergesTo(f[0], docs, 0)
    BY <2>1, <2>2 DEF MergesTo
  <2>. QED  BY <1>2, <1>4, <2>3
<1>5. CASE n # 0
  <2>1. n \in 0 .. Len(docs) /\ n - 1 \in 0 .. Len(docs) /\ n - 1 \notin T
    BY <1>1, <1>2, <1>5
  <2>2. MergesTo(f[n - 1], docs, n - 1)
    BY <2>1
  <2>3. \A i \in 1 .. n - 1 : ~Clash(docs[i], docs[n])
    BY <1>1, <2>1 DEF MergeFails
  <2>4. n - 1 \in Nat /\ (n - 1) + 1 = n
    BY <2>1
  <2>5. MergesTo(Merge(f[n - 1], docs[n]), docs, n)
    <3>. DEFINE p == n - 1
    <3>1. p \in Nat /\ p + 1 = n
      BY <2>4
    <3>2. MergesTo(f[p], docs, p) /\ \A i \in 1 .. p : ~Clash(docs[i], docs[n])
      BY <2>2, <2>3
    <3>. HIDE DEF p
    <3>3. docs[n] = docs[p + 1]
      BY <3>1
    <3>4. MergesTo(Merge(f[p], docs[n]), docs, p + 1)
      BY <3>1, <3>2, <3>3, MergesOne
    <3>. QED  BY <3>1, <3>4 DEF p
  <2>. QED  BY <1>2, <1>3, <1>5, <2>1, <2>5
<1>. QED  BY <1>4, <1>5

\* FlattenSeq sticks the sequences together one after the other.
IsFlattening(g, seqs, m) ==
    g = [i \in 1 .. m |-> IF i = 1 THEN seqs[i] ELSE g[i - 1] \o seqs[i]]

LEMMA Flattens ==
  ASSUME NEW seqs, NEW m \in Nat
  PROVE  \E g : IsFlattening(g, seqs, m)
<1>. DEFINE T == {n \in Nat : ~ \E g : IsFlattening(g, seqs, n)}
<1>. SUFFICES ASSUME T # {} PROVE FALSE
  OBVIOUS
<1>1. PICK n \in T : \A k \in T : n <= k
  BY LeastOf
<1>2. CASE n = 0
  <2>. DEFINE h == [i \in 1 .. 0 |-> <<>>]
  <2>1. IsFlattening(h, seqs, 0)
    BY DEF IsFlattening
  <2>. QED  BY <1>1, <1>2, <2>1
<1>3. CASE n # 0
  <2>1. n \in Nat /\ n - 1 \in Nat /\ n - 1 \notin T
    BY <1>1, <1>3
  <2>2. PICK g : IsFlattening(g, seqs, n - 1)
    BY <2>1
  <2>. DEFINE last == IF n = 1 THEN seqs[n] ELSE g[n - 1] \o seqs[n]
              h == [i \in 1 .. n |-> IF i = n THEN last ELSE g[i]]
  <2>3. \A i \in 1 .. n - 1 : g[i] = IF i = 1 THEN seqs[i] ELSE g[i - 1] \o seqs[i]
    BY <2>1, <2>2 DEF IsFlattening
  <2>4. \A i \in 1 .. n : h[i] = IF i = 1 THEN seqs[i] ELSE h[i - 1] \o seqs[i]
    <3>. SUFFICES ASSUME NEW i \in 1 .. n
                  PROVE  h[i] = IF i = 1 THEN seqs[i] ELSE h[i - 1] \o seqs[i]
      OBVIOUS
    <3>1. CASE i = n
      <4>1. h[n] = last /\ (n # 1 => h[n - 1] = g[n - 1])
        BY <2>1, <1>3
      <4>. QED  BY <3>1, <4>1
    <3>2. CASE i # n
      <4>1. i \in 1 .. n - 1 /\ h[i] = g[i] /\ (i # 1 => h[i - 1] = g[i - 1])
        BY <2>1, <3>2
      <4>. QED  BY <2>3, <4>1
    <3>. QED  BY <3>1, <3>2
  <2>5. h = [i \in 1 .. n |-> h[i]]
    OBVIOUS
  <2>. HIDE DEF h
  <2>6. IsFlattening(h, seqs, n)
    BY <2>4, <2>5 DEF IsFlattening
  <2>. QED  BY <1>1, <2>6
<1>. QED  BY <1>2, <1>3

LEMMA FlatIs ==
  ASSUME NEW seqs, Len(seqs) \in Nat \ {0}
  PROVE  \E g : IsFlattening(g, seqs, Len(seqs)) /\ FlattenSeq(seqs) = g[Len(seqs)]
<1>1. \E g : IsFlattening(g, seqs, Len(seqs))
  BY Flattens
<1>. DEFINE flat == CHOOSE g : IsFlattening(g, seqs, Len(seqs))
<1>2. IsFlattening(flat, seqs, Len(seqs))
  BY <1>1
<1>3. FlattenSeq(seqs) = flat[Len(seqs)]
  BY DEF FlattenSeq, IsFlattening
<1>. QED  BY <1>2, <1>3

LEMMA EntriesMerge ==
  ASSUME NEW d, NEW e, NEW l \in Lists,
         Entries(d, l) \in Seq(STRING), Entries(e, l) \in Seq(STRING)
  PROVE  /\ Entries(Merge(d, e), l) = Entries(d, l) \o Entries(e, l)
         /\ Entries(Merge(d, e), l) \in Seq(STRING)
<1>. DEFINE m == Merge(d, e)
<1>1. /\ DOMAIN m = DOMAIN d \cup DOMAIN e
      /\ l \in DOMAIN d \ DOMAIN e => m[l] = d[l]
      /\ l \in DOMAIN e \ DOMAIN d => m[l] = e[l]
      /\ l \in Shared(d, e) => m[l] = d[l] \o e[l]
  BY DEF Merge, Shared
<1>. HIDE DEF m
<1>2. Entries(m, l) = Entries(d, l) \o Entries(e, l)
  <2>1. CASE l \notin DOMAIN d
    <3>1. Entries(d, l) = <<>> /\ Entries(m, l) = Entries(e, l)
      BY <1>1, <2>1 DEF Entries
    <3>. QED  BY <3>1
  <2>2. CASE l \in DOMAIN d /\ l \notin DOMAIN e
    <3>1. Entries(e, l) = <<>> /\ Entries(m, l) = Entries(d, l)
      BY <1>1, <2>2 DEF Entries
    <3>. QED  BY <3>1
  <2>3. CASE l \in DOMAIN d /\ l \in DOMAIN e
    BY <1>1, <2>3 DEF Entries, Shared
  <2>. QED  BY <2>1, <2>2, <2>3
<1>. QED  BY <1>2 DEF m

EntriesIn(docs, l) == [i \in DOMAIN docs |-> Entries(docs[i], l)]

Listing(docs, l) ==
    /\ Len(docs) \in Nat /\ DOMAIN docs = 1 .. Len(docs)
    /\ \A i \in 1 .. Len(docs) : Entries(docs[i], l) \in Seq(STRING)

\* A list of the document several documents merge to is their lists, one after
\* the other.
LEMMA ListsMerge ==
  ASSUME NEW l \in Lists, NEW docs, Listing(docs, l), NEW f,
         IsMerging(f, docs, Len(docs)), NEW k \in 0 .. Len(docs)
  PROVE  /\ Entries(f[k], l) \in Seq(STRING)
         /\ \A g : IsFlattening(g, EntriesIn(docs, l), Len(docs)) /\ k # 0
                     => Entries(f[k], l) = g[k]
<1>. DEFINE seqs == EntriesIn(docs, l)
            Flat(n) == /\ Entries(f[n], l) \in Seq(STRING)
                       /\ \A g : IsFlattening(g, seqs, Len(docs)) /\ n # 0
                                   => Entries(f[n], l) = g[n]
            T == {n \in 0 .. Len(docs) : ~Flat(n)}
<1>. SUFFICES ASSUME T # {} PROVE FALSE
  OBVIOUS
<1>1. Len(docs) \in Nat /\ DOMAIN docs = 1 .. Len(docs) /\ T \in SUBSET Nat
  BY DEF Listing
<1>2. PICK n \in T : \A j \in T : n <= j
  BY <1>1, LeastOf
<1>3. \A i \in 0 .. Len(docs) :
        f[i] = IF i = 0 THEN <<>> ELSE Merge(f[i - 1], docs[i])
  BY <1>1 DEF IsMerging
<1>4. Entries(f[0], l) = <<>>
  <2>1. f[0] = <<>> /\ DOMAIN f[0] = {}
    BY <1>1, <1>3
  <2>. QED  BY <2>1 DEF Entries
<1>5. n # 0
  <2>1. Flat(0)
    <3>1. Entries(f[0], l) \in Seq(STRING)
      BY <1>4
    <3>. QED  BY <3>1
  <2>. HIDE DEF Flat
  <2>. QED  BY <1>2, <2>1
<1>6. n \in 0 .. Len(docs) /\ n \in 1 .. Len(docs) /\ n - 1 \in 0 .. Len(docs) /\ Flat(n - 1)
  <2>1. /\ n \in 0 .. Len(docs) /\ n \in 1 .. Len(docs) /\ n - 1 \in 0 .. Len(docs)
        /\ n - 1 \notin T
    BY <1>1, <1>2, <1>5
  <2>. HIDE DEF Flat
  <2>. QED  BY <2>1
<1>7. f[n] = Merge(f[n - 1], docs[n])
  BY <1>3, <1>5, <1>6
<1>8. \A i \in 1 .. Len(docs) : Entries(docs[i], l) \in Seq(STRING)
  BY DEF Listing
<1>9. /\ Entries(f[n], l) = Entries(f[n - 1], l) \o Entries(docs[n], l)
      /\ Entries(f[n], l) \in Seq(STRING)
  BY <1>8, <1>6, <1>7, EntriesMerge
<1>10. seqs[n] = Entries(docs[n], l)
  BY <1>1, <1>6 DEF EntriesIn
<1>. HIDE DEF seqs
<1>11. ASSUME NEW g, IsFlattening(g, seqs, Len(docs))
       PROVE  Entries(f[n], l) = g[n]
  <2>1. g[n] = IF n = 1 THEN seqs[n] ELSE g[n - 1] \o seqs[n]
    BY <1>6, <1>11 DEF IsFlattening
  <2>2. CASE n = 1
    <3>1. Entries(f[n - 1], l) = <<>> /\ Entries(docs[n], l) \in Seq(STRING)
      BY <1>8, <1>4, <1>6, <2>2
    <3>. QED  BY <1>9, <1>10, <2>1, <2>2, <3>1
  <2>3. CASE n # 1
    <3>1. n - 1 # 0
      BY <1>6, <2>3
    <3>2. Entries(f[n - 1], l) = g[n - 1]
      BY <1>6, <1>11, <3>1
    <3>. QED  BY <1>9, <1>10, <2>1, <2>3, <3>2
  <2>. QED  BY <2>2, <2>3
<1>12. Flat(n)
  BY <1>9, <1>11
<1>. QED  BY <1>2, <1>12

-----------------------------------------------------------------------------
(* What a configuration says, and what Parsed makes of it.                 *)

Mergeable(c) == c \in Contents /\ (~c.dir \/ ~MergeFails(c.docs))

LEMMA ReadsDocs ==
  ASSUME NEW c, Mergeable(c)
  PROVE  /\ c.docs \in Seq(ToSet(c.docs)) /\ DOMAIN c.docs = 1 .. Len(c.docs)
         /\ ~c.dir => Len(c.docs) = 1
         /\ ToSet(c.docs) = {c.docs[i] : i \in 1 .. Len(c.docs)}
         /\ ~MergeFails(c.docs)
         /\ MergesTo(Merged(c.docs), c.docs, Len(c.docs))
<1>1. c.docs \in Seq(ToSet(c.docs)) /\ (~c.dir => Len(c.docs) = 1)
  BY DecoderAssumption DEF Mergeable
<1>2. DOMAIN c.docs = 1 .. Len(c.docs) /\ Len(c.docs) \in Nat
  BY <1>1
<1>3. ToSet(c.docs) = {c.docs[i] : i \in 1 .. Len(c.docs)}
  BY <1>2 DEF ToSet
<1>4. ~MergeFails(c.docs)
  <2>1. CASE ~c.dir
    <3>1. Len(c.docs) = 1
      BY <1>1, <2>1, Zenon
    <3>2. \A i \in DOMAIN c.docs : \A j \in DOMAIN c.docs : ~(i < j)
      BY <1>2, <3>1
    <3>. QED  BY <3>2, Zenon DEF MergeFails
  <2>. QED  BY <2>1 DEF Mergeable
<1>5. PICK f : IsMerging(f, c.docs, Len(c.docs)) /\ Merged(c.docs) = f[Len(c.docs)]
  BY <1>2, MergedIs
<1>6. Len(c.docs) \in 0 .. Len(c.docs)
  BY <1>2
<1>7. MergesTo(f[Len(c.docs)], c.docs, Len(c.docs))
  BY <1>1, <1>4, <1>5, <1>6, Merges
<1>. QED  BY <1>1, <1>2, <1>3, <1>4, <1>5, <1>7

\* A setting is what one of the files says, or else the default.
LEMMA SettingSaid ==
  ASSUME NEW c, Mergeable(c),
         NEW t \in Tables, NEW n, NEW default
  PROVE  /\ Said(c, t, n) = {} => Setting(Merged(c.docs), t, n, default) = default
         /\ Said(c, t, n) # {}
              => Said(c, t, n) = {Setting(Merged(c.docs), t, n, default)}
<1>. DEFINE m == Merged(c.docs)
<1>1. /\ ToSet(c.docs) = {c.docs[i] : i \in 1 .. Len(c.docs)}
      /\ MergesTo(m, c.docs, Len(c.docs))
  BY ReadsDocs
<1>. HIDE DEF m
<1>2. Said(c, t, n) = {c.docs[i][t][n] : i \in {j \in 1 .. Len(c.docs) :
                         t \in DOMAIN c.docs[j] /\ n \in DOMAIN c.docs[j][t]}}
  BY <1>1 DEF Said
<1>3. (t \in DOMAIN m /\ n \in DOMAIN m[t])
        <=> \E i \in 1 .. Len(c.docs) : t \in DOMAIN c.docs[i] /\ n \in DOMAIN c.docs[i][t]
  BY <1>1 DEF MergesTo
<1>4. \A i \in 1 .. Len(c.docs) : t \in DOMAIN c.docs[i] /\ n \in DOMAIN c.docs[i][t]
        => m[t][n] = c.docs[i][t][n]
  BY <1>1 DEF MergesTo
<1>5. CASE Said(c, t, n) = {}
  BY <1>2, <1>3, <1>5 DEF Setting, m
<1>6. CASE Said(c, t, n) # {}
  <2>1. t \in DOMAIN m /\ n \in DOMAIN m[t]
    BY <1>2, <1>3, <1>6
  <2>2. Setting(m, t, n, default) = m[t][n]
    BY <2>1 DEF Setting
  <2>3. \A v \in Said(c, t, n) : v = m[t][n]
    BY <1>2, <1>4
  <2>. QED  BY <1>6, <2>2, <2>3 DEF m
<1>. QED  BY <1>5, <1>6

LEMMA SaidTypes ==
  ASSUME NEW c \in Contents, Accepted(c), NEW t \in Tables, NEW n
  PROVE  Said(c, t, n) \subseteq IF n \in {"enabled", "tls"} THEN BOOLEAN ELSE STRING
<1>1. \A d \in ToSet(c.docs) : \A s \in Tables \cap DOMAIN d : \A x \in DOMAIN d[s] :
        d[s][x] \in IF x \in {"enabled", "tls"} THEN BOOLEAN ELSE STRING
  BY DecoderAssumption
<1>. QED  BY <1>1 DEF Said

LEMMA AcceptedMerges ==
  ASSUME NEW c \in Contents, Accepted(c)
  PROVE  Mergeable(c)
BY DEF Mergeable, Accepted, ParseFails

LEMMA SettingTypes ==
  ASSUME NEW c \in Contents, Accepted(c), NEW t \in Tables
  PROVE  /\ \A n, default : n \notin {"enabled", "tls"} /\ default \in STRING
              => Setting(Merged(c.docs), t, n, default) \in STRING
         /\ \A n \in {"enabled", "tls"} : \A default \in BOOLEAN :
              Setting(Merged(c.docs), t, n, default) \in BOOLEAN
<1>1. Mergeable(c)
  BY AcceptedMerges
<1>2. ASSUME NEW n, NEW default
      PROVE  \/ Setting(Merged(c.docs), t, n, default) = default
             \/ Setting(Merged(c.docs), t, n, default)
                  \in IF n \in {"enabled", "tls"} THEN BOOLEAN ELSE STRING
  <2>1. /\ Said(c, t, n) = {} => Setting(Merged(c.docs), t, n, default) = default
        /\ Said(c, t, n) # {}
              => Said(c, t, n) = {Setting(Merged(c.docs), t, n, default)}
    BY <1>1, SettingSaid
  <2>2. Said(c, t, n) \subseteq IF n \in {"enabled", "tls"} THEN BOOLEAN ELSE STRING
    BY SaidTypes
  <2>. QED  BY <2>1, <2>2
<1>. QED  BY <1>2

\* The lists of the document the files merge to.
LEMMA EntriesOf ==
  ASSUME NEW c, Mergeable(c), NEW l \in Lists,
         \A d \in ToSet(c.docs) : l \in DOMAIN d => d[l] \in Seq(STRING)
  PROVE  /\ Entries(Merged(c.docs), l) \in Seq(STRING)
         /\ Len(c.docs) # 0 => Entries(Merged(c.docs), l)
              = FlattenSeq(EntriesIn(c.docs, l))
<1>. DEFINE docs == c.docs
            k == Len(docs)
<1>1. /\ docs \in Seq(ToSet(docs)) /\ DOMAIN docs = 1 .. Len(docs)
      /\ ToSet(docs) = {docs[i] : i \in 1 .. Len(docs)}
  BY ReadsDocs
<1>. HIDE DEF docs
<1>2. k \in Nat /\ k \in 0 .. k
  BY <1>1
<1>3. \A i \in 1 .. k : Entries(docs[i], l) \in Seq(STRING)
  <2>1. \A i \in 1 .. k : docs[i] \in ToSet(docs)
    BY <1>1
  <2>2. \A d \in ToSet(docs) : l \in DOMAIN d => d[l] \in Seq(STRING)
    BY DEF docs
  <2>3. <<>> \in Seq(STRING)
    OBVIOUS
  <2>. QED  BY <2>1, <2>2, <2>3, Zenon DEF Entries
<1>4. PICK f : IsMerging(f, docs, k) /\ Merged(docs) = f[k]
  BY <1>2, MergedIs
<1>5. /\ Entries(f[k], l) \in Seq(STRING)
      /\ \A g : IsFlattening(g, EntriesIn(docs, l), k) /\ k # 0 => Entries(f[k], l) = g[k]
  <2>1. Listing(docs, l)
    BY <1>1, <1>2, <1>3 DEF Listing
  <2>. QED  BY <1>2, <1>4, <2>1, ListsMerge
<1>6. ASSUME k # 0
      PROVE  Entries(Merged(docs), l) = FlattenSeq(EntriesIn(docs, l))
  <2>1. EntriesIn(docs, l) \in Seq(Seq(STRING)) /\ Len(EntriesIn(docs, l)) = k
    BY <1>1, <1>2, <1>3 DEF EntriesIn
  <2>2. Len(EntriesIn(docs, l)) \in Nat \ {0}
    BY <1>2, <1>6, <2>1
  <2>3. PICK g : /\ IsFlattening(g, EntriesIn(docs, l), Len(EntriesIn(docs, l)))
                 /\ FlattenSeq(EntriesIn(docs, l)) = g[Len(EntriesIn(docs, l))]
    BY <2>2, FlatIs
  <2>. QED  BY <1>4, <1>5, <1>6, <2>1, <2>3
<1>. QED  BY <1>4, <1>5, <1>6 DEF docs

\* The fields of the records Parsed makes.
Fields == {"ldap", "ldaps", "frontend", "backends", "yubikey", "users"}

LEMMA NoText == Unset \in STRING
BY DecoderAssumption DEF Args, NoArgs

LEMMA ParsedTypes ==
  ASSUME NEW c \in Contents, Accepted(c)
  PROVE  /\ Parsed(c).ldap \in [enabled : BOOLEAN, listen : STRING]
         /\ Parsed(c).ldaps \in [enabled : BOOLEAN, listen : STRING, cert : STRING]
         /\ Parsed(c).frontend \in [tls : BOOLEAN, listen : STRING, cert : STRING]
         /\ Parsed(c).backends \in Seq(STRING)
         /\ Parsed(c).yubikey \in STRING
<1>. DEFINE m == Merged(c.docs)
<1>1. Mergeable(c)
  BY AcceptedMerges
<1>2. ASSUME NEW t \in Tables, NEW n \in {"listen", "cert", "datastore"}
      PROVE  Setting(m, t, n, Unset) \in STRING
  <2>1. n \notin {"enabled", "tls"}
    OBVIOUS
  <2>. QED  BY <2>1, NoText, SettingTypes, Zenon
<1>3. ASSUME NEW t \in Tables, NEW n \in {"enabled", "tls"}, NEW b \in BOOLEAN
      PROVE  Setting(m, t, n, b) \in BOOLEAN
  BY SettingTypes, Zenon
<1>4. \A l \in Lists : Entries(m, l) \in Seq(STRING)
  <2>1. \A l \in Lists : \A d \in ToSet(c.docs) : l \in DOMAIN d => d[l] \in Seq(STRING)
    BY DecoderAssumption
  <2>. QED  BY <1>1, <2>1, EntriesOf
<1>5. "yubikey" \in DOMAIN m => m["yubikey"] \in STRING
  <2>1. /\ ToSet(c.docs) = {c.docs[i] : i \in 1 .. Len(c.docs)}
        /\ MergesTo(m, c.docs, Len(c.docs))
    BY <1>1, ReadsDocs
  <2>2. \A d \in ToSet(c.docs) : "yubikey" \in DOMAIN d => d["yubikey"] \in STRING
    BY DecoderAssumption
  <2>3. "yubikey" \notin Tables \cup Lists
    BY DEF Tables, Lists
  <2>. HIDE DEF m
  <2>. SUFFICES ASSUME "yubikey" \in DOMAIN m PROVE m["yubikey"] \in STRING
    OBVIOUS
  <2>4. PICK i \in 1 .. Len(c.docs) : "yubikey" \in DOMAIN c.docs[i]
    BY <2>1 DEF MergesTo
  <2>5. m["yubikey"] = c.docs[i]["yubikey"]
    BY <2>1, <2>3, <2>4 DEF MergesTo
  <2>. QED  BY <2>1, <2>2, <2>4, <2>5
<1>6. c.dir \in BOOLEAN
  BY DecoderAssumption
<1>. HIDE DEF m
<1>7. /\ {"ldap", "ldaps", "frontend", "backend"} = Tables
      /\ {"backends", "users"} = Lists
  BY DEF Tables, Lists
<1>8. /\ Setting(m, "ldap", "enabled", FALSE) \in BOOLEAN
      /\ Setting(m, "ldaps", "enabled", ~c.dir) \in BOOLEAN
      /\ Setting(m, "frontend", "tls", FALSE) \in BOOLEAN
  BY <1>3, <1>6, <1>7, Zenon
<1>9. /\ \A t \in Tables : Setting(m, t, "listen", Unset) \in STRING
      /\ \A t \in Tables : Setting(m, t, "cert", Unset) \in STRING
      /\ \A t \in Tables : Setting(m, t, "datastore", Unset) \in STRING
  BY <1>2, Zenon
<1>10. Backends(m) \in Seq(STRING)
  <2>. DEFINE single == Setting(m, "backend", "datastore", Unset)
  <2>1. single \in STRING /\ Entries(m, "backends") \in Seq(STRING)
    BY <1>4, <1>7, <1>9, Zenon
  <2>2. <<single>> \in Seq(STRING)
    <3>. HIDE DEF single
    <3>. QED  BY <2>1
  <2>3. Backends(m) \in {<<single>>, Entries(m, "backends")}
    BY Zenon DEF Backends
  <2>. QED  BY <2>1, <2>2, <2>3, Zenon
<1>11. /\ Parsed(c).ldap = [enabled |-> Setting(m, "ldap", "enabled", FALSE),
                            listen |-> Setting(m, "ldap", "listen", Unset)]
       /\ Parsed(c).ldaps = [enabled |-> Setting(m, "ldaps", "enabled", ~c.dir),
                             listen |-> Setting(m, "ldaps", "listen", Unset),
                             cert |-> Setting(m, "ldaps", "cert", Unset)]
       /\ Parsed(c).frontend = [tls |-> Setting(m, "frontend", "tls", FALSE),
                                listen |-> Setting(m, "frontend", "listen", Unset),
                                cert |-> Setting(m, "frontend", "cert", Unset)]
       /\ Parsed(c).backends = Backends(m)
       /\ Parsed(c).yubikey = IF "yubikey" \in DOMAIN m THEN m["yubikey"] ELSE Unset
  BY Zenon DEF Parsed, m
<1>12. Parsed(c).yubikey \in STRING
  BY <1>5, <1>11, NoText, Zenon
<1>13. Parsed(c).ldap \in [enabled : BOOLEAN, listen : STRING]
  <2>. DEFINE b == Setting(m, "ldap", "enabled", FALSE)
              u == Setting(m, "ldap", "listen", Unset)
  <2>1. b \in BOOLEAN
    BY <1>8
  <2>2. u \in STRING
    BY <1>7, <1>9, Zenon
  <2>3. Parsed(c).ldap = [enabled |-> b, listen |-> u]
    BY <1>11, Zenon
  <2>. HIDE DEF b, u
  <2>. QED  BY <2>1, <2>2, <2>3
<1>14. Parsed(c).ldaps \in [enabled : BOOLEAN, listen : STRING, cert : STRING]
  <2>. DEFINE b == Setting(m, "ldaps", "enabled", ~c.dir)
              u == Setting(m, "ldaps", "listen", Unset)
              v == Setting(m, "ldaps", "cert", Unset)
  <2>1. b \in BOOLEAN
    BY <1>8
  <2>2. u \in STRING /\ v \in STRING
    BY <1>7, <1>9, Zenon
  <2>3. Parsed(c).ldaps = [enabled |-> b, listen |-> u, cert |-> v]
    BY <1>11, Zenon
  <2>. HIDE DEF b, u, v
  <2>. QED  BY <2>1, <2>2, <2>3
<1>15. Parsed(c).frontend \in [tls : BOOLEAN, listen : STRING, cert : STRING]
  <2>. DEFINE b == Setting(m, "frontend", "tls", FALSE)
              u == Setting(m, "frontend", "listen", Unset)
              v == Setting(m, "frontend", "cert", Unset)
  <2>1. b \in BOOLEAN
    BY <1>8
  <2>2. u \in STRING /\ v \in STRING
    BY <1>7, <1>9, Zenon
  <2>3. Parsed(c).frontend = [tls |-> b, listen |-> u, cert |-> v]
    BY <1>11, Zenon
  <2>. HIDE DEF b, u, v
  <2>. QED  BY <2>1, <2>2, <2>3
<1>. QED  BY <1>10, <1>11, <1>12, <1>13, <1>14, <1>15, Zenon

\* What Parsed, WithArgs and WithLegacy hand on from one to the next.
Readable(p) ==
    /\ DOMAIN p = Fields /\ p = [x \in Fields |-> p[x]]
    /\ p.ldap \in [enabled : BOOLEAN, listen : STRING]
    /\ p.ldaps \in [enabled : BOOLEAN, listen : STRING, cert : STRING]
    /\ p.frontend \in [tls : BOOLEAN, listen : STRING, cert : STRING]
    /\ p.backends \in Seq(STRING)
    /\ p.yubikey \in STRING

LEMMA ParsedReadable ==
  ASSUME NEW c \in Contents, Accepted(c)
  PROVE  Readable(Parsed(c))
<1>. DEFINE p == Parsed(c)
<1>1. DOMAIN p = Fields /\ p = [x \in Fields |-> p[x]]
  BY DEF Parsed, Fields
<1>. QED  BY <1>1, ParsedTypes DEF Readable

LEMMA ArgsOf ==
  ASSUME NEW p, Readable(p), NEW args \in Args
  PROVE  /\ Readable(WithArgs(p, args))
         /\ WithArgs(p, args).frontend = p.frontend
         /\ WithArgs(p, args).ldap.enabled <=> p.ldap.enabled \/ args.ldap # Unset
         /\ WithArgs(p, args).ldap.listen = Or(args.ldap, p.ldap.listen)
         /\ WithArgs(p, args).ldaps.enabled <=> p.ldaps.enabled \/ args.ldaps # Unset
         /\ WithArgs(p, args).ldaps.listen = Or(args.ldaps, p.ldaps.listen)
<1>. DEFINE a == WithArgs(p, args)
            en == p.ldap.enabled \/ args.ldap # Unset
            ens == p.ldaps.enabled \/ args.ldaps # Unset
<1>1. /\ Or(args.ldap, p.ldap.listen) \in STRING
      /\ Or(args.ldaps, p.ldaps.listen) \in STRING
      /\ Or(args.cert, p.ldaps.cert) \in STRING
  BY DEF Or, Args, Readable
<1>2. en \in BOOLEAN /\ ens \in BOOLEAN
  BY Zenon
<1>3. /\ DOMAIN a = Fields /\ a = [x \in Fields |-> a[x]]
      /\ a.frontend = p.frontend /\ a.backends = p.backends /\ a.yubikey = p.yubikey
      /\ a.ldap = [p.ldap EXCEPT !.enabled = en, !.listen = Or(args.ldap, @)]
      /\ a.ldaps = [p.ldaps EXCEPT !.enabled = ens, !.listen = Or(args.ldaps, @),
                                   !.cert = Or(args.cert, @)]
  BY DEF WithArgs, Readable, Fields
<1>. HIDE DEF a, en, ens
<1>4. /\ a.ldap \in [enabled : BOOLEAN, listen : STRING]
      /\ a.ldap.enabled = en /\ a.ldap.listen = Or(args.ldap, p.ldap.listen)
  BY <1>1, <1>2, <1>3 DEF Readable
<1>5. /\ a.ldaps \in [enabled : BOOLEAN, listen : STRING, cert : STRING]
      /\ a.ldaps.enabled = ens /\ a.ldaps.listen = Or(args.ldaps, p.ldaps.listen)
  BY <1>1, <1>2, <1>3 DEF Readable
<1>6. Readable(a)
  BY <1>3, <1>4, <1>5 DEF Readable
<1>. QED  BY <1>3, <1>4, <1>5, <1>6 DEF a, en, ens

LEMMA LegacyOf ==
  ASSUME NEW a, Readable(a)
  PROVE  /\ Readable(WithLegacy(a))
         /\ a.frontend.listen = Unset => WithLegacy(a) = a
         /\ a.frontend.listen # Unset
              => /\ WithLegacy(a).ldap.enabled = ~a.frontend.tls
                 /\ WithLegacy(a).ldaps.enabled = a.frontend.tls
                 /\ ~a.frontend.tls => WithLegacy(a).ldap.listen = a.frontend.listen
                 /\ a.frontend.tls => WithLegacy(a).ldaps.listen = a.frontend.listen
<1>1. CASE a.frontend.listen = Unset
  BY <1>1 DEF WithLegacy
<1>2. CASE a.frontend.listen # Unset
  <2>. DEFINE old == a.frontend
              d == WithLegacy(a)
              plainly == ~old.tls
              cert == Or(old.cert, a.ldaps.cert)
              one == IF old.tls THEN a.ldap.listen ELSE old.listen
              other == IF old.tls THEN old.listen ELSE a.ldaps.listen
  <2>1. cert \in STRING /\ one \in STRING /\ other \in STRING
    BY DEF Readable, Or
  <2>2. plainly \in BOOLEAN /\ old.tls \in BOOLEAN
    BY DEF Readable
  <2>3. d = [a EXCEPT !.ldap.enabled = plainly, !.ldaps.enabled = old.tls,
                      !.ldap.listen = one, !.ldaps.listen = other, !.ldaps.cert = cert]
    BY <1>2 DEF WithLegacy, Readable, Fields
  <2>4. one = (IF old.tls THEN a.ldap.listen ELSE old.listen)
        /\ other = (IF old.tls THEN old.listen ELSE a.ldaps.listen)
    OBVIOUS
  <2>. HIDE DEF cert, one, other, d, plainly
  <2>5. /\ DOMAIN d = Fields /\ d = [x \in Fields |-> d[x]]
        /\ d.frontend = a.frontend /\ d.backends = a.backends /\ d.yubikey = a.yubikey
        /\ d.ldap = [a.ldap EXCEPT !.enabled = plainly, !.listen = one]
        /\ d.ldaps = [a.ldaps EXCEPT !.enabled = old.tls, !.listen = other, !.cert = cert]
    BY <2>3 DEF Readable, Fields
  <2>6. /\ d.ldap \in [enabled : BOOLEAN, listen : STRING]
        /\ d.ldap.enabled = plainly /\ d.ldap.listen = one
    BY <2>1, <2>2, <2>5 DEF Readable
  <2>7. /\ d.ldaps \in [enabled : BOOLEAN, listen : STRING, cert : STRING]
        /\ d.ldaps.enabled = old.tls /\ d.ldaps.listen = other
    BY <2>1, <2>2, <2>5 DEF Readable
  <2>8. Readable(d)
    BY <2>5, <2>6, <2>7 DEF Readable
  <2>. QED  BY <1>2, <2>2, <2>4, <2>6, <2>7, <2>8 DEF d, plainly
<1>. QED  BY <1>1, <1>2

LEMMA BeforeReadable ==
  ASSUME NEW c \in Contents, Accepted(c)
  PROVE  Readable(WithArgs(Parsed(c), c.args)) /\ Readable(BeforeValidation(c))
<1>1. Readable(Parsed(c)) /\ c.args \in Args
  BY ParsedReadable, DecoderAssumption
<1>2. Readable(WithArgs(Parsed(c), c.args))
  BY <1>1, ArgsOf
<1>. QED  BY <1>2, LegacyOf DEF BeforeValidation

Datastores == {"config", "ldap", "owncloud", "plugin"}

\* What is installed has the types config.Config asks for, and its slots hold
\* datastores that are known; if it does not enable LDAP it enables LDAPS.
LEMMA ConfigTypes ==
  ASSUME NEW c \in Contents, Valid(c)
  PROVE  /\ Config(c).backends \in Seq(Datastores)
         /\ Config(c).yubikey \in STRING
         /\ Config(c).ldap \in [enabled : BOOLEAN, listen : STRING]
         /\ Config(c).ldaps \in [enabled : BOOLEAN, listen : STRING, cert : STRING]
         /\ Config(c).ldap.enabled \/ Config(c).ldaps.enabled
<1>. DEFINE d == BeforeValidation(c)
<1>1. Accepted(c)
  BY StartupAssumption
<1>2. Readable(d)
  BY <1>1, BeforeReadable
<1>3. ~ValidateFails(d)
  BY <1>1 DEF Accepted
<1>4. /\ Config(c).ldap = d.ldap /\ Config(c).ldaps = d.ldaps
      /\ Config(c).yubikey = d.yubikey
      /\ Config(c).backends = [i \in DOMAIN d.backends |-> Or(d.backends[i], "config")]
  BY <1>2 DEF Config, Validated, Fields, Readable
<1>. HIDE DEF d
<1>5. \A i \in 1 .. Len(d.backends) :
        d.backends[i] \in {Unset, "config", "ldap", "owncloud", "plugin"}
  <2>1. \A b \in ToSet(d.backends) : b \in {Unset, "config", "ldap", "owncloud", "plugin"}
    BY <1>3 DEF ValidateFails
  <2>2. \A i \in 1 .. Len(d.backends) : d.backends[i] \in ToSet(d.backends)
    BY <1>2 DEF ToSet, Readable
  <2>. QED  BY <2>1, <2>2
<1>6. Config(c).backends \in Seq(Datastores)
  <2>1. \A i \in 1 .. Len(d.backends) : Or(d.backends[i], "config") \in Datastores
    BY <1>5 DEF Or, Datastores
  <2>2. DOMAIN d.backends = 1 .. Len(d.backends) /\ Len(d.backends) \in Nat
    BY <1>2 DEF Readable
  <2>. QED  BY <1>4, <2>1, <2>2
<1>7. d.ldap.enabled \/ d.ldaps.enabled
  BY <1>3 DEF ValidateFails
<1>. QED  BY <1>2, <1>4, <1>6, <1>7 DEF Readable

LEMMA LegacyRefused ==
  ASSUME NEW c \in Contents, Accepted(c), Parsed(c).frontend.listen # Unset
  PROVE  /\ WithArgs(Parsed(c), c.args).ldap.listen = Unset
         /\ WithArgs(Parsed(c), c.args).ldaps.listen = Unset
<1>. DEFINE a == WithArgs(Parsed(c), c.args)
<1>1. ~LegacyFails(a)
  BY DEF Accepted
<1>2. a.frontend = Parsed(c).frontend
  BY ParsedReadable, ArgsOf, DecoderAssumption
<1>. HIDE DEF a
<1>3. a.ldap.listen = Unset /\ a.ldaps.listen = Unset
  BY <1>1, <1>2 DEF LegacyFails
<1>. QED  BY <1>3 DEF a

\* What the files say is what Parsed reads.
LEMMA ParsedSays ==
  ASSUME NEW c \in Contents, Accepted(c)
  PROVE  /\ Said(c, "frontend", "listen") \ {Unset} # {}
              <=> Parsed(c).frontend.listen # Unset
         /\ Parsed(c).frontend.listen # Unset
              => Said(c, "frontend", "listen") = {Parsed(c).frontend.listen}
         /\ TRUE \in Said(c, "frontend", "tls") <=> Parsed(c).frontend.tls
         /\ SaysEnabled(c, "ldap") <=> Parsed(c).ldap.enabled
         /\ SaysEnabled(c, "ldaps") <=> Parsed(c).ldaps.enabled
         /\ Parsed(c).ldap.listen # Unset
              => Said(c, "ldap", "listen") = {Parsed(c).ldap.listen}
         /\ Parsed(c).ldaps.listen # Unset
              => Said(c, "ldaps", "listen") = {Parsed(c).ldaps.listen}
<1>. DEFINE p == Parsed(c)
<1>1. Mergeable(c)
  BY AcceptedMerges
<1>2. ASSUME NEW t \in Tables, NEW n, NEW default, NEW v,
             v = Setting(Merged(c.docs), t, n, default)
      PROVE  (Said(c, t, n) = {} => v = default) /\ (Said(c, t, n) # {} => Said(c, t, n) = {v})
  <2>1. /\ Said(c, t, n) = {} => Setting(Merged(c.docs), t, n, default) = default
        /\ Said(c, t, n) # {}
             => Said(c, t, n) = {Setting(Merged(c.docs), t, n, default)}
    BY <1>1, SettingSaid
  <2>. QED  BY <1>2, <2>1
<1>3. /\ p.ldap = [enabled |-> Setting(Merged(c.docs), "ldap", "enabled", FALSE),
                   listen |-> Setting(Merged(c.docs), "ldap", "listen", Unset)]
      /\ p.ldaps = [enabled |-> Setting(Merged(c.docs), "ldaps", "enabled", ~c.dir),
                    listen |-> Setting(Merged(c.docs), "ldaps", "listen", Unset),
                    cert |-> Setting(Merged(c.docs), "ldaps", "cert", Unset)]
      /\ p.frontend = [tls |-> Setting(Merged(c.docs), "frontend", "tls", FALSE),
                       listen |-> Setting(Merged(c.docs), "frontend", "listen", Unset),
                       cert |-> Setting(Merged(c.docs), "frontend", "cert", Unset)]
  BY Zenon DEF Parsed
<1>4. /\ p.ldap.enabled = Setting(Merged(c.docs), "ldap", "enabled", FALSE)
      /\ p.ldap.listen = Setting(Merged(c.docs), "ldap", "listen", Unset)
      /\ p.ldaps.enabled = Setting(Merged(c.docs), "ldaps", "enabled", ~c.dir)
      /\ p.ldaps.listen = Setting(Merged(c.docs), "ldaps", "listen", Unset)
      /\ p.frontend.tls = Setting(Merged(c.docs), "frontend", "tls", FALSE)
      /\ p.frontend.listen = Setting(Merged(c.docs), "frontend", "listen", Unset)
  <2>. HIDE DEF p
  <2>. QED  BY <1>3
<1>5. /\ p.ldap.enabled \in BOOLEAN /\ p.ldaps.enabled \in BOOLEAN
      /\ p.frontend.tls \in BOOLEAN /\ c.dir \in BOOLEAN
  BY ParsedReadable, DecoderAssumption DEF Readable
<1>. HIDE DEF p
<1>6. "ldap" \in Tables /\ "ldaps" \in Tables /\ "frontend" \in Tables
  BY DEF Tables
<1>7. /\ Said(c, "frontend", "listen") \ {Unset} # {} <=> p.frontend.listen # Unset
      /\ p.frontend.listen # Unset => Said(c, "frontend", "listen") = {p.frontend.listen}
  <2>1. /\ Said(c, "frontend", "listen") = {} => p.frontend.listen = Unset
        /\ Said(c, "frontend", "listen") # {}
             => Said(c, "frontend", "listen") = {p.frontend.listen}
    BY <1>2, <1>4, <1>6
  <2>. QED  BY <2>1
<1>8. ASSUME NEW t \in {"ldap", "ldaps"}, p[t].listen # Unset
      PROVE  Said(c, t, "listen") = {p[t].listen}
  <2>1. t \in Tables
    BY <1>6
  <2>2. p[t].listen = Setting(Merged(c.docs), t, "listen", Unset)
    BY <1>4
  <2>. QED  BY <1>2, <1>8, <2>1, <2>2
<1>9. TRUE \in Said(c, "frontend", "tls") <=> p.frontend.tls
  <2>. DEFINE default == FALSE
  <2>1. p.frontend.tls = Setting(Merged(c.docs), "frontend", "tls", default)
    BY <1>4, Zenon
  <2>. HIDE DEF default
  <2>2. /\ Said(c, "frontend", "tls") = {} => p.frontend.tls = default
        /\ Said(c, "frontend", "tls") # {} => Said(c, "frontend", "tls") = {p.frontend.tls}
    BY <1>2, <1>6, <2>1
  <2>. QED  BY <1>5, <2>2 DEF default
<1>10. SaysEnabled(c, "ldap") <=> p.ldap.enabled
  <2>. DEFINE default == FALSE
  <2>1. p.ldap.enabled = Setting(Merged(c.docs), "ldap", "enabled", default)
    BY <1>4, Zenon
  <2>. HIDE DEF default
  <2>2. /\ Said(c, "ldap", "enabled") = {} => p.ldap.enabled = default
        /\ Said(c, "ldap", "enabled") # {} => Said(c, "ldap", "enabled") = {p.ldap.enabled}
    BY <1>2, <1>6, <2>1
  <2>. QED  BY <1>5, <2>2 DEF default, SaysEnabled
<1>11. SaysEnabled(c, "ldaps") <=> p.ldaps.enabled
  <2>. DEFINE default == ~c.dir
  <2>1. p.ldaps.enabled = Setting(Merged(c.docs), "ldaps", "enabled", default)
    BY <1>4, Zenon
  <2>. HIDE DEF default
  <2>2. /\ Said(c, "ldaps", "enabled") = {} => p.ldaps.enabled = default
        /\ Said(c, "ldaps", "enabled") # {}
             => Said(c, "ldaps", "enabled") = {p.ldaps.enabled}
    BY <1>2, <1>6, <2>1
  <2>. QED  BY <1>5, <2>2 DEF default, SaysEnabled
<1>. QED  BY <1>7, <1>8, <1>9, <1>10, <1>11 DEF p

\* The addresses of an accepted configuration are those its files and the
\* command line name for the listeners they enable.
LEMMA ListensWhere ==
  ASSUME NEW c \in Contents, Accepted(c)
  PROVE  /\ Config(c).ldap.enabled
              => Address(c, "ldap", c.args.ldap) = {Config(c).ldap.listen}
         /\ ~Config(c).ldap.enabled => Address(c, "ldap", c.args.ldap) = {}
         /\ Config(c).ldaps.enabled
              => Address(c, "ldaps", c.args.ldaps) = {Config(c).ldaps.listen}
         /\ ~Config(c).ldaps.enabled => Address(c, "ldaps", c.args.ldaps) = {}
<1>. DEFINE p == Parsed(c)
            a == WithArgs(p, c.args)
            d == BeforeValidation(c)
<1>1. Readable(p) /\ Readable(a) /\ Readable(d) /\ c.args \in Args
  BY ParsedReadable, BeforeReadable, DecoderAssumption
<1>2. Config(c).ldap = d.ldap /\ Config(c).ldaps = d.ldaps
  BY <1>1 DEF Config, Validated, Fields, Readable
<1>3. ~ValidateFails(d)
  BY DEF Accepted
<1>4. d = WithLegacy(a)
  BY DEF BeforeValidation
<1>5. /\ a.frontend = p.frontend
      /\ a.ldap.enabled <=> p.ldap.enabled \/ c.args.ldap # Unset
      /\ a.ldap.listen = Or(c.args.ldap, p.ldap.listen)
      /\ a.ldaps.enabled <=> p.ldaps.enabled \/ c.args.ldaps # Unset
      /\ a.ldaps.listen = Or(c.args.ldaps, p.ldaps.listen)
  BY <1>1, ArgsOf
<1>6. /\ Said(c, "frontend", "listen") \ {Unset} # {} <=> p.frontend.listen # Unset
      /\ p.frontend.listen # Unset => Said(c, "frontend", "listen") = {p.frontend.listen}
      /\ TRUE \in Said(c, "frontend", "tls") <=> p.frontend.tls
      /\ SaysEnabled(c, "ldap") <=> p.ldap.enabled
      /\ SaysEnabled(c, "ldaps") <=> p.ldaps.enabled
      /\ p.ldap.listen # Unset => Said(c, "ldap", "listen") = {p.ldap.listen}
      /\ p.ldaps.listen # Unset => Said(c, "ldaps", "listen") = {p.ldaps.listen}
  BY ParsedSays
<1>. HIDE DEF p, a, d
<1>7. CASE p.frontend.listen # Unset
  <2>1. /\ d.ldap.enabled = ~a.frontend.tls /\ d.ldaps.enabled = a.frontend.tls
        /\ ~a.frontend.tls => d.ldap.listen = a.frontend.listen
        /\ a.frontend.tls => d.ldaps.listen = a.frontend.listen
    BY <1>1, <1>4, <1>5, <1>7, LegacyOf
  <2>2. p.frontend.tls \in BOOLEAN
    BY <1>1 DEF Readable
  <2>3. Address(c, "ldap", c.args.ldap)
          = IF p.frontend.tls THEN {} ELSE Said(c, "frontend", "listen")
    <3>1. ((TRUE \in Said(c, "frontend", "tls")) = ("ldap" = "ldaps")) <=> ~p.frontend.tls
      <4>. DEFINE x == TRUE \in Said(c, "frontend", "tls")
      <4>1. x \in BOOLEAN
        OBVIOUS
      <4>2. x <=> p.frontend.tls
        BY <1>6, Zenon
      <4>. HIDE DEF x
      <4>3. (x = ("ldap" = "ldaps")) <=> ~x
        BY <4>1
      <4>. QED  BY <4>2, <4>3, Zenon DEF x
    <3>. QED  BY <1>6, <1>7, <3>1, Zenon DEF Address
  <2>4. Address(c, "ldaps", c.args.ldaps)
          = IF p.frontend.tls THEN Said(c, "frontend", "listen") ELSE {}
    <3>1. ((TRUE \in Said(c, "frontend", "tls")) = ("ldaps" = "ldaps")) <=> p.frontend.tls
      BY <1>6, Zenon
    <3>. QED  BY <1>6, <1>7, <3>1, Zenon DEF Address
  <2>. QED  BY <1>2, <1>5, <1>6, <1>7, <2>1, <2>2, <2>3, <2>4
<1>8. CASE p.frontend.listen = Unset
  <2>1. d = a
    BY <1>1, <1>4, <1>5, <1>8, LegacyOf
  <2>2. /\ d.ldap.enabled => a.ldap.listen # Unset
        /\ d.ldaps.enabled => a.ldaps.listen # Unset
    BY <1>3, <2>1 DEF ValidateFails
  <2>3. /\ Address(c, "ldap", c.args.ldap)
             = IF c.args.ldap # Unset THEN {c.args.ldap}
               ELSE IF p.ldap.enabled THEN Said(c, "ldap", "listen") ELSE {}
        /\ Address(c, "ldaps", c.args.ldaps)
             = IF c.args.ldaps # Unset THEN {c.args.ldaps}
               ELSE IF p.ldaps.enabled THEN Said(c, "ldaps", "listen") ELSE {}
    BY <1>6, <1>8 DEF Address
  <2>. QED  BY <1>2, <1>5, <1>6, <2>1, <2>2, <2>3 DEF Or
<1>. QED  BY <1>7, <1>8

-----------------------------------------------------------------------------
(* One file or several.                                                    *)

\* What a file on its own is merged to has what the file has.
LEMMA OneMerged ==
  ASSUME NEW c \in Contents, ~c.dir, NEW l \in Lists
  PROVE  Entries(Merged(c.docs), l) = FlattenSeq(EntriesIn(c.docs, l))
<1>. DEFINE docs == c.docs
<1>1. Len(docs) = 1 /\ Len(docs) \in Nat /\ DOMAIN docs = 1 .. Len(docs)
  BY ReadsDocs DEF Mergeable
<1>. HIDE DEF docs
<1>2. PICK f : IsMerging(f, docs, Len(docs)) /\ Merged(docs) = f[Len(docs)]
  BY <1>1, MergedIs
<1>3. f[0] = <<>> /\ f[1] = Merge(f[0], docs[1])
  BY <1>1, <1>2 DEF IsMerging
<1>4. Entries(f[1], l) = Entries(docs[1], l)
  BY <1>3 DEF Entries, Merge
<1>. DEFINE seqs == EntriesIn(docs, l)
<1>5. seqs = [i \in 1 .. 1 |-> Entries(docs[i], l)]
  BY <1>1 DEF EntriesIn
<1>6. Len(seqs) = 1 /\ Len(seqs) \in Nat \ {0} /\ seqs[1] = Entries(docs[1], l)
  BY <1>5
<1>. HIDE DEF seqs
<1>7. PICK g : IsFlattening(g, seqs, Len(seqs)) /\ FlattenSeq(seqs) = g[Len(seqs)]
  BY <1>6, FlatIs
<1>8. g[1] = seqs[1]
  BY <1>6, <1>7 DEF IsFlattening
<1>. QED  BY <1>1, <1>2, <1>4, <1>6, <1>7, <1>8 DEF docs, seqs

\* A value that is neither a table nor a list is that of the file that has it.
SaidOnce(c, s) == {e[s] : e \in {f \in ToSet(c.docs) : s \in DOMAIN f}}

LEMMA OnceSaid ==
  ASSUME NEW c, Mergeable(c)
  PROVE  /\ "yubikey" \notin DOMAIN Merged(c.docs) => SaidOnce(c, "yubikey") = {}
         /\ "yubikey" \in DOMAIN Merged(c.docs)
              => SaidOnce(c, "yubikey") = {Merged(c.docs)["yubikey"]}
         /\ DOMAIN Merged(c.docs) = UNION {DOMAIN e : e \in ToSet(c.docs)}
<1>. DEFINE m == Merged(c.docs)
<1>1. /\ ToSet(c.docs) = {c.docs[i] : i \in 1 .. Len(c.docs)}
      /\ MergesTo(m, c.docs, Len(c.docs))
  BY ReadsDocs
<1>. HIDE DEF m
<1>2. DOMAIN m = UNION {DOMAIN c.docs[i] : i \in 1 .. Len(c.docs)}
  BY <1>1 DEF MergesTo
<1>3. "yubikey" \notin Tables \cup Lists
  BY DEF Tables, Lists
<1>4. \A i \in 1 .. Len(c.docs) : "yubikey" \in DOMAIN c.docs[i]
        => "yubikey" \in DOMAIN m /\ m["yubikey"] = c.docs[i]["yubikey"]
  BY <1>1, <1>2, <1>3 DEF MergesTo
<1>5. \A v \in SaidOnce(c, "yubikey") : "yubikey" \in DOMAIN m /\ v = m["yubikey"]
  BY <1>1, <1>4 DEF SaidOnce
<1>6. "yubikey" \in DOMAIN m => SaidOnce(c, "yubikey") # {}
  <2>. SUFFICES ASSUME "yubikey" \in DOMAIN m PROVE SaidOnce(c, "yubikey") # {}
    OBVIOUS
  <2>1. PICK i \in 1 .. Len(c.docs) : "yubikey" \in DOMAIN c.docs[i]
    BY <1>2
  <2>2. c.docs[i] \in {f \in ToSet(c.docs) : "yubikey" \in DOMAIN f}
    BY <1>1, <2>1
  <2>. QED  BY <2>2 DEF SaidOnce
<1>7. DOMAIN m = UNION {DOMAIN e : e \in ToSet(c.docs)}
  BY <1>1, <1>2
<1>8. /\ "yubikey" \notin DOMAIN m => SaidOnce(c, "yubikey") = {}
      /\ "yubikey" \in DOMAIN m => SaidOnce(c, "yubikey") = {m["yubikey"]}
  BY <1>5, <1>6
<1>. QED  BY <1>7, <1>8 DEF m

LEMMA ReadsTheSame ==
  ASSUME NEW c \in Contents, ~c.dir, NEW d \in Contents, d.dir, Accepted(d),
         Said(d, "ldaps", "enabled") # {}, SaysTheSame(c, d)
  PROVE  /\ Parsed(c) = Parsed(d)
         /\ ~ParseFails(c)
         /\ c.args = d.args
<1>. DEFINE m == Merged(c.docs)
            n == Merged(d.docs)
<1>1. Mergeable(c) /\ Mergeable(d)
  BY AcceptedMerges DEF Mergeable
<1>2. ASSUME NEW t \in Tables, NEW x \in {"enabled", "listen", "cert", "tls", "datastore"},
             NEW one, NEW other, one = other \/ Said(d, t, x) # {}
      PROVE  Setting(m, t, x, one) = Setting(n, t, x, other)
  <2>. DEFINE u == Setting(m, t, x, one)
              v == Setting(n, t, x, other)
  <2>1. Said(c, t, x) = Said(d, t, x)
    BY DEF SaysTheSame
  <2>. HIDE DEF m, n
  <2>2. (Said(c, t, x) = {} => u = one) /\ (Said(c, t, x) # {} => Said(c, t, x) = {u})
    BY <1>1, SettingSaid DEF m
  <2>3. (Said(d, t, x) = {} => v = other) /\ (Said(d, t, x) # {} => Said(d, t, x) = {v})
    BY <1>1, SettingSaid DEF n
  <2>. HIDE DEF u, v
  <2>4. u = v
    BY <1>2, <2>1, <2>2, <2>3
  <2>. QED  BY <2>4 DEF u, v
<1>3. Setting(m, "ldaps", "enabled", ~c.dir) = Setting(n, "ldaps", "enabled", ~d.dir)
  <2>. DEFINE one == ~c.dir
              other == ~d.dir
  <2>. HIDE DEF one, other, m, n
  <2>1. "ldaps" \in Tables
    BY DEF Tables
  <2>2. Setting(m, "ldaps", "enabled", one) = Setting(n, "ldaps", "enabled", other)
    BY <1>2, <2>1
  <2>. QED  BY <2>2 DEF one, other
<1>4. \A l \in Lists : Entries(m, l) = Entries(n, l)
  <2>. SUFFICES ASSUME NEW l \in Lists PROVE Entries(m, l) = Entries(n, l)
    OBVIOUS
  <2>1. FlattenSeq(EntriesIn(c.docs, l)) = FlattenSeq(EntriesIn(d.docs, l))
    BY DEF SaysTheSame, EntriesIn
  <2>2. Len(d.docs) # 0
    <3>1. ToSet(d.docs) # {}
      BY DEF Said
    <3>2. ToSet(d.docs) = {d.docs[i] : i \in 1 .. Len(d.docs)}
      BY <1>1, ReadsDocs
    <3>. QED  BY <3>1, <3>2
  <2>3. \A e \in ToSet(d.docs) : l \in DOMAIN e => e[l] \in Seq(STRING)
    BY DecoderAssumption
  <2>4. Entries(n, l) = FlattenSeq(EntriesIn(d.docs, l))
    BY <1>1, <2>2, <2>3, EntriesOf
  <2>5. Entries(m, l) = FlattenSeq(EntriesIn(c.docs, l))
    BY OneMerged
  <2>. QED  BY <2>1, <2>4, <2>5
<1>5. /\ DOMAIN m = DOMAIN n
      /\ "yubikey" \in DOMAIN m => m["yubikey"] = n["yubikey"]
  <2>1. /\ DOMAIN m = UNION {DOMAIN e : e \in ToSet(c.docs)}
        /\ "yubikey" \in DOMAIN m => SaidOnce(c, "yubikey") = {m["yubikey"]}
    BY <1>1, OnceSaid
  <2>2. /\ DOMAIN n = UNION {DOMAIN e : e \in ToSet(d.docs)}
        /\ "yubikey" \in DOMAIN n => SaidOnce(d, "yubikey") = {n["yubikey"]}
    BY <1>1, OnceSaid
  <2>3. /\ UNION {DOMAIN e : e \in ToSet(c.docs)} = UNION {DOMAIN e : e \in ToSet(d.docs)}
        /\ SaidOnce(c, "yubikey") = SaidOnce(d, "yubikey")
    BY Zenon DEF SaysTheSame, SaidOnce
  <2>. HIDE DEF m, n
  <2>. QED  BY <2>1, <2>2, <2>3
<1>. HIDE DEF m, n
<1>6. /\ "ldap" \in Tables /\ "ldaps" \in Tables /\ "frontend" \in Tables /\ "backend" \in Tables
      /\ "backends" \in Lists /\ "users" \in Lists
  BY DEF Tables, Lists
<1>7. /\ Setting(m, "ldap", "enabled", FALSE) = Setting(n, "ldap", "enabled", FALSE)
      /\ Setting(m, "ldap", "listen", Unset) = Setting(n, "ldap", "listen", Unset)
      /\ Setting(m, "ldaps", "listen", Unset) = Setting(n, "ldaps", "listen", Unset)
      /\ Setting(m, "ldaps", "cert", Unset) = Setting(n, "ldaps", "cert", Unset)
      /\ Setting(m, "frontend", "tls", FALSE) = Setting(n, "frontend", "tls", FALSE)
      /\ Setting(m, "frontend", "listen", Unset) = Setting(n, "frontend", "listen", Unset)
      /\ Setting(m, "frontend", "cert", Unset) = Setting(n, "frontend", "cert", Unset)
      /\ Setting(m, "backend", "datastore", Unset) = Setting(n, "backend", "datastore", Unset)
  <2>. DEFINE no == FALSE
  <2>. HIDE DEF no
  <2>1. /\ Setting(m, "ldap", "enabled", no) = Setting(n, "ldap", "enabled", no)
        /\ Setting(m, "ldap", "listen", Unset) = Setting(n, "ldap", "listen", Unset)
        /\ Setting(m, "ldaps", "listen", Unset) = Setting(n, "ldaps", "listen", Unset)
        /\ Setting(m, "ldaps", "cert", Unset) = Setting(n, "ldaps", "cert", Unset)
        /\ Setting(m, "frontend", "tls", no) = Setting(n, "frontend", "tls", no)
        /\ Setting(m, "frontend", "listen", Unset) = Setting(n, "frontend", "listen", Unset)
        /\ Setting(m, "frontend", "cert", Unset) = Setting(n, "frontend", "cert", Unset)
        /\ Setting(m, "backend", "datastore", Unset)
             = Setting(n, "backend", "datastore", Unset)
    BY <1>2, <1>6
  <2>. QED  BY <2>1, Zenon DEF no
<1>8. Backends(m) = Backends(n) /\ Entries(m, "users") = Entries(n, "users")
  BY <1>4, <1>6, <1>7, Zenon DEF Backends
<1>9. (IF "yubikey" \in DOMAIN m THEN m["yubikey"] ELSE Unset)
        = IF "yubikey" \in DOMAIN n THEN n["yubikey"] ELSE Unset
  BY <1>5
<1>10. Parsed(c) = Parsed(d)
  BY <1>3, <1>7, <1>8, <1>9, Zenon DEF Parsed, m, n
<1>11. ~ParseFails(c)
  <2>1. ~(Setting(n, "backend", "datastore", Unset) # Unset /\ "backends" \in DOMAIN n)
    BY Zenon DEF Accepted, ParseFails, n
  <2>2. ~(Setting(m, "backend", "datastore", Unset) # Unset /\ "backends" \in DOMAIN m)
    BY <1>5, <1>7, <2>1, Zenon
  <2>. QED  BY <2>2, Zenon DEF ParseFails, m
<1>. QED  BY <1>10, <1>11 DEF SaysTheSame

-----------------------------------------------------------------------------
(* glauth around them.                                                     *)

MainLabels == {"off", "loaded", "watching", "wired", "ldaps", "serving", "exited"}

\* Before NewServer the server is empty, after it as NewServer made it; from
\* the first load on a configuration is in force, which stays on record until
\* main is done.
Built ==
    /\ main \in {"off", "loaded", "watching"} => handlers = <<>> /\ count = -1
    /\ main \notin {"off", "exited"} => active # Nil
    /\ active # Nil /\ main # "serving" => active \in seen
    /\ background => active # Nil
    /\ handlers \in Seq({"config", "ldap", "owncloud", "plugin"})
    /\ Len(handlers) <= MaxHandlers
    /\ count = Len(handlers) - 1

\* Types of the listeners.
Listeners ==
    /\ yubikey \in STRING \cup {Nil}
    /\ background \in BOOLEAN
    /\ plain \in STRING \cup {Nil}
    /\ tls \in [listen : STRING, cert : STRING] \cup {Nil}
    /\ seen \subseteq Contents

\* Unless a reload came in between, main goes on to the LDAPS section only if
\* it can block there.
WillBlock == main = "ldaps" => InForce.ldaps.enabled \/ \E c, d \in seen : c # d

StartInv == ReloadInv /\ Built /\ Listeners /\ WillBlock

\* How far the reloading processes move main, and how active changes.
LEMMA ReloadMoves ==
  ASSUME ReloadInv, RNext
  PROVE  \/ main' = main /\ active' = active
         \/ main' = main /\ main \notin {"off", "exited"} /\ active' = read
         \/ main = "off" /\ main' = "loaded" /\ active' \in Contents
         \/ main = "off" /\ main' = "exited" /\ active' = active
         \/ main = "loaded" /\ main' = "watching" /\ active' = active
<1>1. CASE Elsewhere(Load)
  BY <1>1 DEF Elsewhere, Load, Usable, ReloadInv, WatchInv, TypeOK
<1>2. CASE Elsewhere(FirstWatch)
  BY <1>2 DEF Elsewhere, FirstWatch
<1>3. CASE Elsewhere(Watcher)
  BY <1>3 DEF Elsewhere, Watcher, Receive, Wake, Stat, Rewatch, Parse, Apply, Runs
<1>4. CASE Elsewhere(Edit)
  BY <1>4 DEF Elsewhere, Edit, Write, Replace, Create, Unlink, Move, DropBackup
<1>5. CASE Script
  BY <1>5 DEF Script, Fetch, Compare, File, Truncate, WritePreconfig, WriteUsers, vars, glauth
<1>6. CASE Crash \/ Restart \/ Publish
  BY <1>6 DEF Crash, Restart, Publish, vars
<1>. QED  BY <1>1, <1>2, <1>3, <1>4, <1>5, <1>6 DEF RNext, Elsewhere, Next

LEMMA StartInit == SInit => StartInv
<1>. SUFFICES ASSUME SInit PROVE StartInv
  OBVIOUS
<1>1. ReloadInv
  BY ReloadInit DEF SInit
<1>2. Built
  <2>1. handlers = <<>> /\ count = -1 /\ active = Nil /\ main = "off" /\ background = FALSE
    BY DEF SInit, RInit, InitAt
  <2>2. <<>> \in Seq({"config", "ldap", "owncloud", "plugin"}) /\ Len(<<>>) = 0
    OBVIOUS
  <2>. QED  BY <2>1, <2>2, StartupAssumption DEF Built
<1>3. Listeners
  <2>1. yubikey = Nil /\ background = FALSE /\ plain = Nil /\ tls = Nil /\ seen = {}
    BY DEF SInit
  <2>2. yubikey \in STRING \cup {Nil} /\ plain \in STRING \cup {Nil}
    BY <2>1
  <2>3. tls \in [listen : STRING, cert : STRING] \cup {Nil}
    BY <2>1, Zenon
  <2>4. background \in BOOLEAN /\ seen \subseteq Contents
    BY <2>1
  <2>. QED  BY <2>2, <2>3, <2>4 DEF Listeners
<1>4. WillBlock
  BY DEF SInit, RInit, InitAt, WillBlock
<1>. QED  BY <1>1, <1>2, <1>3, <1>4 DEF StartInv

LEMMA MeanwhileStep == StartInv /\ Meanwhile(RNext) => StartInv'
<1>. SUFFICES ASSUME StartInv, Meanwhile(RNext) PROVE StartInv'
  OBVIOUS
<1>. USE DEF StartInv
<1>1. ReloadInv'
  BY ReloadStep DEF Meanwhile
<1>2. /\ UNCHANGED <<handlers, count, yubikey, background, plain, tls>>
      /\ seen' = IF Done THEN seen ELSE seen \cup ({active'} \ {Nil})
  BY DEF Meanwhile, server, listeners
<1>3. active' \in Contents \cup {Nil} /\ main' \in MainLabels /\ main \in MainLabels
  BY <1>1 DEF ReloadInv, WatchInv, TypeOK, MainLabels
<1>4. Listeners'
  BY <1>2, <1>3 DEF Listeners
<1>5. \/ main' = main /\ active' = active
      \/ main' = main /\ main \notin {"off", "exited"} /\ active' = read
      \/ main = "off" /\ main' = "loaded" /\ active' \in Contents
      \/ main = "off" /\ main' = "exited" /\ active' = active
      \/ main = "loaded" /\ main' = "watching" /\ active' = active
  BY ReloadMoves DEF Meanwhile
<1>6. read # Nil /\ Nil \notin Contents
  BY WatchAssumption DEF ReloadInv, WatchInv, TypeOK
<1>7. main' # "serving" => active' = Nil \/ active' \in seen'
  BY <1>2, <1>5 DEF Done
<1>8. Built'
  <2>1. main' \in {"off", "loaded", "watching"} => handlers' = <<>> /\ count' = -1
    BY <1>2, <1>5 DEF Built
  <2>2. main' \notin {"off", "exited"} => active' # Nil
    BY <1>5, <1>6 DEF Built
  <2>3. background' => active' # Nil
    BY <1>2, <1>5, <1>6 DEF Built
  <2>. QED  BY <1>2, <1>7, <2>1, <2>2, <2>3 DEF Built
<1>9. WillBlock'
  <2>. SUFFICES ASSUME main' = "ldaps"
                PROVE  Config(active').ldaps.enabled \/ \E c, d \in seen' : c # d
    BY DEF WillBlock, InForce
  <2>1. main = "ldaps" /\ active \in seen /\ active' \in seen' /\ seen \subseteq seen'
    BY <1>2, <1>5, <1>7, <1>8 DEF Built, Done
  <2>2. CASE active' = active
    BY <2>1, <2>2 DEF WillBlock, InForce
  <2>3. CASE active' # active
    BY <2>1, <2>3
  <2>. QED  BY <2>2, <2>3
<1>. QED  BY <1>1, <1>4, <1>8, <1>9

\* Main and its goroutine touch nothing of what is reloaded but main itself.
LEMMA MainGoesKeeps ==
  ASSUME ReloadInv, NEW l \in MainLabels, MainGoes(l)
  PROVE  ReloadInv' /\ main' = l /\ active' = active /\ seen' = seen
BY DEF MainGoes, MainLabels, ReloadInv, WatchInv, Checked, TypeOK, ScriptTypes,
       disk, watcher, script, portal

LEMMA MainStep == StartInv /\ (Main \/ ListenInBackground) => StartInv'
<1>. SUFFICES ASSUME StartInv, Main \/ ListenInBackground PROVE StartInv'
  OBVIOUS
<1>. USE DEF StartInv
<1>0. ASSUME active # Nil
      PROVE  /\ InForce.backends \in Seq(Datastores)
             /\ InForce.yubikey \in STRING
             /\ InForce.ldap \in [enabled : BOOLEAN, listen : STRING]
             /\ InForce.ldaps \in [enabled : BOOLEAN, listen : STRING, cert : STRING]
             /\ InForce.ldap.enabled \/ InForce.ldaps.enabled
  BY <1>0, ConfigTypes DEF InForce, ReloadInv, WatchInv, TypeOK
<1>1. CASE Wire
  <2>1. MainGoes("wired") /\ active # Nil /\ count = -1
    BY <1>1 DEF Wire, Built
  <2>2. ReloadInv' /\ main' = "wired" /\ active' = active /\ seen' = seen
    BY <2>1, MainGoesKeeps DEF MainLabels
  <2>3. /\ handlers' = InForce.backends /\ Len(InForce.backends) <= MaxHandlers
        /\ count' = count + Len(InForce.backends) /\ yubikey' = InForce.yubikey
        /\ UNCHANGED <<background, plain, tls>>
    BY <1>1 DEF Wire, listeners
  <2>4. Len(InForce.backends) \in Nat
    BY <1>0, <2>1
  <2>5. Built'
    BY <1>0, <1>1, <2>1, <2>2, <2>3, <2>4 DEF Built, Datastores, Wire
  <2>6. Listeners'
    BY <1>0, <2>1, <2>2, <2>3 DEF Listeners
  <2>. QED  BY <2>2, <2>5, <2>6 DEF WillBlock
<1>2. CASE WireFails
  <2>1. ReloadInv' /\ main' = "exited" /\ active' = active /\ seen' = seen
    BY <1>2, MainGoesKeeps DEF WireFails, MainLabels
  <2>2. UNCHANGED <<handlers, count, yubikey, background, plain, tls>>
    BY <1>2 DEF WireFails, server, listeners
  <2>. QED  BY <1>2, <2>1, <2>2 DEF WireFails, Built, Listeners, WillBlock
<1>3. CASE StartLdap
  <2>1. active # Nil /\ main = "wired"
    BY <1>3 DEF StartLdap, Built
  <2>2. UNCHANGED <<handlers, count, yubikey, tls>>
    BY <1>3 DEF StartLdap, server
  <2>3. CASE InForce.ldap.enabled /\ ~InForce.ldaps.enabled
    <3>1. plain' = InForce.ldap.listen /\ MainGoes("serving") /\ UNCHANGED background
      BY <1>3, <2>3 DEF StartLdap
    <3>2. ReloadInv' /\ main' = "serving" /\ active' = active /\ seen' = seen
      BY <3>1, MainGoesKeeps DEF MainLabels
    <3>. QED  BY <1>0, <2>1, <2>2, <3>1, <3>2 DEF Built, Listeners, WillBlock
  <2>4. CASE ~(InForce.ldap.enabled /\ ~InForce.ldaps.enabled)
    <3>1. background' = InForce.ldap.enabled /\ MainGoes("ldaps") /\ UNCHANGED plain
      BY <1>3, <2>4 DEF StartLdap
    <3>2. ReloadInv' /\ main' = "ldaps" /\ active' = active /\ seen' = seen
      BY <3>1, MainGoesKeeps DEF MainLabels
    <3>3. Built'
      BY <2>1, <2>2, <3>2 DEF Built
    <3>4. background' \in BOOLEAN
      BY <1>0, <2>1, <3>1, Zenon
    <3>5. Listeners'
      BY <2>2, <3>1, <3>2, <3>4 DEF Listeners
    <3>6. InForce.ldaps.enabled
      BY <1>0, <2>1, <2>4
    <3>. QED  BY <3>2, <3>3, <3>5, <3>6 DEF WillBlock, InForce
  <2>. QED  BY <2>3, <2>4
<1>4. CASE ListenInBackground
  <2>1. main \in MainLabels
    BY DEF ReloadInv, WatchInv, TypeOK, MainLabels
  <2>2. ReloadInv' /\ main' = main /\ active' = active /\ seen' = seen
    BY <1>4, <2>1, MainGoesKeeps DEF ListenInBackground
  <2>3. /\ UNCHANGED <<handlers, count, yubikey, tls>>
        /\ background' = FALSE /\ plain' = InForce.ldap.listen
    BY <1>4 DEF ListenInBackground, server
  <2>4. active # Nil
    BY <1>4 DEF ListenInBackground, Built
  <2>5. Built' /\ Listeners'
    BY <1>0, <2>2, <2>3, <2>4 DEF Built, Listeners
  <2>6. WillBlock'
    BY <2>2 DEF WillBlock, InForce
  <2>. QED  BY <2>2, <2>5, <2>6
<1>5. CASE StartLdaps
  <2>1. active # Nil /\ main = "ldaps"
    BY <1>5 DEF StartLdaps, Built
  <2>2. UNCHANGED <<handlers, count, yubikey, background, plain>>
    BY <1>5 DEF StartLdaps, server
  <2>3. \/ /\ tls' = [listen |-> InForce.ldaps.listen, cert |-> InForce.ldaps.cert]
           /\ MainGoes("serving")
        \/ MainGoes("exited") /\ UNCHANGED tls
    BY <1>5 DEF StartLdaps
  <2>4. ReloadInv' /\ main' \in {"serving", "exited"} /\ active' = active /\ seen' = seen
    BY <2>3, MainGoesKeeps DEF MainLabels
  <2>. QED  BY <1>0, <2>1, <2>2, <2>3, <2>4 DEF Built, Listeners, WillBlock
<1>. QED  BY <1>1, <1>2, <1>3, <1>4, <1>5 DEF Main

LEMMA StartStep == StartInv /\ [SNext]_svars => StartInv'
<1>. SUFFICES ASSUME StartInv, [SNext]_svars PROVE StartInv'
  OBVIOUS
<1>1. CASE UNCHANGED svars
  <2>1. UNCHANGED <<main, active, handlers, count, yubikey, background, plain, tls, seen>>
    BY <1>1 DEF svars, rvars, vars, server, listeners
  <2>2. ReloadInv'
    BY <1>1, ReloadStep DEF svars, StartInv
  <2>. QED  BY <2>1, <2>2 DEF StartInv, Built, Listeners, WillBlock, InForce
<1>. QED  BY <1>1, MeanwhileStep, MainStep DEF SNext

LEMMA StartAlways == SSpec => []StartInv
  BY StartInit, StartStep, PTL DEF SSpec

-----------------------------------------------------------------------------
\* Whatever the files hold and however they are edited, every variable keeps
\* its type: above all, a configuration is in force only if it was accepted.
THEOREM TypesKept == SSpec => []STypeOK
<1>1. StartInv => STypeOK
  <2>. SUFFICES ASSUME StartInv PROVE STypeOK
    OBVIOUS
  <2>1. RTypeOK
    BY DEF StartInv, ReloadInv, WatchInv, ScriptTypes, RTypeOK
  <2>2. Len(handlers) \in Nat /\ MaxHandlers \in Nat
    BY StartupAssumption DEF StartInv, Built
  <2>3. count \in -1 .. MaxHandlers - 1
    BY <2>2 DEF StartInv, Built
  <2>. QED  BY <2>1, <2>3 DEF StartInv, Built, Listeners, STypeOK
<1>. QED  BY <1>1, StartAlways, PTL

\* The LDAP backend asks exactly the slots that NewServer filled, however many
\* backends are configured.
THEOREM SlotsAsked == SSpec => []EveryBackendAsked
<1>1. StartInv => EveryBackendAsked
  <2>. SUFFICES ASSUME StartInv, NEW i \in DOMAIN handlers PROVE Asked = DOMAIN handlers
    BY DEF EveryBackendAsked
  <2>1. /\ Len(handlers) \in Nat /\ DOMAIN handlers = 1 .. Len(handlers)
        /\ Len(handlers) <= MaxHandlers /\ count = Len(handlers) - 1 /\ MaxHandlers \in Nat
    BY StartupAssumption DEF StartInv, Built
  <2>2. ASSUME NEW n \in Nat, n >= 1, n <= MaxHandlers, count = n - 1
        PROVE  Asked = 1 .. n
    BY <2>1, <2>2 DEF Asked
  <2>3. Len(handlers) >= 1
    BY <2>1
  <2>. QED  BY <2>1, <2>2, <2>3
<1>. QED  BY <1>1, StartAlways, PTL

\* What was accepted enables a listener main blocks at: unless a reload came
\* while main read the sections, glauth does not exit after NewServer.
THEOREM Stays == SSpec => StaysUnlessReloaded
<1>1. StartInv /\ [SNext]_svars =>
        [main = "ldaps" /\ main' = "exited" => \E c, d \in seen : c # d]_svars
  <2>. SUFFICES ASSUME StartInv, SNext, main = "ldaps", main' = "exited"
                PROVE  \E c, d \in seen : c # d
    OBVIOUS
  <2>1. CASE Meanwhile(RNext)
    BY <2>1, ReloadMoves DEF Meanwhile, StartInv
  <2>2. CASE Main
    <3>1. StartLdaps
      BY <2>2 DEF Main, Wire, WireFails, StartLdap
    <3>2. ~InForce.ldaps.enabled
      BY <3>1 DEF StartLdaps, MainGoes
    <3>. QED  BY <3>2 DEF StartInv, WillBlock
  <2>3. CASE ListenInBackground
    BY <2>3 DEF ListenInBackground, MainGoes
  <2>. QED  BY <2>1, <2>2, <2>3 DEF SNext
<1>. QED  BY <1>1, StartAlways, PTL DEF SSpec, StaysUnlessReloaded

-----------------------------------------------------------------------------
(* Where glauth listens.                                                   *)

PlainAs(c) ==
    IF Config(c).ldap.enabled THEN ~background => plain = Config(c).ldap.listen
    ELSE plain = Nil /\ ~background

TlsAs(c) ==
    IF Config(c).ldaps.enabled THEN tls # Nil /\ tls.listen = Config(c).ldaps.listen
    ELSE tls = Nil

\* If one configuration was in force until main was done, main has gone by that
\* one so far, and so will the goroutine it has started.
ListenInv ==
    /\ \A c \in seen : Valid(c)
    /\ ~Done /\ active # Nil => active \in seen
    /\ main \in {"off", "loaded", "watching", "wired"} => plain = Nil /\ ~background
    /\ main \in {"off", "loaded", "watching", "wired", "ldaps"} => tls = Nil
    /\ \A c \in seen : seen = {c} =>
         /\ main \in {"ldaps", "serving"} => PlainAs(c)
         /\ main = "serving" => TlsAs(c)

LEMMA ListenInit == SInit => ListenInv
BY DEF SInit, RInit, InitAt, ListenInv

LEMMA MeanwhileListen == StartInv /\ ListenInv /\ Meanwhile(RNext) => ListenInv'
<1>. SUFFICES ASSUME StartInv, ListenInv, Meanwhile(RNext) PROVE ListenInv'
  OBVIOUS
<1>1. /\ UNCHANGED <<background, plain, tls>>
      /\ seen' = IF Done THEN seen ELSE seen \cup ({active'} \ {Nil})
  BY DEF Meanwhile, server, listeners
<1>2. \/ main' = main /\ active' = active
      \/ main' = main /\ main \notin {"off", "exited"} /\ active' = read
      \/ main = "off" /\ main' = "loaded" /\ active' \in Contents
      \/ main = "off" /\ main' = "exited" /\ active' = active
      \/ main = "loaded" /\ main' = "watching" /\ active' = active
  BY ReloadMoves DEF Meanwhile, StartInv
<1>3. /\ active' # Nil => Valid(active')
      /\ main \notin {"off", "exited"} => active # Nil
  <2>1. StartInv'
    BY MeanwhileStep
  <2>. QED  BY <2>1 DEF StartInv, ReloadInv, WatchInv, TypeOK, Built
<1>4. \A c \in seen' : Valid(c)
  BY <1>1, <1>3 DEF ListenInv
<1>5. ~Done' /\ active' # Nil => active' \in seen'
  BY <1>1, <1>2 DEF ListenInv, Done
<1>6. /\ main' \in {"off", "loaded", "watching", "wired"} => plain' = Nil /\ ~background'
      /\ main' \in {"off", "loaded", "watching", "wired", "ldaps"} => tls' = Nil
  BY <1>1, <1>2 DEF ListenInv
<1>7. ASSUME NEW c \in seen', seen' = {c}, main' \in {"ldaps", "serving"}
      PROVE  main' = main /\ c \in seen /\ seen = {c}
  <2>1. main' = main /\ active # Nil
    BY <1>2, <1>3, <1>7
  <2>2. seen # {} /\ seen \subseteq {c}
    BY <1>1, <1>7, <2>1 DEF ListenInv
  <2>. QED  BY <2>1, <2>2
<1>8. \A c : (PlainAs(c) => PlainAs(c)') /\ (TlsAs(c) => TlsAs(c)')
  BY <1>1 DEF PlainAs, TlsAs
<1>9. \A c \in seen' : seen' = {c} =>
        /\ main' \in {"ldaps", "serving"} => PlainAs(c)'
        /\ main' = "serving" => TlsAs(c)'
  BY <1>7, <1>8 DEF ListenInv
<1>. QED  BY <1>4, <1>5, <1>6, <1>9 DEF ListenInv

LEMMA MainListen == StartInv /\ ListenInv /\ (Main \/ ListenInBackground) => ListenInv'
<1>. SUFFICES ASSUME StartInv, ListenInv, Main \/ ListenInBackground PROVE ListenInv'
  OBVIOUS
<1>1. active' = active /\ seen' = seen
  BY DEF Main, Wire, WireFails, StartLdap, ListenInBackground, StartLdaps, MainGoes
<1>2. ASSUME NEW c \in seen, seen = {c}, ~Done, active # Nil PROVE InForce = Config(c)
  BY <1>2 DEF ListenInv, InForce
<1>3. main \in MainLabels
  BY DEF StartInv, ReloadInv, WatchInv, TypeOK, MainLabels
<1>4. CASE Wire \/ WireFails
  <2>1. main = "watching" /\ main' \in {"wired", "exited"} /\ UNCHANGED <<background, plain, tls>>
    BY <1>4 DEF Wire, WireFails, MainGoes, listeners
  <2>. QED  BY <1>1, <2>1 DEF ListenInv, Done
<1>5. CASE StartLdap
  <2>1. main = "wired" /\ tls' = tls /\ ~Done /\ active # Nil
    BY <1>5 DEF StartLdap, Done, StartInv, Built
  <2>2. plain = Nil /\ ~background /\ tls = Nil
    BY <2>1 DEF ListenInv
  <2>3. CASE InForce.ldap.enabled /\ ~InForce.ldaps.enabled
    <3>1. plain' = InForce.ldap.listen /\ main' = "serving" /\ background' = background
      BY <1>5, <2>3 DEF StartLdap, MainGoes
    <3>2. \A c \in seen : seen = {c} => PlainAs(c)' /\ TlsAs(c)'
      BY <1>2, <2>1, <2>2, <2>3, <3>1 DEF PlainAs, TlsAs
    <3>. QED  BY <1>1, <2>1, <3>1, <3>2 DEF ListenInv
  <2>4. CASE ~(InForce.ldap.enabled /\ ~InForce.ldaps.enabled)
    <3>1. background' = InForce.ldap.enabled /\ main' = "ldaps" /\ plain' = plain
      BY <1>5, <2>4 DEF StartLdap, MainGoes
    <3>2. \A c \in seen : seen = {c} => PlainAs(c)'
      BY <1>2, <2>1, <2>2, <3>1 DEF PlainAs
    <3>. QED  BY <1>1, <2>1, <2>2, <3>1, <3>2 DEF ListenInv
  <2>. QED  BY <2>3, <2>4
<1>6. CASE ListenInBackground
  <2>1. background /\ main' = main /\ background' = FALSE /\ plain' = InForce.ldap.listen
        /\ tls' = tls /\ ~Done /\ active # Nil /\ main # "exited"
    BY <1>6 DEF ListenInBackground, MainGoes, Done, StartInv, Built
  <2>2. main \in {"ldaps", "serving"}
    BY <1>3, <2>1 DEF ListenInv, MainLabels
  <2>3. ASSUME NEW c \in seen, seen = {c}
        PROVE  PlainAs(c)' /\ (main' = "serving" => TlsAs(c)')
    <3>1. Config(c).ldap.enabled /\ InForce = Config(c)
      BY <1>2, <2>1, <2>2, <2>3 DEF ListenInv, PlainAs
    <3>2. PlainAs(c)'
      BY <2>1, <3>1 DEF PlainAs
    <3>3. main' = "serving" => TlsAs(c)'
      BY <2>1, <2>3 DEF ListenInv, TlsAs
    <3>. QED  BY <3>2, <3>3
  <2>. QED  BY <1>1, <2>1, <2>2, <2>3 DEF ListenInv
<1>7. CASE StartLdaps
  <2>1. main = "ldaps" /\ UNCHANGED <<background, plain>> /\ ~Done /\ active # Nil
    BY <1>7 DEF StartLdaps, Done, StartInv, Built
  <2>2. CASE InForce.ldaps.enabled
    <3>1. /\ tls' = [listen |-> InForce.ldaps.listen, cert |-> InForce.ldaps.cert]
          /\ main' = "serving"
      BY <1>7, <2>2 DEF StartLdaps, MainGoes
    <3>2. tls' # Nil /\ tls'.listen = InForce.ldaps.listen
      <4>1. InForce.ldaps \in [enabled : BOOLEAN, listen : STRING, cert : STRING]
        BY <2>1, ConfigTypes DEF InForce, StartInv, ReloadInv, WatchInv, TypeOK
      <4>2. tls' \in [listen : STRING, cert : STRING]
        BY <3>1, <4>1
      <4>. QED  BY <3>1, <4>2, StartupAssumption
    <3>3. \A c \in seen : seen = {c} => PlainAs(c)' /\ TlsAs(c)'
      BY <1>2, <2>1, <2>2, <3>2 DEF ListenInv, PlainAs, TlsAs
    <3>. QED  BY <1>1, <2>1, <3>1, <3>3 DEF ListenInv
  <2>3. CASE ~InForce.ldaps.enabled
    <3>1. main' = "exited" /\ tls' = tls
      BY <1>7, <2>3 DEF StartLdaps, MainGoes
    <3>. QED  BY <1>1, <2>1, <3>1 DEF ListenInv
  <2>. QED  BY <2>2, <2>3
<1>. QED  BY <1>4, <1>5, <1>6, <1>7 DEF Main

LEMMA ListenStep == StartInv /\ ListenInv /\ [SNext]_svars => ListenInv'
<1>. SUFFICES ASSUME StartInv, ListenInv, UNCHANGED svars PROVE ListenInv'
  BY MeanwhileListen, MainListen DEF SNext
<1>. QED  BY DEF svars, rvars, vars, watcher, listeners, ListenInv, PlainAs, TlsAs, Done

\* Once startService is done glauth listens where command line and
\* configuration say and nowhere else, whatever the configuration looks like and
\* however the goroutine, main and the watcher take turns: unless a reload came
\* before.
THEOREM ListensAsSaid == SSpec => []ListensAsConfigured
<1>1. StartInv /\ ListenInv => ListensAsConfigured
  <2>. SUFFICES ASSUME StartInv, ListenInv, Done, NEW c \in seen, seen = {c}
                PROVE  LET ldap == Address(c, "ldap", c.args.ldap)
                           ldaps == Address(c, "ldaps", c.args.ldaps) IN
                       /\ plain \in IF ldap = {} THEN {Nil} ELSE ldap
                       /\ IF ldaps = {} THEN tls = Nil
                          ELSE tls # Nil /\ tls.listen \in ldaps
    BY DEF ListensAsConfigured
  <2>1. c \in Contents /\ Accepted(c)
    BY StartupAssumption DEF StartInv, Listeners, ListenInv
  <2>2. PlainAs(c) /\ TlsAs(c) /\ ~background
    BY DEF ListenInv, Done
  <2>. QED  BY <2>1, <2>2, ListensWhere DEF PlainAs, TlsAs
<1>. QED  BY <1>1, ListenInit, ListenStep, StartAlways, PTL DEF SSpec

\* A configuration that was loaded from a directory and says whether LDAPS is
\* enabled is what the same text would be in one file, which would be accepted
\* as well: however it is split.
THEOREM SplitsAreHarmless == SSpec => []SplittingChangesNothing
<1>1. StartInv => SplittingChangesNothing
  <2>. SUFFICES ASSUME StartInv, main = "loaded", active.dir,
                       Said(active, "ldaps", "enabled") # {},
                       NEW c \in Contents, ~c.dir, SaysTheSame(c, active)
                PROVE  Accepted(c) /\ Config(c) = InForce
    BY DEF SplittingChangesNothing
  <2>1. active \in Contents /\ Accepted(active)
    BY StartupAssumption DEF StartInv, Built, ReloadInv, WatchInv, TypeOK
  <2>2. Parsed(c) = Parsed(active) /\ ~ParseFails(c) /\ c.args = active.args
    BY <2>1, ReadsTheSame
  <2>3. BeforeValidation(c) = BeforeValidation(active)
    BY <2>2, Zenon DEF BeforeValidation
  <2>4. Config(c) = Config(active)
    BY <2>3, Zenon DEF Config
  <2>5. Accepted(c)
    BY <2>1, <2>2, <2>3, Zenon DEF Accepted
  <2>. QED  BY <2>4, <2>5 DEF InForce
<1>. QED  BY <1>1, StartAlways, PTL DEF SSpec

-----------------------------------------------------------------------------
(* Nothing is missed by editors under which the path always names a file:  *)
(* they write in place or rename another file over it, as the script does. *)
(* An editor that takes the file away more than once can make the watcher  *)
(* lose it.                                                                *)

SteadyPath ==
    \A e \in Editors : /\ e.kinds \subseteq {"write", "replace", "script"}
                       /\ e.during \cap {"off", "loaded"} = {}

SteadyEditor ==
    /\ edits.kinds \subseteq {"write", "replace", "script"}
    /\ edits.during \cap {"off", "loaded"} = {}

\* An event that has not been received yet.
Queued(ops) == \E i \in DOMAIN events : events[i].op \in ops

Quiet == wpc = "select" /\ ~isChanged /\ ~isRemoved /\ events = <<>>

\* The watch is there or about to be renewed.
WatchKept == path \in watch \/ isRemoved \/ Queued({"Remove"})

\* What is in force is what the file says, or a load is still to come: one that
\* has read the file has read what it says now.
LoadPending ==
    IF wpc = "apply"
    THEN Queued({"Write", "Remove"}) \/ (Usable => read = text[path])
    ELSE isChanged \/ isRemoved \/ Queued({"Write", "Remove"}) \/ UpToDate

PendingInv ==
    /\ SteadyEditor
    /\ aside = Nil
    /\ main \notin {"off", "exited"} => path \in Files
    /\ main = "off" => path \in Files \cup {Nil} /\ Quiet
    /\ main = "loaded" => Quiet /\ UpToDate
    /\ main \in {"watching", "wired", "ldaps", "serving"} =>
         /\ WatchKept
         /\ LoadPending
         /\ wpc \in {"parse", "apply"} => ~isRemoved /\ isChanged

\* A queue only grows by an operation, and holds it if the file is watched.
LEMMA QueueGrows ==
  ASSUME TypeOK, NEW f \in Files, NEW op \in {"Write", "Remove", "Rename"},
         events' \in Queues(f, op)
  PROVE  /\ \A ops : Queued(ops) => Queued(ops)'
         /\ f \in watch => \A ops : op \in ops => Queued(ops)'
<1>. DEFINE e == [file |-> f, op |-> op]
<1>1. events \in Seq(Event) /\ e \in Event
  BY DEF TypeOK, Event
<1>2. CASE events' = events
  <2>1. f \in watch => events # <<>> /\ events[Len(events)] = e
    BY <1>1, <1>2 DEF Queues
  <2>2. events # <<>> => Len(events) \in DOMAIN events
    BY <1>1
  <2>3. ASSUME f \in watch, NEW ops, op \in ops PROVE Queued(ops)'
    <3>1. events[Len(events)].op = op
      BY <2>1, <2>3
    <3>. QED  BY <1>2, <2>1, <2>2, <2>3, <3>1 DEF Queued
  <2>. QED  BY <1>2, <2>3 DEF Queued
<1>3. CASE f \in watch /\ events' = Append(events, e)
  <2>1. /\ \A i \in DOMAIN events : i \in DOMAIN events' /\ events'[i] = events[i]
        /\ Len(events) + 1 \in DOMAIN events' /\ events'[Len(events) + 1] = e
    BY <1>1, <1>3
  <2>2. events'[Len(events) + 1].op = op
    BY <2>1
  <2>3. ASSUME NEW ops, Queued(ops) PROVE Queued(ops)'
    BY <2>1, <2>3 DEF Queued
  <2>4. ASSUME NEW ops, op \in ops PROVE Queued(ops)'
    BY <2>1, <2>2, <2>4 DEF Queued
  <2>. QED  BY <2>3, <2>4
<1>. QED  BY <1>2, <1>3 DEF Queues

\* Receiving takes away the first event only.
LEMMA QueueShrinks ==
  ASSUME TypeOK, events # <<>>, events' = Tail(events), NEW ops, Queued(ops)
  PROVE  Head(events).op \in ops \/ Queued(ops)'
<1>1. events \in Seq(Event)
  BY DEF TypeOK
<1>2. PICK i \in DOMAIN events : events[i].op \in ops
  BY DEF Queued
<1>3. CASE i = 1
  BY <1>1, <1>2, <1>3
<1>4. CASE i # 1
  <2>1. i - 1 \in DOMAIN events' /\ events'[i - 1] = events[i]
    BY <1>1, <1>2, <1>4
  <2>. QED  BY <1>2, <2>1 DEF Queued
<1>. QED  BY <1>3, <1>4

Awake == {"watching", "wired", "ldaps", "serving"}

\* Writing in place.
LEMMA OverwritePending ==
  ASSUME TypeOK, PendingInv, main \in Awake, NEW c, Overwrite(c),
         UNCHANGED <<main, active, watcher>>, SteadyEditor'
  PROVE  PendingInv'
<1>1. path \in Files /\ path' = path /\ aside' = aside /\ watch' = watch
  BY DEF Overwrite, TypeOK
<1>2. events' \in Queues(path, "Write")
  BY DEF Overwrite
<1>3. Queued({"Remove"}) => Queued({"Remove"})'
  BY <1>1, <1>2, QueueGrows
<1>4. Queued({"Write", "Remove"}) => Queued({"Write", "Remove"})'
  BY <1>1, <1>2, QueueGrows
<1>5. path \in watch => Queued({"Write", "Remove"})'
  BY <1>1, <1>2, QueueGrows
<1>6. Queued({"Remove"}) => Queued({"Write", "Remove"})
  BY DEF Queued
<1>7. WatchKept' /\ (isRemoved' \/ Queued({"Write", "Remove"})')
  BY <1>1, <1>3, <1>4, <1>5, <1>6 DEF PendingInv, Awake, WatchKept, watcher
<1>8. LoadPending'
  BY <1>7 DEF PendingInv, Awake, LoadPending, watcher
<1>. QED  BY <1>1, <1>7, <1>8 DEF PendingInv, Awake, watcher

LEMMA EditPending ==
  ASSUME TypeOK, PendingInv, Edit
  PROVE  PendingInv'
<1>1. ASSUME NEW kind, MayEdit(kind)
      PROVE  /\ kind \in {"write", "replace", "script"} /\ SteadyEditor'
             /\ main \notin {"off", "loaded"}
  BY <1>1 DEF MayEdit, PendingInv, SteadyEditor, TypeOK, Editor
<1>2. ASSUME NEW c \in edits.to, Write(c) PROVE PendingInv'
  <2>1. CASE main \in Awake
    BY <1>1, <1>2, <2>1, OverwritePending DEF Write
  <2>2. CASE main \notin Awake
    BY <1>1, <1>2, <2>2 DEF Write, Overwrite, PendingInv, Awake, TypeOK
  <2>. QED  BY <2>1, <2>2
<1>3. ASSUME NEW f \in Files, NEW c \in edits.to, Replace(f, c) PROVE PendingInv'
  <2>1. SteadyEditor' /\ main \notin {"off", "loaded"} /\ UNCHANGED <<main, active, watcher, aside>>
    BY <1>1, <1>3 DEF Replace
  <2>2. path \in Files /\ path' = f /\ events' \in Queues(path, "Remove")
    BY <1>3 DEF Replace, TypeOK
  <2>3. Queued({"Remove"}) => Queued({"Remove"})'
    BY <2>2, QueueGrows
  <2>4. path \in watch => Queued({"Remove"})'
    BY <2>2, QueueGrows
  <2>5. main \in Awake => isRemoved' \/ Queued({"Remove"})'
    BY <2>1, <2>3, <2>4 DEF PendingInv, Awake, WatchKept, watcher
  <2>6. Queued({"Remove"})' => Queued({"Write", "Remove"})'
    BY DEF Queued
  <2>7. main \in Awake => WatchKept' /\ LoadPending'
    BY <2>1, <2>5, <2>6 DEF PendingInv, Awake, WatchKept, LoadPending, watcher
  <2>. QED  BY <2>1, <2>2, <2>7 DEF PendingInv, Awake, watcher
<1>4. ASSUME NEW f \in Files, NEW c \in edits.to PROVE ~Create(f, c)
  BY <1>1 DEF Create
<1>5. ~Unlink /\ ~Move
  BY <1>1 DEF Unlink, Move
<1>6. ~DropBackup
  BY DEF DropBackup, PendingInv
<1>. QED  BY <1>2, <1>3, <1>4, <1>5, <1>6 DEF Edit

LEMMA WatcherPending ==
  ASSUME TypeOK, PendingInv, Watcher
  PROVE  PendingInv'
<1>1. UNCHANGED <<disk, main, edits>> /\ main \notin {"off", "exited"} /\ path \in Files
  BY DEF Watcher, Receive, Wake, Stat, Rewatch, Parse, Apply, Runs, PendingInv
<1>2. main # "loaded"
  BY DEF Watcher, Receive, Wake, Stat, Rewatch, Parse, Apply, Runs, PendingInv, Quiet
<1>3. main \in Awake /\ WatchKept /\ LoadPending
      /\ (wpc \in {"parse", "apply"} => ~isRemoved /\ isChanged)
  BY <1>1, <1>2 DEF PendingInv, TypeOK, Awake
<1>4. SteadyEditor' /\ aside' = Nil
  BY <1>1 DEF PendingInv, SteadyEditor, disk
<1>5. path # Nil /\ path' = path /\ text' = text /\ (Usable' <=> Usable)
  BY <1>1, WatchAssumption DEF disk, Usable
<1>. SUFFICES /\ WatchKept' /\ LoadPending'
              /\ wpc' \in {"parse", "apply"} => ~isRemoved' /\ isChanged'
  BY <1>1, <1>2, <1>3, <1>4, <1>5 DEF PendingInv
<1>6. CASE Receive
  <2>1. events # <<>> /\ events' = Tail(events) /\ wpc = "select" /\ wpc' = "stat"
        /\ UNCHANGED <<watch, active>>
    BY <1>6 DEF Receive, Runs
  <2>2. Queued({"Remove"}) => isRemoved' \/ Queued({"Remove"})'
    BY <1>6, <2>1, QueueShrinks DEF Receive
  <2>3. Queued({"Write", "Remove"}) => isChanged' \/ Queued({"Write", "Remove"})'
    BY <1>5, <1>6, <2>1, QueueShrinks DEF Receive
  <2>4. (isRemoved => isRemoved') /\ (isChanged => isChanged')
    BY <1>6 DEF Receive
  <2>5. WatchKept'
    BY <1>3, <1>5, <2>1, <2>2, <2>4 DEF WatchKept
  <2>6. LoadPending'
    BY <1>3, <1>5, <2>1, <2>3, <2>4 DEF LoadPending, UpToDate
  <2>. QED  BY <2>1, <2>5, <2>6
<1>7. CASE Wake
  BY <1>3, <1>5, <1>7 DEF Wake, Runs, WatchKept, LoadPending, Queued, UpToDate
<1>8. CASE Stat
  BY <1>3, <1>5, <1>8 DEF Stat, Runs, WatchKept, LoadPending, Queued, UpToDate
<1>9. CASE Rewatch
  BY <1>3, <1>5, <1>9 DEF Rewatch, Runs, Watched, WatchKept, LoadPending
<1>10. CASE Parse
  <2>1. WatchKept'
    BY <1>3, <1>5, <1>10 DEF Parse, WatchKept, Queued
  <2>2. LoadPending'
    BY <1>3, <1>5, <1>10 DEF Parse, Runs, LoadPending, UpToDate
  <2>. QED  BY <1>3, <1>10, <2>1, <2>2 DEF Parse, Runs
<1>11. CASE Apply
  <2>1. WatchKept'
    BY <1>3, <1>5, <1>11 DEF Apply, WatchKept, Queued
  <2>2. LoadPending'
    BY <1>3, <1>5, <1>11 DEF Apply, Runs, LoadPending, UpToDate, Queued
  <2>. QED  BY <1>11, <2>1, <2>2 DEF Apply
<1>. QED  BY <1>6, <1>7, <1>8, <1>9, <1>10, <1>11 DEF Watcher

LEMMA InitPending ==
  ASSUME SteadyPath, SInit
  PROVE  PendingInv
<1>1. edits \in Editors /\ aside = Nil /\ main = "off" /\ Quiet
  BY DEF SInit, RInit, InitAt, Quiet
<1>2. path \in Files \cup {Nil}
  BY WatchAssumption DEF SInit, RInit, InitAt, AnInode
<1>3. SteadyEditor
  BY <1>1 DEF SteadyPath, SteadyEditor
<1>. QED  BY <1>1, <1>2, <1>3 DEF PendingInv

LEMMA MainPending ==
  ASSUME TypeOK, PendingInv, Load \/ FirstWatch
  PROVE  PendingInv'
<1>1. UNCHANGED <<disk, watcher, edits, events>> /\ SteadyEditor' /\ aside' = Nil
  BY DEF Load, FirstWatch, PendingInv, SteadyEditor, disk
<1>2. CASE Load
  <2>1. main = "off" /\ Quiet' /\ main' \in {"loaded", "exited"}
    BY <1>1, <1>2 DEF Load, PendingInv, Quiet, watcher
  <2>2. main' = "loaded" => path' \in Files /\ UpToDate'
    BY <1>1, <1>2, <2>1 DEF Load, Usable, UpToDate, PendingInv, disk
  <2>. QED  BY <1>1, <2>1, <2>2 DEF PendingInv
<1>3. CASE FirstWatch
  <2>1. main = "loaded" /\ main' = "watching" /\ Quiet /\ UpToDate /\ path \in Files
        /\ watch' = Watched /\ active' = active
    BY <1>3 DEF FirstWatch, PendingInv
  <2>2. path' \in Files /\ path' \in watch' /\ wpc' = "select" /\ UpToDate'
    BY <1>1, <2>1, WatchAssumption DEF Watched, Quiet, UpToDate, Usable, disk, watcher
  <2>. QED  BY <1>1, <2>1, <2>2 DEF PendingInv, WatchKept, LoadPending
<1>. QED  BY <1>2, <1>3

\* What the script writes, it writes in place.
LEMMA ScriptPending ==
  ASSUME TypeOK, ScriptTypes, PendingInv, Script \/ Crash \/ Restart \/ Publish
  PROVE  PendingInv'
<1>1. ASSUME UNCHANGED vars PROVE PendingInv'
  BY <1>1 DEF vars, disk, watcher, PendingInv, SteadyEditor, Quiet, UpToDate, Usable,
              WatchKept, LoadPending, Queued
<1>2. ASSUME NEW c, Overwrite(c), UNCHANGED <<edits, glauth>>,
             main \in edits.during
      PROVE  PendingInv'
  <2>1. main \notin {"off", "loaded"} /\ SteadyEditor' /\ UNCHANGED <<main, active, watcher>>
    BY <1>2 DEF PendingInv, SteadyEditor, glauth
  <2>2. CASE main \in Awake
    BY <1>2, <2>1, <2>2, OverwritePending
  <2>3. CASE main \notin Awake
    BY <1>2, <2>1, <2>3 DEF Overwrite, PendingInv, Awake, TypeOK
  <2>. QED  BY <2>2, <2>3
<1>3. CASE Truncate
  <2>1. main \in edits.during /\ UNCHANGED <<edits, glauth>> /\ Truncated
    BY <1>3 DEF Truncate, At
  <2>2. CASE Overwrite(Empty)
    BY <1>2, <2>1, <2>2
  <2>3. CASE path = Nil /\ aside' = aside
    <3>1. main = "exited"
      BY <2>1, <2>3, WatchAssumption DEF PendingInv, SteadyEditor, TypeOK
    <3>. QED  BY <2>1, <2>3, <3>1 DEF PendingInv, SteadyEditor, glauth
  <2>. QED  BY <2>1, <2>2, <2>3 DEF Truncated
<1>4. CASE WritePreconfig
  BY <1>2, <1>4 DEF WritePreconfig, At
<1>5. CASE WriteUsers
  BY <1>2, <1>5 DEF WriteUsers, At
<1>. QED  BY <1>1, <1>3, <1>4, <1>5 DEF Script, Fetch, Compare, File, Crash, Restart, Publish

\* startService touches nothing of this but main.
LEMMA ServicePending ==
  ASSUME TypeOK, PendingInv, Main \/ ListenInBackground
  PROVE  PendingInv'
<1>1. PICK l : MainGoes(l) /\ l \in {"wired", "ldaps", "serving", "exited", main}
  BY DEF Main, Wire, WireFails, StartLdap, StartLdaps, ListenInBackground
<1>2. /\ UNCHANGED <<path, aside, text, watch, events, active, wpc, isChanged, isRemoved,
                     read, edits>>
      /\ main' = l
  BY <1>1 DEF MainGoes, disk, watcher
<1>3. main = l \/ main \in Awake
  BY <1>2 DEF Main, Wire, WireFails, StartLdap, StartLdaps, ListenInBackground, MainGoes, Awake
<1>4. /\ SteadyEditor' <=> SteadyEditor
      /\ Quiet' <=> Quiet
      /\ UpToDate' <=> UpToDate
      /\ WatchKept' <=> WatchKept
      /\ LoadPending' <=> LoadPending
  BY <1>2 DEF SteadyEditor, Quiet, UpToDate, Usable, WatchKept, LoadPending, Queued
<1>. QED  BY <1>1, <1>2, <1>3, <1>4 DEF PendingInv, Awake

LEMMA PendingStep == StartInv /\ PendingInv /\ [SNext]_svars => PendingInv'
<1>. SUFFICES ASSUME StartInv, PendingInv, [SNext]_svars PROVE PendingInv'
  OBVIOUS
<1>1. TypeOK /\ ScriptTypes
  BY DEF StartInv, ReloadInv, WatchInv
<1>2. CASE Meanwhile(RNext)
  BY <1>1, <1>2, MainPending, WatcherPending, EditPending, ScriptPending
     DEF Meanwhile, RNext, Elsewhere, Next
<1>3. CASE Main \/ ListenInBackground
  BY <1>1, <1>3, ServicePending
<1>4. CASE UNCHANGED svars
  BY <1>4 DEF svars, rvars, vars, disk, watcher, PendingInv, SteadyEditor, Quiet,
              UpToDate, Usable, WatchKept, LoadPending, Queued
<1>. QED  BY <1>2, <1>3, <1>4 DEF SNext

\* However many edits come between whatever steps, once the watcher is at rest
\* the file is watched and what it says is in force: if the path always names a
\* file, and is not touched before the first watch.
THEOREM NothingIsMissed ==
  ASSUME SteadyPath
  PROVE  SSpec => []NothingMissed
<1>1. SInit => PendingInv
  BY InitPending
<1>2. PendingInv /\ StartInv => NothingMissed
  <2>. SUFFICES ASSUME PendingInv, StartInv, Settled, path # Nil
                PROVE  path \in watch /\ UpToDate
    BY DEF NothingMissed
  <2>1. main \in Awake /\ wpc = "select" /\ ~isChanged /\ ~isRemoved /\ events = <<>>
    BY DEF Settled, Awake, StartInv, ReloadInv, WatchInv, TypeOK
  <2>2. ~Queued({"Remove"}) /\ ~Queued({"Write", "Remove"})
    BY <2>1 DEF Queued
  <2>. QED  BY <2>1, <2>2 DEF PendingInv, Awake, WatchKept, LoadPending
<1>. QED  BY <1>1, <1>2, PendingStep, StartAlways, PTL DEF SSpec

-----------------------------------------------------------------------------
(* The script, where nobody else edits the file and the offering does not  *)
(* go back to earlier accounts.                                            *)

ScriptAlone == \A e \in Editors : "script" \in e.kinds => e.kinds = {"script"}

Holds(a) == path # Nil /\ text[path] = WithAccounts[a]

\* What was merged last is still in the file, or something newer was fetched:
\* that may have been merged half-way, but is not what was merged last.
MergeInv ==
    /\ edits \in Editor
    /\ "script" \in edits.kinds \/ rpc = "sleep"
    /\ "script" \in edits.kinds =>
         /\ edits.kinds = {"script"}
         /\ aside = Nil
         /\ fetched <= offering
         /\ prev # Nil => prev < fetched \/ (prev = fetched /\ Holds(prev))
         /\ rpc \in {"truncate", "preconfig", "users", "file"} => prev # fetched
         /\ rpc = "file" => Holds(fetched)

LEMMA InitMerge ==
  ASSUME ScriptAlone, SInit, ScriptTypes
  PROVE  MergeInv
<1>1. edits \in Editors /\ edits \in Editor
  BY WatchAssumption DEF SInit, RInit, InitAt
<1>2. "script" \in edits.kinds => edits.kinds = {"script"}
  BY <1>1 DEF ScriptAlone
<1>3. fetched = offering /\ offering \in Nat /\ prev = Nil /\ rpc = "sleep" /\ aside = Nil
  BY RefresherAssumption DEF SInit, RInit, InitAt, ScriptTypes
<1>. QED  BY <1>1, <1>2, <1>3 DEF MergeInv

\* The steps of glauth leave the file and the script's files alone, and the
\* editors have nothing to do.
LEMMA ElsewhereMerge ==
  ASSUME MergeInv, Load \/ FirstWatch \/ Watcher \/ Edit \/ Main \/ ListenInBackground,
         UNCHANGED <<script, portal, crashes>>
  PROVE  MergeInv'
<1>1. UNCHANGED <<rpc, fetched, prev, offering>>
  BY DEF script, portal
<1>2. CASE Edit
  <2>1. ASSUME NEW kind, MayEdit(kind)
        PROVE  /\ kind \in edits.kinds /\ edits' \in Editor /\ edits'.kinds = edits.kinds
    BY <2>1 DEF MayEdit, MergeInv, Editor
  <2>2. "script" \in edits.kinds => FALSE
    BY <1>2, <2>1 DEF MergeInv, Edit, Write, Replace, Create, Unlink, Move, DropBackup
  <2>3. edits' \in Editor /\ edits'.kinds = edits.kinds
    BY <1>2, <2>1 DEF MergeInv, Edit, Write, Replace, Create, Unlink, Move, DropBackup
  <2>. QED  BY <1>1, <2>2, <2>3 DEF MergeInv
<1>3. CASE Load \/ FirstWatch \/ Watcher \/ Main \/ ListenInBackground
  <2>1. UNCHANGED <<path, aside, text, edits>>
    BY <1>3 DEF Load, FirstWatch, Watcher, Receive, Wake, Stat, Rewatch, Parse, Apply, Main,
                Wire, WireFails, StartLdap, StartLdaps, ListenInBackground, MainGoes, disk
  <2>. QED  BY <1>1, <2>1 DEF MergeInv, Holds
<1>. QED  BY <1>2, <1>3

LEMMA ScriptMerge ==
  ASSUME ~MayRevert, WatchInv, ScriptTypes, MergeInv, Script \/ Crash \/ Restart \/ Publish
  PROVE  MergeInv'
<1>1. /\ offering \in Nat /\ fetched \in Nat /\ prev \in Nat \cup {Nil}
      /\ Nil \notin Accounts /\ (prev # Nil => prev \in Nat)
  BY RefresherAssumption DEF ScriptTypes
<1>2. "script" \in edits.kinds
  BY DEF MergeInv, Script, Fetch, Compare, Truncate, WritePreconfig, WriteUsers, File, At,
         Crash, Restart, Publish
<1>3. ASSUME UNCHANGED vars PROVE UNCHANGED <<edits, aside, path, text>>
  BY <1>3 DEF vars, disk
<1>4. CASE Fetch
  BY <1>1, <1>2, <1>3, <1>4 DEF Fetch, At, MergeInv, Holds, portal
<1>5. CASE Compare
  BY <1>1, <1>2, <1>3, <1>5 DEF Compare, At, MergeInv, Holds, portal
<1>6. CASE Truncate \/ WritePreconfig
  <2>1. UNCHANGED <<edits, fetched, prev, offering>> /\ prev # fetched
        /\ rpc' \in {"preconfig", "users"}
    BY <1>2, <1>6 DEF Truncate, WritePreconfig, At, MergeInv, portal
  <2>2. aside' = aside
    BY <1>6 DEF Truncate, Truncated, WritePreconfig, Overwrite
  <2>. QED  BY <1>2, <2>1, <2>2 DEF MergeInv
<1>7. CASE WriteUsers
  <2>1. UNCHANGED <<edits, fetched, prev, offering, path, aside>> /\ prev # fetched
        /\ rpc' = "file" /\ path # Nil /\ path \in Files
        /\ text' = [text EXCEPT ![path] = WithAccounts[fetched]]
    BY <1>2, <1>7 DEF WriteUsers, At, MergeInv, portal, Overwrite, WatchInv, TypeOK
  <2>2. Holds(fetched)'
    BY <2>1 DEF Holds, WatchInv, TypeOK
  <2>. QED  BY <1>2, <2>1, <2>2 DEF MergeInv
<1>8. CASE File
  <2>1. UNCHANGED <<edits, fetched, offering, path, text, aside>> /\ prev' = fetched
        /\ rpc' = "sleep" /\ Holds(fetched)
    BY <1>2, <1>3, <1>8 DEF File, At, MergeInv, portal
  <2>2. Holds(fetched)'
    BY <2>1 DEF Holds
  <2>. QED  BY <1>1, <1>2, <2>1, <2>2 DEF MergeInv, Holds
<1>9. CASE Crash \/ Restart
  BY <1>2, <1>3, <1>9 DEF Crash, Restart, MergeInv, Holds, portal
<1>10. CASE Publish
  <2>1. offering' > offering /\ offering' \in Nat
    BY <1>10, RefresherAssumption DEF Publish
  <2>2. UNCHANGED <<rpc, fetched, prev, edits, aside, path, text>>
    BY <1>3, <1>10 DEF Publish, script
  <2>. QED  BY <1>1, <1>2, <2>1, <2>2 DEF MergeInv, Holds
<1>. QED  BY <1>4, <1>5, <1>6, <1>7, <1>8, <1>9, <1>10 DEF Script

LEMMA MergeStep ==
  ASSUME ~MayRevert
  PROVE  StartInv /\ MergeInv /\ [SNext]_svars => MergeInv'
<1>. SUFFICES ASSUME StartInv, MergeInv, [SNext]_svars PROVE MergeInv'
  OBVIOUS
<1>1. WatchInv /\ ScriptTypes
  BY DEF StartInv, ReloadInv
<1>2. CASE Meanwhile(RNext)
  BY <1>1, <1>2, ElsewhereMerge, ScriptMerge DEF Meanwhile, RNext, Elsewhere, Next
<1>3. CASE Main \/ ListenInBackground
  <2>1. UNCHANGED <<script, portal, crashes>>
    BY <1>3 DEF Main, Wire, WireFails, StartLdap, StartLdaps, ListenInBackground, MainGoes
  <2>. QED  BY <1>3, <2>1, ElsewhereMerge
<1>4. CASE UNCHANGED svars
  BY <1>4 DEF svars, rvars, vars, disk, script, portal, MergeInv, Holds
<1>. QED  BY <1>2, <1>3, <1>4 DEF SNext

\* The script skips a merge only if the file holds the accounts it has fetched,
\* whenever it was killed before: if nobody else edits the file and accounts
\* that were published are not published again later.
THEOREM SkipsAreNoLoss ==
  ASSUME ScriptAlone, ~MayRevert
  PROVE  SSpec => SkipMeansNoChanges
<1>1. SInit /\ StartInv => MergeInv
  BY InitMerge DEF StartInv, ReloadInv
<1>2. StartInv /\ MergeInv /\ [SNext]_svars =>
        [rpc = "compare" /\ rpc' = "sleep"
           => path # Nil /\ text[path] = WithAccounts[fetched]]_rvars
  <2>. SUFFICES ASSUME StartInv, MergeInv, [SNext]_svars, rpc = "compare", rpc' = "sleep"
                PROVE  path # Nil /\ text[path] = WithAccounts[fetched]
    OBVIOUS
  <2>1. Compare
    BY DEF SNext, Meanwhile, RNext, Elsewhere, Main, Wire, WireFails, StartLdap, StartLdaps,
           ListenInBackground, MainGoes, svars, rvars, script, Script, Fetch, Truncate,
           WritePreconfig, WriteUsers, File, At, Crash, Restart, Publish,
           StartInv, ReloadInv, ScriptTypes
  <2>2. prev = fetched /\ "script" \in edits.kinds
    BY <2>1 DEF Compare, At
  <2>3. fetched \in Nat /\ fetched # Nil
    BY RefresherAssumption DEF StartInv, ReloadInv, ScriptTypes
  <2>. QED  BY <2>2, <2>3 DEF MergeInv, Holds
<1>. QED
  BY <1>1, <1>2, MergeStep, StartAlways, StartInit, PTL DEF SSpec, SkipMeansNoChanges

=============================================================================
