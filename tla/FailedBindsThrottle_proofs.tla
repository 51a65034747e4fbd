---------------------- MODULE FailedBindsThrottle_proofs ----------------------
(***************************************************************************)
(* FailedBinds implements Throttle, for any number of connections with     *)
(* addresses of their own, any limit of at least one and any times, when a *)
(* source is kept long enough.  Timed adds to HonourInv of                 *)
(* FailedBinds_proofs what the mapping needs to know of the recorded times.*)
(***************************************************************************)
EXTENDS FailedBindsThrottle, FailedBinds_proofs

-----------------------------------------------------------------------------
(* The inductive invariant.                                                *)

\* A source that is stale has outlived the counting period of its failures.
LongCount == PruneSourcesOlderThan + 1 >= PeriodOfFailedBinds + MaxService

\* A failure was recorded while the request last seen was served.
Dated(s) ==
    sources[s] # NoInfo =>
        \A k \in 1 .. Len(heap[sources[s]].failures) :
            heap[sources[s]].failures[k] <= heap[sources[s]].lastSeen + MaxService

\* A goroutine that counts a failure took its times one after the other, and
\* the youngest failure of its channel is the one it recorded.
Counting(c) ==
    /\ pc[c] \in {"note", "send", "check", "pop"} => 1 <= noted[c] /\ arrived[c] <= noted[c]
    /\ pc[c] \in {"check", "pop"} =>
         LET q == Failures(c) IN
         q # <<>> /\ noted[c] <= q[Len(q)] /\ q[Len(q)] <= clock

\* What a pruning loop is about to delete was stale when it looked: what counts
\* against the address since is younger than the loop's own request.
Doomed(c) ==
    pc[c] = "delete" =>
        \E s \in Sources :
            /\ doomed[c] = {s}
            /\ sources[s] # NoInfo =>
                 LET q == heap[sources[s]].failures
                     end == heap[sources[s]].waitUntil
                 IN /\ \A k \in 1 .. Len(q) :
                         q[k] + PeriodOfFailedBinds <= clock \/ q[k] >= arrived[c]
                    /\ end <= clock \/ end >= arrived[c] + BlockFailedBindsFor

Timed ==
    /\ 1 <= clock
    /\ \A s \in Sources : Dated(s)
    /\ \A c \in Conns : Counting(c) /\ Doomed(c)

TimedInv == HonourInv /\ Timed

\* What TimedInv says without its layers.
LEMMA TimedTypes ==
  ASSUME TimedInv
  PROVE  /\ HonourInv /\ RoomInv /\ BanInv /\ TypeOK /\ cfg = InitBehavior
         /\ \A c \in Conns : SourceOf[c] \in Sources
         /\ PeriodOfFailedBinds \in Nat
         /\ \A i \in InfoIds : heap[i].failures \in Seq(Nat) /\ Len(heap[i].failures) \in Nat
  BY SourceAssumption, TimeAssumption, LenProperties
  DEF TimedInv, HonourInv, RoomInv, BanInv, Room, TypeOK, SourceInfo

\* What one goroutine's step does to the times of its own request.
LEMMA CountingStep ==
  ASSUME TimedInv, NEW c \in Conns, Arrive(c) \/ Step(c)
  PROVE  Counting(c)'
<1>1. /\ TypeOK /\ clock' = clock /\ clock \in Nat /\ 1 <= clock /\ arrived[c] <= clock
      /\ noted[c] <= clock /\ noted[c] \in Nat
      /\ Counting(c)
  BY TimedTypes, TimesStep, HonourNumbers DEF TimedInv, Timed, HonourInv, Young
<1>2. CASE WrongPassword(c)
  BY <1>1, <1>2 DEF WrongPassword, Runs, Goto, Counting, Answer, TypeOK, shared, locals
<1>3. CASE Note(c)
  BY <1>1, <1>3 DEF Note, Runs, Goto, Counting, TypeOK, shared, locals
<1>4. CASE Send(c)
  <2>1. /\ info[c] \in InfoIds /\ info' = info /\ arrived' = arrived /\ noted' = noted
        /\ pc[c] = "send" /\ pc'[c] = "check"
        /\ heap'[info[c]].failures = Append(Failures(c), clock)
    BY <1>1, <1>4 DEF Send, Runs, Goto, TypeOK, SourceInfo, locals, Failures
  <2>2. Failures(c) \in Seq(Nat)
    BY <2>1, TimedTypes DEF Failures
  <2>3. LET q == Append(Failures(c), clock) IN q # <<>> /\ q[Len(q)] = clock
    BY <1>1, <2>2
  <2>. QED  BY <1>1, <2>1, <2>3 DEF Counting, Failures
<1>5. CASE Check(c)
  BY <1>1, <1>5 DEF Check, Runs, Goto, Counting, TypeOK, shared, locals, Failures
<1>6. CASE pc'[c] \notin {"note", "send", "check", "pop"}
  BY <1>6 DEF Counting
<1>7. pc'[c] \in {"note", "send", "check", "pop"} =>
        WrongPassword(c) \/ Note(c) \/ Send(c) \/ Check(c)
  BY <1>1 DEF Arrive, Step, Lookup, Insert, Refuse, Admit, Accept, Decline, NotePanic, Pop, Ban,
     Drain, Recv, Prune, Sweep, Delete, NextKey, Runs, Goto, Answer, TypeOK
<1>. QED  BY <1>2, <1>3, <1>4, <1>5, <1>6, <1>7

\* Nor does it touch the times of the other requests.
LEMMA CountingOthers ==
  ASSUME TimedInv, OwnAddresses, NEW c \in Conns, Arrive(c) \/ Step(c),
         NEW d \in Conns, d # c
  PROVE  Counting(d)'
<1>0. TypeOK /\ BanInv /\ SourceOf[d] \in Sources
  BY TimedTypes
<1>1. /\ TypeOK /\ BanInv /\ clock' = clock /\ Counting(d)
      /\ pc'[d] = pc[d] /\ info'[d] = info[d]
      /\ arrived'[d] = arrived[d] /\ noted'[d] = noted[d]
      /\ SourceOf[d] \in Sources /\ SourceOf[d] # SourceOf[c]
  <2>1. clock' = clock
    BY <1>0, TimesStep
  <2>2. /\ pc'[d] = pc[d] /\ info'[d] = info[d]
        /\ arrived'[d] = arrived[d] /\ noted'[d] = noted[d]
    BY <1>0, OthersStep
  <2>3. Counting(d) /\ SourceOf[d] # SourceOf[c]
    BY DEF TimedInv, Timed, OwnAddresses
  <2>. QED  BY <1>0, <2>1, <2>2, <2>3
<1>2. pc[d] \in {"check", "pop"} => Failures(d)' = Failures(d)
  <2>1. SUFFICES ASSUME pc[d] \in {"check", "pop"} PROVE heap'[info[d]] = heap[info[d]]
    BY <1>1 DEF Failures
  <2>2. info[d] \in InfoIds /\ Holds(SourceOf[d], info[d])
    BY <1>1, <2>1 DEF TypeOK, Holds
  <2>. QED  BY <1>1, <2>2, HeldByOther
<1>. QED  BY <1>1, <1>2 DEF Counting

\* The cell of an address changes with its own goroutine only; what was recorded in
\* it keeps its date.
LEMMA DatedStep ==
  ASSUME TimedInv, OwnAddresses, NEW c \in Conns, Arrive(c) \/ Step(c),
         NEW s \in Sources
  PROVE  Dated(s)'
<1>1. /\ TypeOK /\ BanInv /\ clock \in Nat /\ MaxService \in Nat /\ SourceOf[c] \in Sources
      /\ Dated(s) /\ heap' \in [InfoIds -> SourceInfo]
      /\ \A i \in InfoIds : heap[i].failures \in Seq(Nat)
  BY TimedTypes, HonourNumbers, TypeStep DEF TimedInv, Timed, Next, TypeOK
<1>2. SUFFICES ASSUME sources'[s] # NoInfo, NEW k \in 1 .. Len(heap'[sources'[s]].failures)
               PROVE  heap'[sources'[s]].failures[k] <= heap'[sources'[s]].lastSeen + MaxService
  BY DEF Dated
<1>3. CASE pc[c] = "insert" /\ s = SourceOf[c]
  <2>1. PICK n \in Free : /\ heap' = [heap EXCEPT ![n] = NewInfo(arrived[c])]
                          /\ sources' = [sources EXCEPT ![SourceOf[c]] = n]
    BY <1>1, <1>3, InsertOnly DEF Insert
  <2>2. heap'[sources'[s]].failures = <<>>
    BY <1>1, <1>3, <2>1 DEF TypeOK, Free, NewInfo
  <2>. QED  BY <1>2, <2>2
<1>4. CASE ~(pc[c] = "insert" /\ s = SourceOf[c])
  <2>. DEFINE i == sources[s]
  <2>1. /\ sources'[s] = i /\ i \in InfoIds /\ i # NoInfo /\ Holds(s, i) /\ i \notin Free
    BY <1>1, <1>2, <1>4, TableStep, FreeNotHeld DEF TypeOK, Holds
  <2>2. \A j \in 1 .. Len(heap[i].failures) :
            heap[i].failures[j] <= heap[i].lastSeen + MaxService
    BY <1>1, <2>1 DEF Dated
  <2>3. /\ heap[i].lastSeen \in Nat /\ heap'[i].lastSeen \in Nat
        /\ heap[i].failures \in Seq(Nat) /\ heap'[i].failures \in Seq(Nat)
    BY <1>1, <2>1 DEF TypeOK, SourceInfo
  <2>4. heap[i].lastSeen <= heap'[i].lastSeen
    <3>1. CASE i = info[c] /\ pc[c] = "touch"
      <4>1. s = SourceOf[c]
        BY <1>1, <2>1, <3>1 DEF BanInv, OneOwner, Holds
      <4>2. heap[i].lastSeen <= arrived[c]
        BY <2>1, <3>1, <4>1 DEF TimedInv, HonourInv, Known, InFlight
      <4>3. heap'[i] = [heap[i] EXCEPT !.lastSeen = arrived[c]]
        BY <1>1, <3>1, TimesStep
      <4>4. heap'[i].lastSeen = arrived[c]
        BY <1>1, <2>1, <4>3 DEF TypeOK, SourceInfo
      <4>. QED  BY <4>2, <4>4
    <3>2. CASE i = info[c] /\ pc[c] = "ban"
      <4>0. heap'[info[c]] = [heap[info[c]] EXCEPT !.waitUntil = clock + BlockFailedBindsFor]
        BY <1>1, <3>2, TimesStep
      <4>1. heap'[i] = [heap[i] EXCEPT !.waitUntil = clock + BlockFailedBindsFor]
        BY <3>2, <4>0
      <4>. QED  BY <1>1, <2>1, <2>3, <4>1 DEF TypeOK, SourceInfo
    <3>3. CASE i = info[c] /\ pc[c] \in {"send", "pop", "recv"}
      <4>1. heap'[info[c]].lastSeen = heap[info[c]].lastSeen
        BY <1>1, <3>3, TimesStep
      <4>. QED  BY <2>3, <3>3, <4>1
    <3>4. CASE heap'[i] = heap[i]
      BY <2>3, <3>4
    <3>. QED  BY <1>1, <2>1, <3>1, <3>2, <3>3, <3>4, CellStep
  <2>. DEFINE q == heap[i].failures  r == heap'[i].failures
              seen == heap[i].lastSeen  now == heap'[i].lastSeen
  <2>a. /\ q \in Seq(Nat) /\ r \in Seq(Nat) /\ seen \in Nat /\ now \in Nat /\ seen <= now
        /\ MaxService \in Nat /\ clock \in Nat
        /\ k \in 1 .. Len(r) /\ \A j \in 1 .. Len(q) : q[j] <= seen + MaxService
    BY <1>1, <1>2, <2>1, <2>2, <2>3, <2>4
  <2>b. SUFFICES r[k] <= now + MaxService
    BY <2>1
  <2>. HIDE DEF q, r, seen, now
  <2>5. CASE r = q
    BY <2>a, <2>5
  <2>c. \A j \in 1 .. Len(q) : q[j] \in Nat /\ q[j] <= seen + MaxService
    BY <2>a, ElementOfSeq
  <2>6. CASE q # <<>> /\ r = Tail(q)
    <3>1. k + 1 \in 1 .. Len(q) /\ r[k] = q[k + 1]
      BY <2>a, <2>6
    <3>2. r[k] \in Nat /\ r[k] <= seen + MaxService
      BY <2>c, <3>1
    <3>. HIDE DEF i
    <3>. QED  BY <2>a, <3>2
  <2>7. CASE pc[c] = "send" /\ i = info[c] /\ r = Append(q, clock)
    <3>1. seen = arrived[c] /\ clock <= arrived[c] + MaxService
      BY <2>7 DEF TimedInv, HonourInv, Known, Young, InFlight, seen
    <3>2. \/ r[k] = clock
          \/ k \in 1 .. Len(q) /\ r[k] = q[k]
      BY <2>a, <2>7
    <3>3. r[k] \in Nat /\ r[k] <= seen + MaxService
      BY <2>a, <2>c, <3>1, <3>2
    <3>. QED  BY <2>a, <3>3
  <2>. QED  BY <1>1, <2>1, <2>5, <2>6, <2>7, HeapStep DEF q, r
<1>. QED  BY <1>3, <1>4

\* Of an entry found stale neither the ban nor the failures matter any more.
LEMMA StaleOver ==
  ASSUME TimedInv, LongMemory, LongCount,
         NEW c \in Conns, NEW s \in Sources, Stale(s, noted[c])
  PROVE  LET e == heap[sources[s]] IN
         /\ e.waitUntil <= clock
         /\ \A k \in 1 .. Len(e.failures) : e.failures[k] + PeriodOfFailedBinds <= clock
<1>. DEFINE seen == heap[sources[s]].lastSeen  q == heap[sources[s]].failures
            end == heap[sources[s]].waitUntil
<1>1. /\ TypeOK /\ sources[s] # NoInfo /\ sources[s] \in InfoIds /\ Dated(s)
      /\ q \in Seq(Nat) /\ seen \in Nat /\ end \in Nat
      /\ PeriodOfFailedBinds \in Nat /\ noted[c] \in Nat /\ noted[c] <= clock
      /\ clock \in Nat /\ MaxService \in Nat
      /\ BlockFailedBindsFor \in Nat /\ PruneSourcesOlderThan \in Nat
  BY TimedTypes, HonourNumbers DEF Stale, TypeOK, TimedInv, Timed, HonourInv, Young
<1>2. seen + PruneSourcesOlderThan < clock
  BY <1>1 DEF Stale
<1>3. end <= seen + BlockFailedBindsFor + MaxService
  BY <1>1 DEF TimedInv, HonourInv, Remembered
<1>4. \A k \in 1 .. Len(q) : q[k] \in Nat /\ q[k] <= seen + MaxService
  BY <1>1, ElementOfSeq DEF Dated
<1>. SUFFICES end <= clock /\ \A k \in 1 .. Len(q) : q[k] + PeriodOfFailedBinds <= clock
  OBVIOUS
<1>. HIDE DEF seen, q, end
<1>. QED  BY <1>1, <1>2, <1>3, <1>4 DEF LongMemory, LongCount

\* A step leaves what a pruning loop is about to delete young or over.
LEMMA DoomedStep ==
  ASSUME TimedInv, LongMemory, LongCount, NEW c \in Conns, Arrive(c) \/ Step(c),
         NEW d \in Conns
  PROVE  Doomed(d)'
<1>1. /\ TypeOK /\ clock' = clock /\ clock \in Nat /\ Doomed(d)
      /\ arrived[d] \in Nat /\ arrived[d] <= clock /\ arrived[c] <= clock
      /\ BlockFailedBindsFor \in Nat /\ PeriodOfFailedBinds \in Nat
  BY TimedTypes, TimesStep, HonourNumbers DEF TimedInv, Timed
<1>2. SUFFICES ASSUME pc'[d] = "delete" PROVE Doomed(d)'
  BY DEF Doomed
<1>3. CASE d = c
  <2>1. Sweep(c)
    BY <1>1, <1>2, <1>3
    DEF Arrive, Step, Lookup, Insert, Refuse, Admit, Accept, Decline, WrongPassword, Note,
        NotePanic, Send, Check, Pop, Ban, Drain, Recv, Prune, Delete, NextKey, Runs, Goto,
        Answer, TypeOK
  <2>2. PICK s \in todo[c] : /\ Stale(s, noted[c]) /\ doomed' = [doomed EXCEPT ![c] = {s}]
                             /\ UNCHANGED arrived
    BY <1>1, <1>2, <1>3, <2>1 DEF Sweep, NextKey, Goto, Answer, TypeOK
  <2>3. /\ s \in Sources /\ doomed'[c] = {s} /\ heap' = heap /\ sources' = sources
    BY <1>1, <2>1, <2>2 DEF Sweep, shared, TypeOK
  <2>. QED  BY <1>1, <1>3, <2>2, <2>3, StaleOver DEF Doomed
<1>4. CASE d # c
  <2>1. /\ pc[d] = "delete" /\ doomed'[d] = doomed[d] /\ arrived'[d] = arrived[d]
    BY <1>1, <1>2, <1>4, OthersStep
  <2>2. PICK s \in Sources :
          /\ doomed[d] = {s}
          /\ sources[s] # NoInfo =>
               LET q == heap[sources[s]].failures
                   end == heap[sources[s]].waitUntil
               IN /\ \A k \in 1 .. Len(q) :
                       q[k] + PeriodOfFailedBinds <= clock \/ q[k] >= arrived[d]
                  /\ end <= clock \/ end >= arrived[d] + BlockFailedBindsFor
    BY <1>1, <2>1 DEF Doomed
  <2>3. ASSUME sources'[s] # NoInfo
        PROVE  LET q == heap'[sources'[s]].failures
                   end == heap'[sources'[s]].waitUntil
               IN /\ \A k \in 1 .. Len(q) :
                       q[k] + PeriodOfFailedBinds <= clock \/ q[k] >= arrived[d]
                  /\ end <= clock \/ end >= arrived[d] + BlockFailedBindsFor
    <3>1. CASE pc[c] = "insert" /\ s = SourceOf[c]
      <4>1. PICK n \in Free : /\ heap' = [heap EXCEPT ![n] = NewInfo(arrived[c])]
                              /\ sources' = [sources EXCEPT ![SourceOf[c]] = n]
        BY <1>1, <3>1, InsertOnly DEF Insert
      <4>2. /\ heap'[sources'[s]].failures = <<>>
            /\ heap'[sources'[s]].waitUntil = arrived[c]
        BY <1>1, <3>1, <4>1 DEF TypeOK, Free, NewInfo
      <4>. QED  BY <1>1, <4>2
    <3>2. CASE ~(pc[c] = "insert" /\ s = SourceOf[c])
      <4>. DEFINE i == sources[s]
      <4>1. /\ sources'[s] = i /\ i \in InfoIds /\ i # NoInfo /\ i \notin Free
        BY <1>1, <2>3, <3>2, TableStep, FreeNotHeld DEF TypeOK, Holds
      <4>2. /\ \A k \in 1 .. Len(heap[i].failures) :
                 \/ heap[i].failures[k] + PeriodOfFailedBinds <= clock
                 \/ heap[i].failures[k] >= arrived[d]
            /\ \/ heap[i].waitUntil <= clock
               \/ heap[i].waitUntil >= arrived[d] + BlockFailedBindsFor
        BY <2>2, <4>1
      <4>3. \/ heap'[i].waitUntil = heap[i].waitUntil
            \/ heap'[i].waitUntil = clock + BlockFailedBindsFor
        <5>1. CASE pc[c] = "ban" /\ i = info[c]
          <6>1. heap'[info[c]] = [heap[info[c]] EXCEPT !.waitUntil = clock + BlockFailedBindsFor]
            BY <1>1, <5>1, TimesStep
          <6>2. heap[i] \in SourceInfo
            BY <1>1, <4>1 DEF TypeOK
          <6>. QED  BY <5>1, <6>1, <6>2 DEF SourceInfo
        <5>. QED  BY <1>1, <4>1, <5>1, HeapStep
      <4>. DEFINE q == heap[i].failures  r == heap'[i].failures
      <4>4. q \in Seq(Nat) /\ (r = q \/ (q # <<>> /\ r = Tail(q)) \/ r = Append(q, clock))
        BY <1>1, <4>1, HeapStep DEF TypeOK, SourceInfo
      <4>5. ASSUME NEW k \in 1 .. Len(r)
            PROVE  r[k] = clock \/ \E j \in 1 .. Len(q) : r[k] = q[j]
        <5>. HIDE DEF q, r
        <5>1. CASE r = q
          BY <4>5, <5>1
        <5>2. CASE q # <<>> /\ r = Tail(q)
          <6>1. k + 1 \in 1 .. Len(q) /\ r[k] = q[k + 1]
            BY <4>4, <4>5, <5>2
          <6>. QED  BY <6>1
        <5>3. CASE r = Append(q, clock)
          BY <1>1, <4>4, <4>5, <5>3
        <5>. QED  BY <4>4, <5>1, <5>2, <5>3
      <4>6. \A k \in 1 .. Len(r) : r[k] + PeriodOfFailedBinds <= clock \/ r[k] >= arrived[d]
        BY <1>1, <4>2, <4>5
      <4>7. \/ heap'[i].waitUntil <= clock
            \/ heap'[i].waitUntil >= arrived[d] + BlockFailedBindsFor
        BY <1>1, <4>2, <4>3
      <4>. QED  BY <4>1, <4>6, <4>7
    <3>. QED  BY <3>1, <3>2
  <2>. QED  BY <1>1, <2>1, <2>2, <2>3 DEF Doomed
<1>. QED  BY <1>3, <1>4

\* TimedInv holds at start.
LEMMA TimedInvInit == Init /\ OwnAddresses => TimedInv
  BY HonourInvInit DEF Init, TimedInv, Timed, Dated, Counting, Doomed

\* TimedInv is inductive.
LEMMA TimedInvStep ==
  TimedInv /\ OwnAddresses /\ LongMemory /\ LongCount /\ [Next]_vars => TimedInv'
<1>. SUFFICES ASSUME TimedInv, OwnAddresses, LongMemory, LongCount, [Next]_vars
              PROVE  TimedInv'
  OBVIOUS
<1>1. HonourInv'
  BY HonourInvStep DEF TimedInv
<1>2. ASSUME NEW c \in Conns, Arrive(c) \/ Step(c) PROVE Timed'
  <2>1. clock' = clock
    BY <1>2, TimesStep, TimedTypes
  <2>2. \A d \in Conns : Counting(d)' /\ Doomed(d)'
    BY <1>2, CountingStep, CountingOthers, DoomedStep
  <2>3. \A s \in Sources : Dated(s)'
    BY <1>2, DatedStep
  <2>. QED  BY <2>1, <2>2, <2>3 DEF TimedInv, Timed
<1>3. CASE Tick
  <2>1. /\ clock' = clock + 1 /\ clock \in Nat
        /\ UNCHANGED <<sources, heap, pc, info, arrived, noted, doomed>>
    BY <1>3, TimedTypes DEF Tick, TypeOK, shared, locals, history
  <2>2. \A s \in Sources : Dated(s)'
    BY <2>1 DEF TimedInv, Timed, Dated
  <2>3. ASSUME NEW c \in Conns PROVE Counting(c)'
    <3>1. pc[c] \in {"check", "pop"} => info[c] \in InfoIds
      BY TimedTypes DEF TypeOK
    <3>2. pc[c] \in {"check", "pop"} => Failures(c) \in Seq(Nat)
      BY <3>1, TimedTypes DEF Failures
    <3>3. Counting(c) /\ Failures(c)' = Failures(c) /\ pc' = pc
      BY <2>1 DEF TimedInv, Timed, Failures
    <3>4. \A q \in Seq(Nat) : q # <<>> => q[Len(q)] \in Nat
      OBVIOUS
    <3>. QED  BY <2>1, <3>2, <3>3, <3>4 DEF Counting
  <2>4. ASSUME NEW c \in Conns PROVE Doomed(c)'
    <3>1. SUFFICES ASSUME pc[c] = "delete" PROVE Doomed(c)'
      BY <2>1 DEF Doomed
    <3>2. PICK s \in Sources :
            /\ doomed[c] = {s}
            /\ sources[s] # NoInfo =>
                 LET q == heap[sources[s]].failures
                     end == heap[sources[s]].waitUntil
                 IN /\ \A k \in 1 .. Len(q) :
                         q[k] + PeriodOfFailedBinds <= clock \/ q[k] >= arrived[c]
                    /\ end <= clock \/ end >= arrived[c] + BlockFailedBindsFor
      BY <3>1 DEF TimedInv, Timed, Doomed
    <3>3. sources[s] # NoInfo =>
            /\ heap[sources[s]].waitUntil \in Nat
            /\ \A k \in 1 .. Len(heap[sources[s]].failures) :
                 heap[sources[s]].failures[k] \in Nat
      BY TimedTypes, ElementOfSeq DEF TypeOK, SourceInfo
    <3>. QED  BY <2>1, <3>2, <3>3, TimedTypes DEF Doomed
  <2>. QED  BY <1>1, <2>1, <2>2, <2>3, <2>4 DEF TimedInv, Timed
<1>4. CASE UNCHANGED <<clock, sources, heap, pc, info, arrived, noted, doomed>>
  BY <1>1, <1>4 DEF TimedInv, Timed, Dated, Counting, Doomed, Failures
<1>5. ~Reload
  <2>1. cfg = InitBehavior /\ Behaviors = {InitBehavior}
    BY TimedTypes DEF OwnAddresses
  <2>. QED  BY <2>1 DEF Reload
<1>. QED  BY <1>1, <1>2, <1>3, <1>4, <1>5
          DEF TimedInv, Next, Abort, vars, shared, locals, history

-----------------------------------------------------------------------------
(* What the mapping shows of each step.                                    *)

\* With own addresses, an address is where its one goroutine is, as long as that
\* works on the entry in the table.
LEMMA AtOwn ==
  ASSUME OwnAddresses, NEW c \in Conns, NEW labels
  PROVE  LET s == SourceOf[c] IN
         /\ At(s, labels) <=> pc[c] \in labels /\ info[c] = sources[s]
         /\ At(s, labels)' <=> pc'[c] \in labels /\ info'[c] = sources'[s]
  BY DEF At, OwnAddresses

\* A step shows nothing of an address with another goroutine, unless it takes the
\* entry of that address away.
LEMMA ShownOthers ==
  ASSUME TimedInv, OwnAddresses, NEW c \in Conns, Arrive(c) \/ Step(c),
         NEW t \in Sources, t # SourceOf[c]
  PROVE  sources'[t] = sources[t] =>
           /\ \A labels : At(t, labels)' <=> At(t, labels)
           /\ Recent(t)' = Recent(t) /\ Until(t)' = Until(t)
<1>. SUFFICES ASSUME sources'[t] = sources[t]
              PROVE  /\ \A labels : At(t, labels)' <=> At(t, labels)
                     /\ Recent(t)' = Recent(t) /\ Until(t)' = Until(t)
  OBVIOUS
<1>1. /\ TypeOK /\ BanInv /\ clock' = clock
  BY TimedTypes, TimesStep
<1>2. ASSUME NEW labels PROVE At(t, labels)' <=> At(t, labels)
  <2>1. \A d \in Conns : SourceOf[d] = t => pc'[d] = pc[d] /\ info'[d] = info[d]
    BY <1>1, OthersStep
  <2>. QED  BY <2>1 DEF At
<1>3. sources[t] # NoInfo => heap'[sources[t]] = heap[sources[t]]
  BY <1>1, HeldByOther DEF TypeOK, Holds
<1>4. Queue(t)' = Queue(t) /\ WaitUntil(t)' = WaitUntil(t)
  BY <1>3 DEF Queue, WaitUntil
<1>. QED  BY <1>1, <1>2, <1>4 DEF Recent, Until

\* What is shown of an address whose goroutine is at a label.
LEMMA RecentOwn ==
  ASSUME OwnAddresses, NEW c \in Conns
  PROVE  LET s == SourceOf[c]
             works == info[c] = sources[s]
         IN
         /\ pc[c] \in {"check", "pop"} /\ works =>
              Recent(s) = SubSeq(Queue(s), 1, Len(Queue(s)) - 1)
         /\ pc[c] \in {"ban", "drain", "recv"} /\ works => Recent(s) = <<>>
         /\ ~(pc[c] \in {"check", "pop", "ban", "drain", "recv"} /\ works) =>
              Recent(s) = Queue(s)
         /\ pc'[c] \in {"check", "pop"} /\ works' =>
              Recent(s)' = SubSeq(Queue(s)', 1, Len(Queue(s)') - 1)
         /\ pc'[c] \in {"ban", "drain", "recv"} /\ works' => Recent(s)' = <<>>
         /\ ~(pc'[c] \in {"check", "pop", "ban", "drain", "recv"} /\ works') =>
              Recent(s)' = Queue(s)'
<1>. DEFINE s == SourceOf[c]
<1>1. /\ At(s, {"check", "pop"}) <=> pc[c] \in {"check", "pop"} /\ info[c] = sources[s]
      /\ At(s, {"check", "pop"})' <=> pc'[c] \in {"check", "pop"} /\ info'[c] = sources'[s]
  BY AtOwn
<1>2. /\ At(s, {"ban", "drain", "recv"})
           <=> pc[c] \in {"ban", "drain", "recv"} /\ info[c] = sources[s]
      /\ At(s, {"ban", "drain", "recv"})'
           <=> pc'[c] \in {"ban", "drain", "recv"} /\ info'[c] = sources'[s]
  BY AtOwn
<1>3. Recent(s) = IF At(s, {"check", "pop"}) THEN SubSeq(Queue(s), 1, Len(Queue(s)) - 1)
                  ELSE IF At(s, {"ban", "drain", "recv"}) THEN <<>> ELSE Queue(s)
  BY DEF Recent
<1>4. Recent(s)' = IF At(s, {"check", "pop"})'
                   THEN SubSeq(Queue(s)', 1, Len(Queue(s)') - 1)
                   ELSE IF At(s, {"ban", "drain", "recv"})' THEN <<>> ELSE Queue(s)'
  BY DEF Recent
<1>. HIDE DEF s
<1>5. /\ pc[c] \in {"check", "pop"} /\ info[c] = sources[s] =>
           Recent(s) = SubSeq(Queue(s), 1, Len(Queue(s)) - 1)
      /\ pc[c] \in {"ban", "drain", "recv"} /\ info[c] = sources[s] => Recent(s) = <<>>
      /\ ~(pc[c] \in {"check", "pop", "ban", "drain", "recv"} /\ info[c] = sources[s]) =>
           Recent(s) = Queue(s)
  BY <1>1, <1>2, <1>3
<1>6. /\ pc'[c] \in {"check", "pop"} /\ info'[c] = sources'[s] =>
           Recent(s)' = SubSeq(Queue(s)', 1, Len(Queue(s)') - 1)
      /\ pc'[c] \in {"ban", "drain", "recv"} /\ info'[c] = sources'[s] => Recent(s)' = <<>>
      /\ ~(pc'[c] \in {"check", "pop", "ban", "drain", "recv"} /\ info'[c] = sources'[s]) =>
           Recent(s)' = Queue(s)'
  BY <1>1, <1>2, <1>4
<1>. QED  BY <1>5, <1>6 DEF s

\* A step after which every address shows what it did is a stutter of the throttle.
LEMMA NothingShown ==
  ASSUME clock' = clock,
         \A t \in Sources : /\ Recent(t)' = Recent(t) /\ Until(t)' = Until(t)
                            /\ At(t, {"ban"})' <=> At(t, {"ban"})
  PROVE  UNCHANGED Promise!vars
  BY DEF Promise!vars

\* The throttle's actions, one address at a time.
LEMMA FailShown ==
  ASSUME clock' = clock, NEW s \in Sources, ~At(s, {"ban"}), ~At(s, {"ban"})',
         Len(Recent(s)) + 1 < InitBehavior.NumberOfFailedBinds,
         NEW x \in Promise!Lately, Recent(s)' = Append(Recent(s), x), Until(s)' = Until(s),
         \A t \in Sources \ {s} : /\ Recent(t)' = Recent(t) /\ Until(t)' = Until(t)
                                  /\ At(t, {"ban"})' <=> At(t, {"ban"})
  PROVE  Promise!Fail(s)
  BY DEF Promise!Fail

LEMMA FailAtLimitShown ==
  ASSUME clock' = clock, NEW s \in Sources, ~At(s, {"ban"}),
         Len(Recent(s)) + 1 = InitBehavior.NumberOfFailedBinds,
         NEW judged \in Promise!Lately, NEW x \in Promise!Lately, judged <= x,
         Until(s)' = Until(s),
         LET all == Append(Recent(s), x) IN
         \/ /\ Head(all) + PeriodOfFailedBinds > judged
            /\ At(s, {"ban"})' /\ Recent(s)' = <<>>
         \/ /\ ~(Head(all) + PeriodOfFailedBinds > judged)
            /\ ~At(s, {"ban"})' /\ Recent(s)' = Tail(all),
         \A t \in Sources \ {s} : /\ Recent(t)' = Recent(t) /\ Until(t)' = Until(t)
                                  /\ At(t, {"ban"})' <=> At(t, {"ban"})
  PROVE  Promise!FailAtLimit(s)
  BY DEF Promise!FailAtLimit

LEMMA ImposeShown ==
  ASSUME clock' = clock, NEW s \in Sources, At(s, {"ban"}), ~At(s, {"ban"})',
         Until(s)' = (IF BlockFailedBindsFor > 0 THEN clock + BlockFailedBindsFor ELSE 0),
         Recent(s)' = Recent(s),
         \A t \in Sources \ {s} : /\ Recent(t)' = Recent(t) /\ Until(t)' = Until(t)
                                  /\ At(t, {"ban"})' <=> At(t, {"ban"})
  PROVE  Promise!Impose(s)
  BY DEF Promise!Impose

LEMMA ForgetShown ==
  ASSUME clock' = clock, NEW s \in Sources,
         Until(s) = 0 \/ Until(s) >= clock - MaxService + BlockFailedBindsFor,
         \A i \in DOMAIN Recent(s) : \/ Recent(s)[i] + PeriodOfFailedBinds <= clock
                                     \/ Recent(s)[i] >= clock - MaxService,
         Recent(s)' = <<>>, Until(s)' = 0, ~At(s, {"ban"})',
         \A t \in Sources \ {s} : /\ Recent(t)' = Recent(t) /\ Until(t)' = Until(t)
                                  /\ At(t, {"ban"})' <=> At(t, {"ban"})
  PROVE  Promise!Forget(s)
  BY DEF Promise!Forget

LEMMA TickShown ==
  ASSUME clock' = clock + 1,
         \A t \in Sources : /\ Recent(t)' = Recent(t)
                            /\ At(t, {"ban"})' <=> At(t, {"ban"})
                            /\ Until(t)' = IF Until(t) > clock' THEN Until(t) ELSE 0
  PROVE  Promise!Tick
  BY DEF Promise!Tick

-----------------------------------------------------------------------------
(* Step by step.                                                           *)

\* A step of a goroutine that leaves the queue and the ban of its address, and does
\* not move between the labels that count, shows nothing.
LEMMA QuietShown ==
  ASSUME TimedInv, OwnAddresses, NEW c \in Conns, Arrive(c) \/ Step(c),
         sources' = sources,
         \A i \in InfoIds : /\ heap'[i].failures = heap[i].failures
                            /\ heap'[i].waitUntil = heap[i].waitUntil,
         \/ {pc[c], pc'[c]} \cap {"check", "pop", "ban", "drain", "recv"} = {}
         \/ {pc[c], pc'[c]} \subseteq {"check", "pop"} /\ info' = info
  PROVE  UNCHANGED Promise!vars
<1>. DEFINE s == SourceOf[c]
<1>1. TypeOK /\ clock' = clock /\ s \in Sources
  BY TimedTypes, TimesStep
<1>2. Queue(s)' = Queue(s) /\ WaitUntil(s)' = WaitUntil(s)
  BY <1>1 DEF Queue, WaitUntil, TypeOK
<1>3. Recent(s)' = Recent(s)
  <2>1. CASE {pc[c], pc'[c]} \cap {"check", "pop", "ban", "drain", "recv"} = {}
    BY <1>2, <2>1, RecentOwn
  <2>2. CASE {pc[c], pc'[c]} \subseteq {"check", "pop"} /\ info' = info
    BY <1>2, <2>2, RecentOwn
  <2>. QED  BY <2>1, <2>2
<1>4. Until(s)' = Until(s)
  BY <1>1, <1>2 DEF Until
<1>5. At(s, {"ban"})' <=> At(s, {"ban"})
  BY AtOwn
<1>6. \A t \in Sources : t # s =>
        /\ Recent(t)' = Recent(t) /\ Until(t)' = Until(t)
        /\ At(t, {"ban"})' <=> At(t, {"ban"})
  BY ShownOthers
<1>. QED  BY <1>1, <1>3, <1>4, <1>5, <1>6, NothingShown

\* The steps before a password is known to be wrong, and those that answer.
LEMMA QuietSteps ==
  ASSUME TimedInv, OwnAddresses, NEW c \in Conns,
         \/ Arrive(c) \/ Lookup(c) \/ Refuse(c) \/ Admit(c) \/ Accept(c) \/ Decline(c)
         \/ WrongPassword(c) \/ Note(c) \/ NotePanic(c) \/ Prune(c)
  PROVE  UNCHANGED Promise!vars
<1>1. TypeOK
  BY TimedTypes
<1>2. Arrive(c) \/ Step(c)
  BY DEF Step
<1>3. CASE Refuse(c) \/ Admit(c)
  <2>1. /\ heap' = [heap EXCEPT ![info[c]].lastSeen = arrived[c]]
        /\ pc[c] = "touch" /\ pc'[c] \in {"idle", "serve"} /\ sources' = sources
    BY <1>1, <1>3 DEF Refuse, Admit, Runs, Goto, Answer, TypeOK
  <2>2. \A i \in InfoIds : /\ heap'[i].failures = heap[i].failures
                           /\ heap'[i].waitUntil = heap[i].waitUntil
    BY <1>1, <2>1 DEF TypeOK, SourceInfo
  <2>. QED  BY <1>2, <2>1, <2>2, QuietShown
<1>4. CASE ~(Refuse(c) \/ Admit(c))
  <2>1. /\ sources' = sources /\ heap' = heap
        /\ {pc[c], pc'[c]} \cap {"check", "pop", "ban", "drain", "recv"} = {}
    BY <1>1, <1>4 DEF Arrive, Lookup, Accept, Decline, WrongPassword, Note, NotePanic, Prune,
       Runs, Goto, Answer, shared, locals, TypeOK
  <2>. QED  BY <1>2, <2>1, QuietShown
<1>. QED  BY <1>3, <1>4

\* A new entry shows what no entry showed.
LEMMA InsertShown ==
  ASSUME TimedInv, OwnAddresses, NEW c \in Conns, Insert(c)
  PROVE  UNCHANGED Promise!vars
<1>. DEFINE s == SourceOf[c]
<1>1. /\ TypeOK /\ clock' = clock /\ s \in Sources /\ (Arrive(c) \/ Step(c))
      /\ pc[c] = "insert" /\ pc'[c] = "serve" /\ arrived[c] <= clock
      /\ arrived[c] \in Nat /\ clock \in Nat
  BY TimedTypes, HonourNumbers DEF Insert, Runs, Goto, Step, TypeOK, TimedInv
<1>2. sources[s] = NoInfo
  BY <1>1 DEF TimedInv, HonourInv, Known
<1>3. PICK n \in Free : /\ heap' = [heap EXCEPT ![n] = NewInfo(arrived[c])]
                        /\ sources' = [sources EXCEPT ![SourceOf[c]] = n]
  BY DEF Insert
<1>4. Queue(s)' = <<>> /\ WaitUntil(s)' = arrived[c]
  <2>1. sources'[s] = n /\ n # NoInfo /\ heap'[n] = NewInfo(arrived[c])
    BY <1>1, <1>3, InfoAssumption DEF Free, TypeOK
  <2>. QED  BY <2>1 DEF Queue, WaitUntil, NewInfo
<1>5. Queue(s) = <<>> /\ WaitUntil(s) = 0
  BY <1>2 DEF Queue, WaitUntil
<1>6. Recent(s)' = Recent(s) /\ (At(s, {"ban"})' <=> At(s, {"ban"}))
  <2>1. Recent(s)' = Recent(s)
    BY <1>1, <1>4, <1>5, RecentOwn
  <2>2. ~At(s, {"ban"})' /\ ~At(s, {"ban"})
    BY <1>1, AtOwn
  <2>. QED  BY <2>1, <2>2
<1>7. Until(s)' = Until(s)
  BY <1>1, <1>4, <1>5 DEF Until
<1>8. ASSUME NEW t \in Sources, t # s
      PROVE  /\ Recent(t)' = Recent(t) /\ Until(t)' = Until(t)
             /\ At(t, {"ban"})' <=> At(t, {"ban"})
  <2>1. sources'[t] = sources[t]
    BY <1>1, <1>3, <1>8 DEF TypeOK
  <2>. QED  BY <1>1, <1>8, <2>1, ShownOthers
<1>. QED  BY <1>1, <1>6, <1>7, <1>8, NothingShown

\* A goroutine that counts a failure works on the entry of its address, as long as
\* that is there.
LEMMA ChannelOwn ==
  ASSUME TimedInv, OwnAddresses, NEW c \in Conns, SourceOf[c] \notin erased,
         pc[c] \in {"send", "check", "pop", "ban", "drain", "recv"}
  PROVE  LET s == SourceOf[c] IN
         /\ TypeOK /\ s \in Sources /\ clock \in Nat /\ 1 <= clock
         /\ sources[s] = info[c] /\ info[c] \in InfoIds /\ info[c] # NoInfo
         /\ Queue(s) = Failures(c) /\ WaitUntil(s) = heap[info[c]].waitUntil
         /\ Failures(c) \in Seq(Nat) /\ Len(Failures(c)) \in Nat
         /\ clock <= arrived[c] + MaxService
<1>1. TypeOK /\ SourceOf[c] \in Sources /\ 1 <= clock
  BY TimedTypes DEF TimedInv, Timed
<1>2. sources[SourceOf[c]] = info[c] /\ clock <= arrived[c] + MaxService
  BY DEF TimedInv, HonourInv, Known, Young, InFlight
<1>3. info[c] \in InfoIds /\ info[c] # NoInfo
  BY <1>1 DEF TypeOK
<1>. QED  BY <1>1, <1>2, <1>3, TimedTypes DEF Queue, WaitUntil, Failures, TypeOK

\* A sequence is its last element after the others.
LEMMA AllButLast ==
  ASSUME NEW q \in Seq(Nat), q # <<>>
  PROVE  /\ Append(SubSeq(q, 1, Len(q) - 1), q[Len(q)]) = q
         /\ SubSeq(q, 1, Len(q) - 1) \in Seq(Nat)
         /\ Len(SubSeq(q, 1, Len(q) - 1)) = Len(q) - 1
<1>. DEFINE front == SubSeq(q, 1, Len(q) - 1)
<1>1. Len(q) \in Nat /\ Len(q) >= 1
  BY TailLen
<1>2. q[Len(q)] \in Nat
  BY <1>1, ElementOfSeq
<1>3. /\ front \in Seq(Nat) /\ Len(front) = Len(q) - 1
      /\ \A k \in 1 .. Len(q) - 1 : front[k] = q[k]
  <2>1. \A k \in 1 .. Len(q) - 1 : q[k] \in Nat
    BY <1>1, ElementOfSeq
  <2>2. Len(q) - 1 \in Int
    BY <1>1
  <2>3. front \in Seq(Nat)
    BY <2>1, <2>2, SubSeqProperties
  <2>4. Len(front) = IF 1 <= Len(q) - 1 THEN (Len(q) - 1) - 1 + 1 ELSE 0
    BY <2>1, <2>2, SubSeqProperties
  <2>5. \A k \in 1 .. (Len(q) - 1) - 1 + 1 : front[k] = q[1 + k - 1]
    BY <2>1, <2>2, SubSeqProperties
  <2>. HIDE DEF front
  <2>6. Len(front) = Len(q) - 1
    <3>1. \A n \in Nat : n >= 1 => (IF 1 <= n - 1 THEN (n - 1) - 1 + 1 ELSE 0) = n - 1
      OBVIOUS
    <3>. QED  BY <1>1, <2>4, <3>1
  <2>7. \A k \in 1 .. Len(q) - 1 : k \in 1 .. (Len(q) - 1) - 1 + 1 /\ 1 + k - 1 = k
    BY <1>1
  <2>. QED  BY <2>3, <2>5, <2>6, <2>7
<1>. HIDE DEF front
<1>5. Append(front, q[Len(q)]) \in Seq(Nat) /\ Len(Append(front, q[Len(q)])) = Len(q)
  BY <1>1, <1>2, <1>3
<1>6. \A k \in 1 .. Len(q) : Append(front, q[Len(q)])[k] = q[k]
  <2>1. /\ \A k \in 1 .. Len(front) : Append(front, q[Len(q)])[k] = front[k]
        /\ Append(front, q[Len(q)])[Len(front) + 1] = q[Len(q)]
    BY <1>2, <1>3, AppendProperties
  <2>2. \A k \in 1 .. Len(q) : k \in 1 .. Len(q) - 1 \/ k = Len(q)
    BY <1>1
  <2>. QED  BY <1>1, <1>3, <2>1, <2>2
<1>7. Append(front, q[Len(q)]) = q
  BY <1>5, <1>6, SeqEqual
<1>. QED  BY <1>3, <1>7 DEF front

\* The elements of a sequence without its last.
LEMMA FrontElements ==
  ASSUME NEW q \in Seq(Nat), q # <<>>,
         NEW k \in DOMAIN SubSeq(q, 1, Len(q) - 1)
  PROVE  k \in 1 .. Len(q) /\ SubSeq(q, 1, Len(q) - 1)[k] = q[k]
<1>. DEFINE front == SubSeq(q, 1, Len(q) - 1)
<1>1. /\ Append(front, q[Len(q)]) = q /\ front \in Seq(Nat) /\ Len(front) = Len(q) - 1
  BY AllButLast
<1>2. Len(q) \in Nat /\ Len(q) >= 1
  BY TailLen
<1>. HIDE DEF front
<1>3. k \in 1 .. Len(front)
  BY <1>1 DEF front
<1>4. q[Len(q)] \in Nat
  BY <1>2, ElementOfSeq
<1>5. Append(front, q[Len(q)])[k] = front[k]
  BY <1>1, <1>3, <1>4, AppendProperties
<1>. QED  BY <1>1, <1>2, <1>3, <1>5 DEF front

\* The instants of a request that is served are recent for the throttle.
LEMMA LatelyOwn ==
  ASSUME TimedInv, OwnAddresses, NEW c \in Conns, SourceOf[c] \notin erased,
         pc[c] \in {"check", "pop"}
  PROVE  LET q == Failures(c) IN
         /\ q # <<>> /\ Len(q) \in 1 .. Limit /\ q \in Seq(Nat) /\ Limit \in Nat
         /\ q[Len(q)] \in Promise!Lately
         /\ noted[c] \in Promise!Lately /\ noted[c] <= q[Len(q)]
         /\ Append(SubSeq(q, 1, Len(q) - 1), q[Len(q)]) = q
         /\ SubSeq(q, 1, Len(q) - 1) \in Seq(Nat)
         /\ Len(SubSeq(q, 1, Len(q) - 1)) = Len(q) - 1
<1>. DEFINE q == Failures(c)
<1>1. /\ q \in Seq(Nat) /\ Len(q) \in Nat /\ info[c] \in InfoIds
      /\ clock \in Nat /\ 1 <= clock /\ clock <= arrived[c] + MaxService
      /\ MaxService \in Nat /\ arrived[c] \in Nat /\ noted[c] \in Nat
  BY ChannelOwn, HonourNumbers DEF TimedInv
<1>2. /\ 1 <= noted[c] /\ arrived[c] <= noted[c]
      /\ q # <<>> /\ noted[c] <= q[Len(q)] /\ q[Len(q)] <= clock
  BY DEF TimedInv, Timed, Counting
<1>3. Holds(SourceOf[c], info[c])
  BY DEF Holds
<1>4. Len(q) <= Limit
  BY <1>1, <1>3, TimedTypes DEF RoomInv, Room, Failures
<1>5. Len(q) >= 1 /\ q[Len(q)] \in Nat
  BY <1>1, <1>2, TailLen, ElementOfSeq
<1>6. Limit \in Nat
  BY BehaviorAssumption DEF Limit
<1>. HIDE DEF q
<1>7. q[Len(q)] \in Promise!Lately /\ noted[c] \in Promise!Lately
  <2>1. \A x \in Nat : 1 <= x /\ arrived[c] <= x /\ x <= clock => x \in Promise!Lately
    BY <1>1 DEF Promise!Lately
  <2>2. arrived[c] <= q[Len(q)] /\ 1 <= q[Len(q)] /\ noted[c] <= clock
    BY <1>1, <1>2, <1>5
  <2>. QED  BY <1>1, <1>2, <1>5, <2>1, <2>2
<1>8. /\ Append(SubSeq(q, 1, Len(q) - 1), q[Len(q)]) = q
      /\ SubSeq(q, 1, Len(q) - 1) \in Seq(Nat)
      /\ Len(SubSeq(q, 1, Len(q) - 1)) = Len(q) - 1
  BY <1>1, <1>2, AllButLast
<1>. QED  BY <1>1, <1>2, <1>4, <1>5, <1>6, <1>7, <1>8 DEF q

\* What the others show while a goroutine works on its channel.
LEMMA OthersQuiet ==
  ASSUME TimedInv, OwnAddresses, NEW c \in Conns, Arrive(c) \/ Step(c), sources' = sources,
         NEW t \in Sources, t # SourceOf[c]
  PROVE  /\ Recent(t)' = Recent(t) /\ Until(t)' = Until(t)
         /\ At(t, {"ban"})' <=> At(t, {"ban"})
  BY ShownOthers

\* Nothing shows of what a goroutine does with an entry that was deleted.
LEMMA OrphanShown ==
  ASSUME TimedInv, OwnAddresses, NEW c \in Conns, SourceOf[c] \in erased,
         Send(c) \/ Check(c) \/ Pop(c) \/ Ban(c) \/ Drain(c) \/ Recv(c)
  PROVE  UNCHANGED Promise!vars
<1>. DEFINE s == SourceOf[c]
<1>1. /\ TypeOK /\ s \in Sources /\ sources' = sources /\ clock' = clock
      /\ info' = info /\ pc[c] \in {"send", "check", "pop", "ban", "drain", "recv"}
      /\ Arrive(c) \/ Step(c)
  BY TimedTypes DEF Send, Check, Pop, Ban, Drain, Recv, Runs, Step, shared, locals
<1>2. sources[s] = NoInfo /\ info[c] # NoInfo
  BY <1>1 DEF TimedInv, HonourInv, Remembered, TypeOK
<1>3. Queue(s) = <<>> /\ Queue(s)' = <<>> /\ WaitUntil(s) = 0 /\ WaitUntil(s)' = 0
  BY <1>1, <1>2 DEF Queue, WaitUntil
<1>4. ~At(s, {"ban"}) /\ ~At(s, {"ban"})'
  BY <1>1, <1>2, AtOwn
<1>5. Recent(s)' = Recent(s) /\ Until(s)' = Until(s)
  BY <1>1, <1>2, <1>3, RecentOwn DEF Until
<1>. QED  BY <1>1, <1>4, <1>5, OthersQuiet, NothingShown

\* A failure just recorded does not count yet.
LEMMA SendShown ==
  ASSUME TimedInv, OwnAddresses, NEW c \in Conns, SourceOf[c] \notin erased, Send(c)
  PROVE  UNCHANGED Promise!vars
<1>. DEFINE s == SourceOf[c]  q == Failures(c)
<1>1. pc[c] = "send" /\ sources' = sources /\ clock' = clock /\ info' = info /\ (Arrive(c) \/ Step(c))
  BY DEF Send, Runs, Step, locals
<1>2. /\ TypeOK /\ s \in Sources /\ Queue(s) = q /\ q \in Seq(Nat) /\ Len(q) \in Nat
      /\ clock \in Nat /\ sources[s] = info[c] /\ info[c] \in InfoIds /\ info[c] # NoInfo
  BY <1>1, ChannelOwn
<1>3. pc'[c] = "check"
  BY <1>2 DEF Send, Goto, TypeOK
<1>4. Queue(s)' = Append(q, clock) /\ WaitUntil(s)' = WaitUntil(s)
  BY <1>1, <1>2 DEF Send, Queue, WaitUntil, Failures, TypeOK, SourceInfo
<1>5. SubSeq(Append(q, clock), 1, Len(Append(q, clock)) - 1) = q
  BY <1>2
<1>6. Recent(s)' = Recent(s)
  BY <1>1, <1>2, <1>3, <1>4, <1>5, RecentOwn
<1>7. Until(s)' = Until(s) /\ (At(s, {"ban"})' <=> At(s, {"ban"}))
  BY <1>1, <1>3, <1>4, AtOwn DEF Until
<1>. QED  BY <1>1, <1>6, <1>7, OthersQuiet, NothingShown

\* Below the limit the failure counts from then on; at the limit it is still to be
\* judged.
LEMMA CheckShown ==
  ASSUME TimedInv, OwnAddresses, NEW c \in Conns, SourceOf[c] \notin erased, Check(c)
  PROVE  Promise!Fail(SourceOf[c]) \/ UNCHANGED Promise!vars
<1>. DEFINE s == SourceOf[c]  q == Failures(c)
<1>1. /\ pc[c] = "check" /\ sources' = sources /\ heap' = heap /\ clock' = clock /\ info' = info
      /\ Arrive(c) \/ Step(c)
  BY DEF Check, Runs, Step, shared, locals
<1>2. /\ TypeOK /\ s \in Sources /\ Queue(s) = q /\ sources[s] = info[c]
  BY <1>1, ChannelOwn
<1>3. CASE Len(q) = Limit
  <2>1. pc'[c] = "pop"
    BY <1>2, <1>3, TimedTypes DEF Check, Goto, TypeOK, Limit
  <2>. QED  BY <1>1, <2>1, QuietShown
<1>4. CASE Len(q) # Limit
  <2>1. pc'[c] = "prune"
    BY <1>2, <1>4, TimedTypes DEF Check, Goto, TypeOK, Limit
  <2>2. Queue(s)' = q /\ WaitUntil(s)' = WaitUntil(s)
    BY <1>1, <1>2 DEF Queue, WaitUntil
  <2>3. Recent(s) = SubSeq(q, 1, Len(q) - 1) /\ Recent(s)' = q
    <3>1. Recent(s) = SubSeq(Queue(s), 1, Len(Queue(s)) - 1)
      BY <1>1, <1>2, RecentOwn
    <3>2. Recent(s)' = Queue(s)'
      BY <2>1, RecentOwn
    <3>. QED  BY <1>2, <2>2, <3>1, <3>2
  <2>4. /\ q[Len(q)] \in Promise!Lately
        /\ Recent(s)' = Append(Recent(s), q[Len(q)])
        /\ Len(Recent(s)) + 1 < Limit
    BY <1>1, <1>4, <2>3, LatelyOwn
  <2>5. Until(s)' = Until(s) /\ ~At(s, {"ban"}) /\ ~At(s, {"ban"})'
    BY <1>1, <2>1, <2>2, AtOwn DEF Until
  <2>. QED  BY <1>1, <1>2, <2>4, <2>5, OthersQuiet, FailShown DEF Limit
<1>. QED  BY <1>3, <1>4

\* At the limit the oldest failure decides: a ban, or it stops counting.
LEMMA PopShown ==
  ASSUME TimedInv, OwnAddresses, NEW c \in Conns, SourceOf[c] \notin erased, Pop(c)
  PROVE  Promise!FailAtLimit(SourceOf[c])
<1>. DEFINE s == SourceOf[c]  q == Failures(c)  front == SubSeq(q, 1, Len(q) - 1)
<1>1. /\ pc[c] = "pop" /\ sources' = sources /\ clock' = clock /\ info' = info
      /\ Arrive(c) \/ Step(c)
  BY DEF Pop, Runs, Step, locals
<1>2. /\ TypeOK /\ s \in Sources /\ Queue(s) = q
      /\ sources[s] = info[c] /\ info[c] \in InfoIds /\ info[c] # NoInfo
  BY <1>1, ChannelOwn
<1>3. /\ Queue(s)' = Tail(q) /\ WaitUntil(s)' = WaitUntil(s)
  BY <1>1, <1>2 DEF Pop, Queue, WaitUntil, Failures, TypeOK, SourceInfo
<1>4. Len(q) = Limit
  BY <1>1, TimedTypes DEF RoomInv, Room
<1>5. /\ q[Len(q)] \in Promise!Lately /\ noted[c] \in Promise!Lately
      /\ noted[c] <= q[Len(q)] /\ Append(front, q[Len(q)]) = q
      /\ Len(front) = Len(q) - 1 /\ Limit \in Nat
  BY <1>1, LatelyOwn
<1>6. Recent(s) = front /\ Len(Recent(s)) + 1 = Limit
  <2>1. Recent(s) = front
    BY <1>1, <1>2, RecentOwn
  <2>. HIDE DEF front, q
  <2>. QED  BY <2>1, <1>4, <1>5
<1>7. Until(s)' = Until(s) /\ ~At(s, {"ban"})
  <2>1. ~At(s, {"ban"})
    BY <1>1, AtOwn
  <2>. QED  BY <1>1, <1>3, <2>1 DEF Until
<1>8. \/ /\ Head(q) + PeriodOfFailedBinds > noted[c]
         /\ At(s, {"ban"})' /\ Recent(s)' = <<>>
      \/ /\ ~(Head(q) + PeriodOfFailedBinds > noted[c])
         /\ ~At(s, {"ban"})' /\ Recent(s)' = Tail(q)
  <2>1. CASE Head(q) + PeriodOfFailedBinds > noted[c]
    <3>1. pc'[c] = "ban"
      BY <1>2, <2>1 DEF Pop, Goto, TypeOK
    <3>2. At(s, {"ban"})'
      BY <1>1, <1>2, <3>1, AtOwn
    <3>3. Recent(s)' = <<>>
      BY <1>1, <1>2, <3>1, RecentOwn
    <3>. QED  BY <2>1, <3>2, <3>3
  <2>2. CASE ~(Head(q) + PeriodOfFailedBinds > noted[c])
    <3>1. pc'[c] = "prune"
      BY <1>2, <2>2 DEF Pop, Goto, TypeOK
    <3>2. ~At(s, {"ban"})'
      BY <3>1, AtOwn
    <3>3. Recent(s)' = Queue(s)'
      BY <3>1, RecentOwn
    <3>. QED  BY <1>3, <2>2, <3>2, <3>3
  <2>. QED  BY <2>1, <2>2
<1>9. ASSUME NEW t \in Sources \ {s}
      PROVE  /\ Recent(t)' = Recent(t) /\ Until(t)' = Until(t)
             /\ At(t, {"ban"})' <=> At(t, {"ban"})
  BY <1>1, OthersQuiet
<1>10. Append(Recent(s), q[Len(q)]) = q
  BY <1>5, <1>6
<1>. HIDE DEF q, front
<1>. QED  BY <1>1, <1>2, <1>5, <1>6, <1>7, <1>8, <1>9, <1>10, FailAtLimitShown DEF Limit

\* The ban takes effect when waitUntil is written.
LEMMA BanShown ==
  ASSUME TimedInv, OwnAddresses, NEW c \in Conns, SourceOf[c] \notin erased, Ban(c)
  PROVE  Promise!Impose(SourceOf[c])
<1>. DEFINE s == SourceOf[c]
<1>1. /\ pc[c] = "ban" /\ sources' = sources /\ clock' = clock /\ info' = info
      /\ Arrive(c) \/ Step(c)
  BY DEF Ban, Runs, Step, locals
<1>2. /\ TypeOK /\ s \in Sources /\ clock \in Nat /\ BlockFailedBindsFor \in Nat
      /\ sources[s] = info[c] /\ info[c] \in InfoIds /\ info[c] # NoInfo
  BY <1>1, ChannelOwn, TimeAssumption
<1>3. pc'[c] = "drain"
  BY <1>2 DEF Ban, Goto, TypeOK
<1>4. WaitUntil(s)' = clock + BlockFailedBindsFor
  BY <1>1, <1>2 DEF Ban, WaitUntil, TypeOK, SourceInfo
<1>5. Until(s)' = IF BlockFailedBindsFor > 0 THEN clock + BlockFailedBindsFor ELSE 0
  BY <1>1, <1>2, <1>4 DEF Until
<1>6. Recent(s)' = Recent(s) /\ At(s, {"ban"}) /\ ~At(s, {"ban"})'
  <2>1. Recent(s)' = <<>> /\ Recent(s) = <<>>
    BY <1>1, <1>2, <1>3, RecentOwn
  <2>2. At(s, {"ban"}) /\ ~At(s, {"ban"})'
    BY <1>1, <1>2, <1>3, AtOwn
  <2>. QED  BY <2>1, <2>2
<1>7. ASSUME NEW t \in Sources \ {s}
      PROVE  /\ Recent(t)' = Recent(t) /\ Until(t)' = Until(t)
             /\ At(t, {"ban"})' <=> At(t, {"ban"})
  BY <1>1, OthersQuiet
<1>. QED  BY <1>1, <1>2, <1>5, <1>6, <1>7, ImposeShown

\* Emptying the channel shows nothing: its failures stopped counting with the ban.
LEMMA DrainShown ==
  ASSUME TimedInv, OwnAddresses, NEW c \in Conns, SourceOf[c] \notin erased, Drain(c) \/ Recv(c)
  PROVE  UNCHANGED Promise!vars
<1>. DEFINE s == SourceOf[c]
<1>1. /\ pc[c] \in {"drain", "recv"} /\ sources' = sources /\ clock' = clock /\ info' = info
      /\ Arrive(c) \/ Step(c)
  BY DEF Drain, Recv, Runs, Step, shared, locals
<1>2. /\ TypeOK /\ s \in Sources /\ Queue(s) = Failures(c)
      /\ sources[s] = info[c] /\ info[c] \in InfoIds /\ info[c] # NoInfo
  BY <1>1, ChannelOwn
<1>3. WaitUntil(s)' = WaitUntil(s)
  BY <1>1, <1>2 DEF Drain, Recv, shared, WaitUntil, TypeOK, SourceInfo
<1>4. Recent(s)' = Recent(s)
  <2>1. CASE pc'[c] \in {"drain", "recv"}
    BY <1>1, <1>2, <2>1, RecentOwn
  <2>2. CASE pc'[c] \notin {"drain", "recv"}
    <3>1. Failures(c) = <<>> /\ heap' = heap /\ pc'[c] = "prune"
      BY <1>2, <2>2 DEF Drain, Recv, Goto, shared, TypeOK
    <3>2. Queue(s)' = <<>>
      BY <1>1, <1>2, <3>1 DEF Queue
    <3>3. Recent(s)' = Queue(s)' /\ Recent(s) = <<>>
      BY <1>1, <1>2, <3>1, RecentOwn
    <3>. QED  BY <3>2, <3>3
  <2>. QED  BY <2>1, <2>2
<1>5. At(s, {"ban"})' <=> At(s, {"ban"})
  <2>1. pc'[c] # "ban"
    BY <1>2 DEF Drain, Recv, Goto, TypeOK
  <2>. QED  BY <1>1, <2>1, AtOwn
<1>6. Until(s)' = Until(s)
  BY <1>1, <1>3 DEF Until
<1>. QED  BY <1>1, <1>4, <1>5, <1>6, OthersQuiet, NothingShown

\* The pruning loop's test shows nothing.
LEMMA SweepShown ==
  ASSUME TimedInv, OwnAddresses, NEW c \in Conns, Sweep(c)
  PROVE  UNCHANGED Promise!vars
<1>1. /\ TypeOK /\ pc[c] = "sweep" /\ heap' = heap /\ sources' = sources
      /\ (Arrive(c) \/ Step(c))
  BY TimedTypes DEF Sweep, Runs, Step, shared
<1>2. pc'[c] \in {"sweep", "delete", "idle"}
  BY <1>1 DEF Sweep, NextKey, Goto, Answer, TypeOK
<1>. QED  BY <1>1, <1>2, QuietShown

\* Its delete forgets an address of which the throttle allows it, or does nothing.
LEMMA DeleteShown ==
  ASSUME TimedInv, OwnAddresses, NEW c \in Conns, Delete(c)
  PROVE  (\E s \in Sources : Promise!Forget(s)) \/ UNCHANGED Promise!vars
<1>1. /\ TypeOK /\ pc[c] = "delete" /\ heap' = heap /\ clock' = clock
      /\ (Arrive(c) \/ Step(c)) /\ SourceOf[c] \in Sources
  BY TimedTypes DEF Delete, Runs, Step
<1>2. PICK s \in Sources :
        /\ doomed[c] = {s}
        /\ sources[s] # NoInfo =>
             LET q == heap[sources[s]].failures
                 end == heap[sources[s]].waitUntil
             IN /\ \A k \in 1 .. Len(q) :
                     q[k] + PeriodOfFailedBinds <= clock \/ q[k] >= arrived[c]
                /\ end <= clock \/ end >= arrived[c] + BlockFailedBindsFor
  BY <1>1 DEF TimedInv, Timed, Doomed
<1>3. pc'[c] \in {"sweep", "idle"}
  BY <1>1 DEF Delete, NextKey, Goto, Answer, TypeOK
<1>4. /\ sources'[s] = NoInfo
      /\ \A t \in Sources \ {s} : sources'[t] = sources[t]
  BY <1>2 DEF Delete
<1>5. CASE sources[s] = NoInfo
  <2>1. sources' = sources
    BY <1>1, <1>4, <1>5 DEF TypeOK, Delete
  <2>. QED  BY <1>1, <1>3, <2>1, QuietShown
<1>6. CASE sources[s] # NoInfo
  <2>1. /\ sources[s] \in InfoIds /\ Queue(s) = heap[sources[s]].failures
        /\ WaitUntil(s) = heap[sources[s]].waitUntil /\ WaitUntil(s) \in Nat
        /\ Queue(s) \in Seq(Nat) /\ clock \in Nat /\ arrived[c] \in Nat
        /\ MaxService \in Nat /\ BlockFailedBindsFor \in Nat /\ PeriodOfFailedBinds \in Nat
    BY <1>1, <1>6, TimedTypes, HonourNumbers DEF TypeOK, Queue, WaitUntil, TimedInv
  <2>2. clock <= arrived[c] + MaxService
    BY <1>1 DEF TimedInv, HonourInv, Young, InFlight
  <2>3. Until(s) = 0 \/ Until(s) >= clock - MaxService + BlockFailedBindsFor
    <3>1. WaitUntil(s) <= clock \/ WaitUntil(s) >= arrived[c] + BlockFailedBindsFor
      BY <1>2, <1>6, <2>1
    <3>. QED  BY <2>1, <2>2, <3>1 DEF Until
  <2>4. \A k \in 1 .. Len(Queue(s)) :
          \/ Queue(s)[k] + PeriodOfFailedBinds <= clock
          \/ Queue(s)[k] >= clock - MaxService
    <3>1. SUFFICES ASSUME NEW k \in 1 .. Len(Queue(s))
                   PROVE  \/ Queue(s)[k] + PeriodOfFailedBinds <= clock
                          \/ Queue(s)[k] >= clock - MaxService
      OBVIOUS
    <3>2. Queue(s)[k] \in Nat
      BY <2>1, ElementOfSeq
    <3>3. \/ Queue(s)[k] + PeriodOfFailedBinds <= clock
          \/ Queue(s)[k] >= arrived[c]
      BY <1>2, <1>6, <2>1

    <3>4. \A x \in Nat : x >= arrived[c] => x >= clock - MaxService
      BY <2>1, <2>2
    <3>. QED  BY <3>2, <3>3, <3>4
  <2>5. \A k \in DOMAIN Recent(s) :
          \/ Recent(s)[k] + PeriodOfFailedBinds <= clock
          \/ Recent(s)[k] >= clock - MaxService
    <3>1. CASE Recent(s) = Queue(s)
      <4>1. DOMAIN Queue(s) = 1 .. Len(Queue(s))
        BY <2>1
      <4>. QED  BY <2>4, <3>1, <4>1
    <3>2. CASE Recent(s) = <<>>
      BY <3>2
    <3>3. CASE Queue(s) # <<>> /\ Recent(s) = SubSeq(Queue(s), 1, Len(Queue(s)) - 1)
      <4>1. ASSUME NEW k \in DOMAIN Recent(s)
            PROVE  k \in 1 .. Len(Queue(s)) /\ Recent(s)[k] = Queue(s)[k]
        BY <2>1, <3>3, FrontElements
      <4>. QED  BY <2>4, <4>1
    <3>4. CASE Queue(s) = <<>> /\ Recent(s) = SubSeq(Queue(s), 1, Len(Queue(s)) - 1)
      <4>1. Recent(s) = <<>>
        BY <3>4
      <4>. QED  BY <4>1
    <3>. QED  BY <3>1, <3>2, <3>3, <3>4 DEF Recent
  <2>6. ASSUME NEW labels, labels \subseteq {"check", "pop", "ban", "drain", "recv"}
        PROVE  ~At(s, labels)'
    <3>1. TypeOK'
      BY <1>1, TypeStep DEF Next
    <3>2. \A d \in Conns : pc'[d] \in labels => info'[d] # NoInfo
      BY <2>6, <3>1 DEF TypeOK
    <3>. QED  BY <1>4, <3>2 DEF At
  <2>7. ~At(s, {"ban"})' /\ ~At(s, {"check", "pop"})' /\ ~At(s, {"ban", "drain", "recv"})'
    BY <2>6
  <2>8. Recent(s)' = <<>> /\ Until(s)' = 0
    BY <1>4, <2>7 DEF Recent, Queue, Until, WaitUntil
  <2>9. ASSUME NEW t \in Sources \ {s}
        PROVE  /\ Recent(t)' = Recent(t) /\ Until(t)' = Until(t)
               /\ At(t, {"ban"})' <=> At(t, {"ban"})
    <3>1. sources'[t] = sources[t]
      BY <1>4
    <3>2. CASE t # SourceOf[c]
      BY <1>1, <3>1, <3>2, ShownOthers
    <3>3. CASE t = SourceOf[c]
      <4>1. Queue(t)' = Queue(t) /\ WaitUntil(t)' = WaitUntil(t)
        BY <1>1, <3>1 DEF Queue, WaitUntil
      <4>. QED  BY <1>1, <1>3, <3>3, <4>1, RecentOwn, AtOwn DEF Until
    <3>. QED  BY <3>2, <3>3
  <2>10. Promise!Forget(s)
    BY <1>1, <2>3, <2>5, <2>7, <2>8, <2>9, ForgetShown
  <2>. QED  BY <2>10
<1>. QED  BY <1>5, <1>6

\* Time passes for the throttle when it passes for the goroutines.
LEMMA ClockShown ==
  ASSUME TimedInv, Tick
  PROVE  Promise!Tick
<1>1. /\ clock' = clock + 1 /\ clock \in Nat /\ TypeOK
      /\ UNCHANGED <<sources, heap, pc, info>>
  BY TimedTypes DEF Tick, TypeOK, shared, locals, history
<1>2. ASSUME NEW t \in Sources
      PROVE  /\ Recent(t)' = Recent(t)
             /\ At(t, {"ban"})' <=> At(t, {"ban"})
             /\ Until(t)' = IF Until(t) > clock' THEN Until(t) ELSE 0
  <2>1. Queue(t)' = Queue(t) /\ WaitUntil(t)' = WaitUntil(t)
    BY <1>1 DEF Queue, WaitUntil
  <2>2. \A labels : At(t, labels)' <=> At(t, labels)
    BY <1>1 DEF At
  <2>3. WaitUntil(t) \in Nat
    BY <1>1 DEF WaitUntil, TypeOK, SourceInfo
  <2>4. Until(t)' = IF Until(t) > clock' THEN Until(t) ELSE 0
    BY <1>1, <2>1, <2>3 DEF Until
  <2>. QED  BY <2>1, <2>2, <2>4 DEF Recent
<1>. QED  BY <1>1, <1>2, TickShown

-----------------------------------------------------------------------------
(* The refinement.                                                         *)

\* The initial states map to the initial state of the throttle.
LEMMA PromiseInit == Init => Promise!Init
<1>. SUFFICES ASSUME Init PROVE Promise!Init
  OBVIOUS
<1>1. /\ clock = 1 /\ \A s \in Sources : sources[s] = NoInfo
      /\ \A c \in Conns : pc[c] = "idle"
  BY DEF Init
<1>2. \A s \in Sources : \A labels : "idle" \notin labels => ~At(s, labels)
  BY <1>1 DEF At
<1>3. \A s \in Sources : Recent(s) = <<>> /\ Until(s) = 0
  BY <1>1, <1>2 DEF Recent, Queue, Until, WaitUntil
<1>. QED  BY <1>1, <1>2, <1>3 DEF Promise!Init

\* Every step maps to a step of the throttle or to a stutter.
LEMMA PromiseStep ==
  ASSUME TimedInv, OwnAddresses, LongMemory, LongCount, [Next]_vars
  PROVE  UNCHANGED Promise!vars \/ Promise!Next
<1>1. ASSUME NEW c \in Conns, Arrive(c) \/ Step(c)
      PROVE  UNCHANGED Promise!vars \/ Promise!Next
  <2>0. SourceOf[c] \in Sources
    BY SourceAssumption
  <2>1. CASE Insert(c)
    BY <2>1, InsertShown
  <2>2. CASE Send(c)
    BY <2>2, SendShown, OrphanShown
  <2>3. CASE Check(c)
    BY <2>0, <2>3, CheckShown, OrphanShown DEF Promise!Next
  <2>4. CASE Pop(c)
    BY <2>0, <2>4, PopShown, OrphanShown DEF Promise!Next
  <2>5. CASE Ban(c)
    BY <2>0, <2>5, BanShown, OrphanShown DEF Promise!Next
  <2>6. CASE Drain(c) \/ Recv(c)
    BY <2>6, DrainShown, OrphanShown
  <2>7. CASE Sweep(c)
    BY <2>7, SweepShown
  <2>8. CASE Delete(c)
    BY <2>8, DeleteShown DEF Promise!Next
  <2>. QED  BY <1>1, <2>1, <2>2, <2>3, <2>4, <2>5, <2>6, <2>7, <2>8, QuietSteps DEF Step
<1>2. CASE Tick
  BY <1>2, ClockShown DEF Promise!Next
<1>3. CASE UNCHANGED <<clock, sources, heap, pc, info>>
  <2>1. \A t \in Sources : /\ Queue(t)' = Queue(t) /\ WaitUntil(t)' = WaitUntil(t)
                           /\ \A labels : At(t, labels)' <=> At(t, labels)
    BY <1>3 DEF Queue, WaitUntil, At
  <2>2. \A t \in Sources : Recent(t)' = Recent(t) /\ Until(t)' = Until(t)
    BY <1>3, <2>1 DEF Recent, Until
  <2>. QED  BY <1>3, <2>1, <2>2, NothingShown
<1>4. ~Reload
  <2>1. cfg = InitBehavior /\ Behaviors = {InitBehavior}
    BY TimedTypes DEF OwnAddresses
  <2>. QED  BY <2>1 DEF Reload
<1>. QED  BY <1>1, <1>2, <1>3, <1>4 DEF Next, Abort, vars, shared, locals, history

\* With addresses of their own, a limit that is not reloaded and sources kept long
\* enough, the goroutines, the table and the channels together do what Throttle says:
\* failures are counted once, each by its own address, the oldest gives way at the
\* limit, a ban takes effect once and lasts, and pruning forgets nothing that still
\* counts and is older than the request that prunes.
THEOREM GoroutinesKeepThePromise ==
  ASSUME OwnAddresses, LongMemory, LongCount
  PROVE  Spec => ImplementsThrottle
<1>1. Init => TimedInv /\ Promise!Init
  BY TimedInvInit, PromiseInit
<1>2. TimedInv /\ [Next]_vars => TimedInv'
  BY TimedInvStep
<1>3. TimedInv /\ [Next]_vars =>
        [UNCHANGED Promise!vars \/ Promise!Next]_(Promise!vars)
  BY PromiseStep
<1>. QED  BY <1>1, <1>2, <1>3, PTL DEF Spec, ImplementsThrottle, Promise!Spec

===============================================================================
