----------------------------- MODULE FailedBinds -----------------------------
(***************************************************************************)
(* The failed-bind throttle of v2/pkg/handler/ldapopshelper.go: the table  *)
(* `sources`, isInTimeout and maybePutInTimeout, as the goroutines of the  *)
(* front end run them.  There is one goroutine per client connection; it   *)
(* serves one request at a time; the table, the sourceInfo records and     *)
(* their `failures` channels are shared by all of them without a lock.     *)
(*                                                                         *)
(* One action is one write to shared state (a map operation, a channel     *)
(* operation, a field of a sourceInfo), or one read that a later action    *)
(* relies on, together with the local work around it.  Two reads in a row  *)
(* of which nothing is kept but the outcome of the second are one action:  *)
(* the step at which a pruning loop comes to an entry and tests its age.   *)
(* Time is a counter of clock ticks.                                       *)
(***************************************************************************)
EXTENDS Integers, Sequences, FiniteSets

CONSTANTS
    Conns,                  \* client connections (goroutines)
    Sources,                \* client addresses, the keys of the table
    SourceOf,               \* getAddr: connection -> address without its port
    InfoIds,                \* heap cells a sourceInfo can live in
    NoInfo,                 \* nil pointer / key absent
    Behaviors,              \* values of [behaviors] the configuration may take
    InitBehavior,           \* the one loaded at start
    PeriodOfFailedBinds,
    BlockFailedBindsFor,
    PruneSourcesOlderThan,
    MaxService,             \* bound: ticks a request that is not blocked takes
    MaxTime,                \* bound: last instant of the clock
    MaxStrikes              \* bound: wrong passwords sent from each address

ASSUME SourceAssumption == SourceOf \in [Conns -> Sources]
ASSUME ConnAssumption == IsFiniteSet(Conns)
ASSUME InfoAssumption == InfoIds \subseteq Nat /\ NoInfo \notin InfoIds
ASSUME BehaviorAssumption ==
    /\ Behaviors \subseteq [LimitFailedBinds : BOOLEAN, NumberOfFailedBinds : Nat]
    /\ InitBehavior \in Behaviors
ASSUME TimeAssumption ==
    /\ PeriodOfFailedBinds \in Nat
    /\ BlockFailedBindsFor \in Nat
    /\ PruneSourcesOlderThan \in Nat
    /\ MaxService \in Nat
    /\ MaxTime \in Nat
    /\ \A s \in Sources : MaxStrikes[s] \in Nat

VARIABLES
    clock,          \* time.Now()
    cfg,            \* h.GetCfg().Behaviors, replaced by a configuration reload
    sources,        \* the map: address -> cell of its sourceInfo, or NoInfo
    heap,           \* the sourceInfo records
    nextPruning,    \* LDAPOpsHelper.nextPruning
    up,             \* FALSE once the Go runtime has aborted the process
    pc,             \* where each goroutine is
    info,           \* its local `info`
    arrived,        \* `now` of isInTimeout
    noted,          \* `now` of maybePutInTimeout
    todo,           \* keys its pruning loop has still to visit
    doomed,         \* the key that loop has found stale and will delete next
    strikes,        \* history: wrong passwords received from each address
    banEnd,         \* history: end of the last ban imposed on each address
    erased          \* history: addresses whose entry was deleted although it
                    \* had been seen since it was found stale, and that have
                    \* had no new one yet

shared == <<sources, heap, nextPruning>>
locals == <<info, arrived, noted, todo, doomed>>
history == <<strikes, banEnd, erased>>
vars == <<clock, cfg, shared, up, pc, locals, history>>

-----------------------------------------------------------------------------
PCs == {"idle",
        "lookup", "insert", "touch",                       \* isInTimeout
        "serve",                                           \* Bind or Search
        "note", "send", "check", "pop", "ban", "drain", "recv",
        "prune", "sweep", "delete"}                        \* maybePutInTimeout

SourceInfo == [lastSeen : Nat, waitUntil : Nat,
               size : Nat, failures : Seq(Nat)]

\* Slip: the channel is sized for the failures that are forgiven.
NewInfoSmall(now) ==
    [lastSeen |-> now, waitUntil |-> now,
     size |-> cfg.NumberOfFailedBinds - 1, failures |-> <<>>]

\* make(chan failedBind, NumberOfFailedBinds) and the two times, line 703
NewInfo(now) ==
    [lastSeen |-> now, waitUntil |-> now,
     size |-> cfg.NumberOfFailedBinds, failures |-> <<>>]

\* Cells no table entry and no goroutine refers to.
Free == {i \in InfoIds : /\ \A s \in Sources : sources[s] # i
                         /\ \A c \in Conns : info[c] # i}

Failures(c) == heap[info[c]].failures

\* A goroutine parked on the channel of its source.
Blocked(c) ==
    \/ pc[c] = "send" /\ Len(Failures(c)) >= heap[info[c]].size
    \/ pc[c] \in {"pop", "recv"} /\ Failures(c) = <<>>

\* Slip: a source is stale as soon as it has not been seen just now.
StaleAtOnce(s, now) ==
    /\ sources[s] # NoInfo
    /\ heap[sources[s]].lastSeen < now

\* sourceInfo.lastSeen + PruneSourcesOlderThan is before `now`, line 750
Stale(s, now) ==
    /\ sources[s] # NoInfo
    /\ heap[sources[s]].lastSeen + PruneSourcesOlderThan < now

Init ==
    /\ clock = 1
    /\ cfg = InitBehavior
    /\ sources = [s \in Sources |-> NoInfo]
    /\ heap = [i \in InfoIds |-> [lastSeen |-> 0, waitUntil |-> 0,
                                  size |-> 0, failures |-> <<>>]]
    /\ nextPruning = 0
    /\ up = TRUE
    /\ pc = [c \in Conns |-> "idle"]
    /\ info = [c \in Conns |-> NoInfo]
    /\ arrived = [c \in Conns |-> 0]
    /\ noted = [c \in Conns |-> 0]
    /\ todo = [c \in Conns |-> {}]
    /\ doomed = [c \in Conns |-> {}]
    /\ strikes = [s \in Sources |-> 0]
    /\ banEnd = [s \in Sources |-> 0]
    /\ erased = {}

\* The process is alive and goroutine c is at label l.
Runs(c, l) == up /\ pc[c] = l

Goto(c, l) == pc' = [pc EXCEPT ![c] = l]

\* The request is answered and its locals are gone.
Answer(c) ==
    /\ Goto(c, "idle")
    /\ info' = [info EXCEPT ![c] = NoInfo]
    /\ arrived' = [arrived EXCEPT ![c] = 0]
    /\ noted' = [noted EXCEPT ![c] = 0]
    /\ todo' = [todo EXCEPT ![c] = {}]
    /\ doomed' = [doomed EXCEPT ![c] = {}]

-----------------------------------------------------------------------------
(* isInTimeout, the first thing Bind and Search do.                        *)

\* A bind or search request reaches the handler; `now` is taken.
Arrive(c) ==
    /\ Runs(c, "idle")
    /\ Goto(c, IF cfg.LimitFailedBinds THEN "lookup" ELSE "serve")
    /\ arrived' = [arrived EXCEPT ![c] = clock]
    /\ UNCHANGED <<clock, cfg, shared, up, info, noted, todo, doomed, history>>

\* info, ok := l.sources[remoteAddr]
Lookup(c) ==
    LET found == sources[SourceOf[c]] IN
    /\ Runs(c, "lookup")
    /\ Goto(c, IF found = NoInfo THEN "insert" ELSE "touch")
    /\ info' = [info EXCEPT ![c] = found]
    /\ UNCHANGED <<clock, cfg, shared, up, arrived, noted, todo, doomed, history>>

\* The address was not in the table when this goroutine looked.  What its
\* erased entry held against it is past.
Insert(c) ==
    LET s == SourceOf[c] IN
    /\ Runs(c, "insert")
    /\ \E i \in Free :
         /\ \A j \in Free : i <= j
         /\ heap' = [heap EXCEPT ![i] = NewInfo(arrived[c])]
         /\ sources' = [sources EXCEPT ![s] = i]
    /\ banEnd' = IF s \in erased THEN [banEnd EXCEPT ![s] = 0] ELSE banEnd
    /\ erased' = erased \ {s}
    /\ Goto(c, "serve")
    /\ UNCHANGED <<clock, cfg, nextPruning, up, locals, strikes>>

\* The source is in a timeout: UnwillingToPerform.
Refuse(c) ==
    /\ Runs(c, "touch")
    /\ cfg.LimitFailedBinds
    /\ heap[info[c]].waitUntil > arrived[c]
    /\ heap' = [heap EXCEPT ![info[c]].lastSeen = arrived[c]]
    /\ Answer(c)
    /\ UNCHANGED <<clock, cfg, sources, nextPruning, up, history>>

\* The source is not in a timeout: the request is processed.
Admit(c) ==
    /\ Runs(c, "touch")
    /\ ~(cfg.LimitFailedBinds /\ heap[info[c]].waitUntil > arrived[c])
    /\ heap' = [heap EXCEPT ![info[c]].lastSeen = arrived[c]]
    /\ Goto(c, "serve")
    /\ info' = [info EXCEPT ![c] = NoInfo]
    /\ UNCHANGED <<clock, cfg, sources, nextPruning, up, arrived, noted, todo, doomed, history>>

-----------------------------------------------------------------------------
(* The rest of Bind and Search, as the throttle sees it.                   *)

\* A successful bind.  Nothing in the table changes.
Accept(c) ==
    /\ Runs(c, "serve")
    /\ Answer(c)
    /\ UNCHANGED <<clock, cfg, shared, up, history>>

\* A search, or a bind refused for a reason that is not counted: unknown or
\* ambiguous user, unreadable stored hash, app custom auth, OTP.
Decline(c) ==
    /\ Runs(c, "serve")
    /\ Answer(c)
    /\ UNCHANGED <<clock, cfg, shared, up, history>>

\* The password does not match the stored hash: maybePutInTimeout is called.
WrongPassword(c) ==
    LET s == SourceOf[c] IN
    /\ Runs(c, "serve")
    /\ strikes[s] < MaxStrikes[s]
    /\ strikes' = [strikes EXCEPT ![s] = @ + 1]
    /\ IF cfg.LimitFailedBinds
       THEN /\ Goto(c, "note")
            /\ noted' = [noted EXCEPT ![c] = clock]
            /\ UNCHANGED <<info, arrived, todo, doomed>>
       ELSE Answer(c)
    /\ UNCHANGED <<clock, cfg, shared, up, banEnd, erased>>

-----------------------------------------------------------------------------
(* maybePutInTimeout with noteFailure = true.                              *)

\* Slip: the nil pointer goes unnoticed.
NoteUnchecked(c) ==
    /\ Runs(c, "note")
    /\ Goto(c, "send")
    /\ info' = [info EXCEPT ![c] = sources[SourceOf[c]]]
    /\ UNCHANGED <<clock, cfg, shared, up, arrived, noted, todo, doomed, history>>

\* info, _ := l.sources[remoteAddr]
Note(c) ==
    LET found == sources[SourceOf[c]] IN
    /\ Runs(c, "note")
    /\ found # NoInfo
    /\ Goto(c, "send")
    /\ info' = [info EXCEPT ![c] = found]
    /\ UNCHANGED <<clock, cfg, shared, up, arrived, noted, todo, doomed, history>>

\* The entry is gone: info is nil, info.failures panics, the front end
\* recovers and answers OperationsError.
NotePanic(c) ==
    /\ Runs(c, "note")
    /\ sources[SourceOf[c]] = NoInfo
    /\ Answer(c)
    /\ UNCHANGED <<clock, cfg, shared, up, history>>

\* Slip: one failure is recorded twice.
SendTwice(c) ==
    /\ Runs(c, "send")
    /\ Len(Failures(c)) < heap[info[c]].size
    /\ heap' = [heap EXCEPT ![info[c]].failures = @ \o <<clock, clock>>]
    /\ Goto(c, "check")
    /\ UNCHANGED <<clock, cfg, sources, nextPruning, up, locals, history>>

\* info.failures <- failedBind{ts: time.Now()}, which waits while it is full
Send(c) ==
    /\ Runs(c, "send")
    /\ Len(Failures(c)) < heap[info[c]].size
    /\ heap' = [heap EXCEPT ![info[c]].failures = Append(@, clock)]
    /\ Goto(c, "check")
    /\ UNCHANGED <<clock, cfg, sources, nextPruning, up, locals, history>>

\* Slip: the limit is taken for the number of failures that are forgiven, less
\* one.
CheckOneEarly(c) ==
    /\ Runs(c, "check")
    /\ Goto(c, IF Len(Failures(c)) + 1 >= cfg.NumberOfFailedBinds THEN "pop" ELSE "prune")
    /\ UNCHANGED <<clock, cfg, shared, up, locals, history>>

\* if len(info.failures) == cfg.Behaviors.NumberOfFailedBinds
Check(c) ==
    /\ Runs(c, "check")
    /\ Goto(c, IF Len(Failures(c)) = cfg.NumberOfFailedBinds THEN "pop" ELSE "prune")
    /\ UNCHANGED <<clock, cfg, shared, up, locals, history>>

\* pruned := <-info.failures, and the comparison with the period
Pop(c) ==
    /\ Runs(c, "pop")
    /\ Failures(c) # <<>>
    /\ heap' = [heap EXCEPT ![info[c]].failures = Tail(@)]
    /\ Goto(c, IF Head(Failures(c)) + PeriodOfFailedBinds > noted[c]
               THEN "ban" ELSE "prune")
    /\ UNCHANGED <<clock, cfg, sources, nextPruning, up, locals, history>>

\* info.waitUntil = time.Now().Add(BlockFailedBindsFor)
Ban(c) ==
    /\ Runs(c, "ban")
    /\ heap' = [heap EXCEPT ![info[c]].waitUntil = clock + BlockFailedBindsFor]
    /\ banEnd' = [banEnd EXCEPT ![SourceOf[c]] = clock + BlockFailedBindsFor]
    /\ Goto(c, "drain")
    /\ UNCHANGED <<clock, cfg, sources, nextPruning, up, locals, strikes, erased>>

\* Slip: the loop receives without looking at the length.
DrainForever(c) ==
    /\ Runs(c, "drain")
    /\ Goto(c, "recv")
    /\ UNCHANGED <<clock, cfg, shared, up, locals, history>>

\* for len(info.failures) > 0
Drain(c) ==
    /\ Runs(c, "drain")
    /\ Goto(c, IF Failures(c) # <<>> THEN "recv" ELSE "prune")
    /\ UNCHANGED <<clock, cfg, shared, up, locals, history>>

\* <-info.failures, the body of that loop
Recv(c) ==
    /\ Runs(c, "recv")
    /\ Failures(c) # <<>>
    /\ heap' = [heap EXCEPT ![info[c]].failures = Tail(@)]
    /\ Goto(c, "drain")
    /\ UNCHANGED <<clock, cfg, sources, nextPruning, up, locals, history>>

\* if l.nextPruning.Before(now).  The assignment to l.nextPruning after the
\* loop is made to the receiver's copy of the helper and is lost.
Prune(c) ==
    LET present == {s \in Sources : sources[s] # NoInfo} IN
    /\ Runs(c, "prune")
    /\ IF nextPruning < noted[c] /\ present # {}
       THEN /\ Goto(c, "sweep")
            /\ todo' = [todo EXCEPT ![c] = present]
            /\ info' = [info EXCEPT ![c] = NoInfo]
            /\ UNCHANGED <<arrived, noted, doomed>>
       ELSE Answer(c)
    /\ UNCHANGED <<clock, cfg, shared, up, history>>

\* The loop goes on with the keys that are left, or the request is answered.
NextKey(c, left) ==
    IF left = {}
    THEN Answer(c)
    ELSE /\ Goto(c, "sweep")
         /\ todo' = [todo EXCEPT ![c] = left]
         /\ doomed' = [doomed EXCEPT ![c] = {}]
         /\ UNCHANGED <<info, arrived, noted>>

\* The pruning loop comes to an entry and looks whether it is stale; the map is
\* visited in any order.
Sweep(c) ==
    /\ Runs(c, "sweep")
    /\ \E s \in todo[c] :
         IF Stale(s, noted[c])
         THEN /\ Goto(c, "delete")
              /\ todo' = [todo EXCEPT ![c] = @ \ {s}]
              /\ doomed' = [doomed EXCEPT ![c] = {s}]
              /\ UNCHANGED <<info, arrived, noted>>
         ELSE NextKey(c, todo[c] \ {s})
    /\ UNCHANGED <<clock, cfg, shared, up, history>>

\* delete(l.sources, sourceIP), whatever became of the entry since the test.
Delete(c) ==
    /\ Runs(c, "delete")
    /\ sources' = [s \in Sources |-> IF s \in doomed[c] THEN NoInfo ELSE sources[s]]
    /\ erased' = erased \cup {s \in doomed[c] : sources[s] # NoInfo /\ ~Stale(s, noted[c])}
    /\ NextKey(c, todo[c])
    /\ UNCHANGED <<clock, cfg, heap, nextPruning, up, strikes, banEnd>>

-----------------------------------------------------------------------------
(* The surroundings.                                                       *)

\* Time passes.  A request that is not parked on a channel ends within
\* MaxService ticks.
Tick ==
    /\ up
    /\ clock < MaxTime
    /\ \A c \in Conns : \/ pc[c] = "idle"
                        \/ Blocked(c)
                        \/ clock < arrived[c] + MaxService
    /\ clock' = clock + 1
    /\ UNCHANGED <<cfg, shared, up, pc, locals, history>>

\* doConfig copies the new [behaviors] over the active configuration.
Reload ==
    /\ up
    /\ cfg' \in Behaviors \ {cfg}
    /\ UNCHANGED <<clock, shared, up, pc, locals, history>>

\* A goroutine that is about to write to the map, or to read it.
Writing(c) == pc[c] \in {"insert", "delete"}
Reading(c) == pc[c] \in {"lookup", "note", "prune", "sweep"}

\* Two goroutines inside the map, one of them writing: the Go runtime may
\* detect it and abort the process.
Abort ==
    /\ up
    /\ \E c, d \in Conns :
         /\ c # d
         /\ Writing(c)
         /\ Writing(d) \/ Reading(d)
    /\ up' = FALSE
    /\ UNCHANGED <<clock, cfg, shared, pc, locals, history>>

\* The steps the scheduler takes for a goroutine that serves a request.
Step(c) ==
    \/ Lookup(c) \/ Insert(c) \/ Refuse(c) \/ Admit(c)
    \/ Accept(c) \/ Decline(c) \/ WrongPassword(c)
    \/ Note(c) \/ NotePanic(c)
    \/ Send(c) \/ Check(c) \/ Pop(c) \/ Ban(c) \/ Drain(c) \/ Recv(c)
    \/ Prune(c) \/ Sweep(c) \/ Delete(c)

Next ==
    \/ \E c \in Conns : Arrive(c) \/ Step(c)
    \/ Tick
    \/ Reload
    \/ Abort

Spec == Init /\ [][Next]_vars

\* The Go scheduler runs every goroutine that can run.  Clients, the clock,
\* reloads and the runtime's race detection owe nothing.
FairSpec == Spec /\ \A c \in Conns : WF_vars(Step(c))

-----------------------------------------------------------------------------
(* Properties.                                                             *)

\* Every variable keeps its type; a goroutine that uses `info` has one.
TypeOK ==
    /\ clock \in Nat
    /\ cfg \in Behaviors
    /\ sources \in [Sources -> InfoIds \cup {NoInfo}]
    /\ heap \in [InfoIds -> SourceInfo]
    /\ nextPruning \in Nat
    /\ up \in BOOLEAN
    /\ pc \in [Conns -> PCs]
    /\ info \in [Conns -> InfoIds \cup {NoInfo}]
    /\ arrived \in [Conns -> Nat]
    /\ noted \in [Conns -> Nat]
    /\ todo \in [Conns -> SUBSET Sources]
    /\ doomed \in [Conns -> SUBSET Sources]
    /\ strikes \in [Sources -> Nat]
    /\ banEnd \in [Sources -> Nat]
    /\ erased \subseteq Sources
    /\ \A c \in Conns :
         pc[c] \in {"touch", "send", "check", "pop", "ban", "drain", "recv"}
            => info[c] # NoInfo

\* The instant until which isInTimeout turns the address away.
WaitUntil(s) == IF sources[s] = NoInfo THEN 0 ELSE heap[sources[s]].waitUntil

\* An address is in a timeout only if it sent, itself, as many wrong passwords
\* as the smallest NumberOfFailedBinds that was ever in force: the failures of
\* another address, a failure counted twice, or a queue inherited by a new
\* table entry never ban anybody.
BanNeedsStrikes ==
    \A s \in Sources :
        WaitUntil(s) > clock =>
            \E b \in Behaviors : strikes[s] >= b.NumberOfFailedBinds

\* A ban, once imposed, is kept until it ends: a request that arrives before
\* the end of the last ban of its address is not served, whatever was pruned,
\* inserted or reloaded in between.  There is one way out: a pruning loop that
\* found the entry stale deletes it although the address has been seen, and
\* banned, since (lines 750 and 751).  No other step forgets a ban.
BanHonoured ==
    [][\A c \in Conns :
         pc[c] # "serve" /\ pc'[c] = "serve"
            => \/ banEnd[SourceOf[c]] <= arrived'[c]
               \/ SourceOf[c] \in erased]_vars

\* No goroutine is ever parked on the channel of its source.
NeverParked == \A c \in Conns : ~Blocked(c)

\* Every request is answered, so that its connection waits for the next one
\* again and again, or the process is gone.
EveryRequestAnswered == \A c \in Conns : []<>(pc[c] = "idle" \/ ~up)

=============================================================================
