------------------------- MODULE FailedBindsThrottle -------------------------
(***************************************************************************)
(* FailedBinds implements Throttle when every address is used by one       *)
(* connection only, [behaviors] is not reloaded, and a source is kept at   *)
(* least as long as a ban and two requests take, and as the counting       *)
(* period and one request take.                                            *)
(***************************************************************************)
EXTENDS FailedBinds

\* A goroutine of the address is at one of the labels, with the entry that is in
\* the table.  What goroutines do with an entry that was deleted shows nothing.
At(s, labels) ==
    \E c \in Conns : SourceOf[c] = s /\ pc[c] \in labels /\ info[c] = sources[s]

Queue(s) == IF sources[s] = NoInfo THEN <<>> ELSE heap[sources[s]].failures

\* A failure counts from the moment the code has decided what it leads to: a
\* ban, the loss of the oldest failure, or nothing.
Recent(s) ==
    IF At(s, {"check", "pop"}) THEN SubSeq(Queue(s), 1, Len(Queue(s)) - 1)
    ELSE IF At(s, {"ban", "drain", "recv"}) THEN <<>>
    ELSE Queue(s)

Until(s) == IF WaitUntil(s) > clock THEN WaitUntil(s) ELSE 0

Promise == INSTANCE Throttle WITH
    NumberOfFailedBinds <- InitBehavior.NumberOfFailedBinds,
    Period <- PeriodOfFailedBinds,
    Block <- BlockFailedBindsFor,
    now <- clock,
    recent <- [s \in Sources |-> Recent(s)],
    sentenced <- {s \in Sources : At(s, {"ban"})},
    until <- [s \in Sources |-> Until(s)]

\* Every step of the goroutines is one step of the throttle, or none: the
\* table, the channel and their maintenance change what an address is owed in
\* one way only.  A pruning loop deletes, some time after it looked, an entry
\* that was stale: it forgets what is over, and what the address has done since.
ImplementsThrottle == Promise!Spec

=============================================================================
