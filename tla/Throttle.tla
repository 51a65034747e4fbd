------------------------------ MODULE Throttle ------------------------------
(***************************************************************************)
(* What the failed-bind throttle promises, with no table, channel or       *)
(* goroutine: per address, the failures that still count and the end of    *)
(* the ban in force.  Failures and decisions take effect some time during  *)
(* the request they belong to, at most MaxService ticks late.              *)
(***************************************************************************)
EXTENDS Integers, Sequences

CONSTANTS Sources, NumberOfFailedBinds, Period, Block, MaxService

VARIABLES
    now,        \* the time
    recent,     \* times of the failures that still count, oldest first
    sentenced,  \* addresses that used up their attempts, ban not yet in force
    until       \* end of the ban in force, 0 when there is none

vars == <<now, recent, sentenced, until>>

Init ==
    /\ now = 1
    /\ recent = [s \in Sources |-> <<>>]
    /\ sentenced = {}
    /\ until = [s \in Sources |-> 0]

\* Instants of a request that is being served.
Lately == {t \in now - MaxService .. now : t >= 1}

\* A failed bind that leaves the address below its limit.
Fail(s) ==
    /\ s \notin sentenced
    /\ Len(recent[s]) + 1 < NumberOfFailedBinds
    /\ \E t \in Lately : recent' = [recent EXCEPT ![s] = Append(@, t)]
    /\ UNCHANGED <<now, sentenced, until>>

\* A failed bind that reaches the limit: a ban if the oldest failure that
\* counts is recent enough, else that oldest failure stops counting.
FailAtLimit(s) ==
    /\ s \notin sentenced
    /\ Len(recent[s]) + 1 = NumberOfFailedBinds
    /\ \E judged, t \in Lately :
         LET all == Append(recent[s], t) IN
         /\ judged <= t
         /\ IF Head(all) + Period > judged
            THEN /\ sentenced' = sentenced \cup {s}
                 /\ recent' = [recent EXCEPT ![s] = <<>>]
            ELSE /\ recent' = [recent EXCEPT ![s] = Tail(all)]
                 /\ UNCHANGED sentenced
    /\ UNCHANGED <<now, until>>

\* The ban takes effect.
Impose(s) ==
    /\ s \in sentenced
    /\ sentenced' = sentenced \ {s}
    /\ until' = [until EXCEPT ![s] = IF Block > 0 THEN now + Block ELSE 0]
    /\ UNCHANGED <<now, recent>>

\* An address may be forgotten when whatever still counts against it, or bans
\* it, is no older than a request: who decides to forget it looks at it a while
\* before.
Forget(s) ==
    /\ until[s] = 0 \/ until[s] >= now - MaxService + Block
    /\ \A i \in DOMAIN recent[s] :
         recent[s][i] + Period <= now \/ recent[s][i] >= now - MaxService
    /\ recent' = [recent EXCEPT ![s] = <<>>]
    /\ sentenced' = sentenced \ {s}
    /\ until' = [until EXCEPT ![s] = 0]
    /\ UNCHANGED now

\* Time passes and the bans that end are lifted.
Tick ==
    /\ now' = now + 1
    /\ until' = [s \in Sources |-> IF until[s] > now' THEN until[s] ELSE 0]
    /\ UNCHANGED <<recent, sentenced>>

Next ==
    \/ Tick
    \/ \E s \in Sources : Fail(s) \/ FailAtLimit(s) \/ Impose(s) \/ Forget(s)

\* Most steps of an implementation show nothing here: TLC is told to ask for
\* that first.
Spec == Init /\ [][UNCHANGED vars \/ Next]_vars

=============================================================================
