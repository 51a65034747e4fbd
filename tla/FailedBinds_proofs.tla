-------------------------- MODULE FailedBinds_proofs --------------------------
(***************************************************************************)
(* Theorems about the failed-bind throttle, in three layers:               *)
(*   TypeOK   -> TypeCorrect                                               *)
(*   BanInv   -> BansAreEarned: any connections, addresses and reloads     *)
(*   RoomInv  -> NobodyIsParked: one connection per address, no reload     *)
(*   HonourInv -> BansAreHonoured: besides, sources are kept long enough   *)
(* Each layer strengthens the one before it; the step lemmas say once what *)
(* one goroutine's step does to labels, table, cells and times.            *)
(***************************************************************************)
EXTENDS FailedBinds, FiniteSetTheorems, SequenceTheorems, TLAPS

\* The initial state is well typed.
LEMMA TypeInit == Init => TypeOK
  BY SourceAssumption, ConnAssumption, InfoAssumption, BehaviorAssumption, TimeAssumption
  DEF Init, TypeOK, PCs, SourceInfo

\* The variables of a goroutine, and all others.
LocalTypes ==
    /\ pc \in [Conns -> PCs]
    /\ info \in [Conns -> InfoIds \cup {NoInfo}]
    /\ arrived \in [Conns -> Nat]
    /\ noted \in [Conns -> Nat]
    /\ todo \in [Conns -> SUBSET Sources]
    /\ doomed \in [Conns -> SUBSET Sources]
    /\ \A c \in Conns :
         pc[c] \in {"touch", "send", "check", "pop", "ban", "drain", "recv"}
            => info[c] # NoInfo

OtherTypes ==
    /\ clock \in Nat
    /\ cfg \in Behaviors
    /\ sources \in [Sources -> InfoIds \cup {NoInfo}]
    /\ heap \in [InfoIds -> SourceInfo]
    /\ nextPruning \in Nat
    /\ up \in BOOLEAN
    /\ strikes \in [Sources -> Nat]
    /\ banEnd \in [Sources -> Nat]
    /\ erased \subseteq Sources

LEMMA Types ==
  /\ TypeOK <=> LocalTypes /\ OtherTypes
  /\ TypeOK' <=> LocalTypes' /\ OtherTypes'
  BY Zenon DEF TypeOK, LocalTypes, OtherTypes

\* A goroutine that has answered has nothing left.
LEMMA AnswerTypes ==
  ASSUME LocalTypes, NEW c \in Conns, Answer(c)
  PROVE  LocalTypes'
  BY DEF LocalTypes, Answer, Goto, PCs

\* What an answer leaves alone keeps its types.
LEMMA AnsweringTypes ==
  ASSUME TypeOK, NEW c \in Conns, Answer(c), UNCHANGED <<clock, cfg, shared, up, history>>
  PROVE  TypeOK'
<1>1. OtherTypes'
  BY DEF TypeOK, OtherTypes, shared, history
<1>. QED  BY <1>1, Types, AnswerTypes

\* Every step keeps the types.
LEMMA TypeStep == TypeOK /\ [Next]_vars => TypeOK'
<1>. SUFFICES ASSUME TypeOK, [Next]_vars PROVE TypeOK'
  OBVIOUS
<1>. USE SourceAssumption, ConnAssumption, InfoAssumption, BehaviorAssumption, TimeAssumption
<1>1. ASSUME NEW c \in Conns, Arrive(c) \/ Step(c) PROVE TypeOK'
  <2>1. CASE Arrive(c)
    BY <2>1 DEF Arrive, Runs, Goto, PCs, shared, locals, history, TypeOK
  <2>2. CASE Lookup(c)
    BY <2>2 DEF Lookup, Runs, Goto, PCs, shared, locals, history, TypeOK
  <2>3. CASE Insert(c)
    BY <2>3 DEF Insert, Runs, Goto, PCs, shared, locals, history, TypeOK, NewInfo, SourceInfo, Free
  <2>4. CASE Refuse(c)
    <3>1. info[c] \in InfoIds
      BY <2>4 DEF Refuse, Runs, TypeOK
    <3>2. OtherTypes'
      BY <2>4, <3>1 DEF Refuse, shared, history, TypeOK, OtherTypes, SourceInfo
    <3>. QED  BY <2>4, <3>2, Types, AnswerTypes DEF Refuse
  <2>5. CASE Admit(c)
    BY <2>5 DEF Admit, Runs, Goto, PCs, shared, locals, history, TypeOK, SourceInfo
  <2>6. CASE Accept(c)
    BY <2>6, AnsweringTypes DEF Accept
  <2>7. CASE Decline(c)
    BY <2>7, AnsweringTypes DEF Decline
  <2>8. CASE WrongPassword(c)
    <3>1. strikes[SourceOf[c]] + 1 \in Nat
      BY DEF TypeOK
    <3>2. strikes' \in [Sources -> Nat]
      BY <2>8, <3>1 DEF WrongPassword, TypeOK
    <3>3. OtherTypes'
      BY <2>8, <3>2 DEF WrongPassword, shared, TypeOK, OtherTypes
    <3>4. CASE Answer(c)
      BY <3>3, <3>4, Types, AnswerTypes
    <3>5. CASE ~Answer(c)
      <4>1. /\ Goto(c, "note") /\ noted' = [noted EXCEPT ![c] = clock]
            /\ UNCHANGED <<info, arrived, todo, doomed>>
        BY <2>8, <3>5 DEF WrongPassword
      <4>2. LocalTypes'
        BY <4>1 DEF Goto, PCs, TypeOK, LocalTypes
      <4>. QED  BY <3>3, <4>2, Types
    <3>. QED  BY <3>4, <3>5
  <2>9. CASE Note(c)
    BY <2>9 DEF Note, Runs, Goto, PCs, shared, locals, history, TypeOK
  <2>10. CASE NotePanic(c)
    BY <2>10, AnsweringTypes DEF NotePanic
  <2>11. CASE Send(c)
    <3>1. info[c] \in InfoIds
      BY <2>11 DEF Send, Runs, TypeOK
    <3>2. Append(Failures(c), clock) \in Seq(Nat)
      BY <2>11, <3>1 DEF Send, Failures, TypeOK, SourceInfo
    <3>3. heap' \in [InfoIds -> SourceInfo]
      BY <2>11, <3>1, <3>2 DEF Send, Failures, TypeOK, SourceInfo
    <3>. QED  BY <2>11, <3>3 DEF Send, Runs, Goto, PCs, shared, locals, history, TypeOK
  <2>12. CASE Check(c)
    BY <2>12 DEF Check, Runs, Goto, PCs, shared, locals, history, TypeOK, Failures
  <2>13. CASE Pop(c)
    <3>1. info[c] \in InfoIds
      BY <2>13 DEF Pop, Runs, TypeOK
    <3>2. Tail(Failures(c)) \in Seq(Nat)
      BY <2>13, <3>1 DEF Pop, Failures, TypeOK, SourceInfo
    <3>3. heap' \in [InfoIds -> SourceInfo]
      BY <2>13, <3>1, <3>2 DEF Pop, Failures, TypeOK, SourceInfo
    <3>. QED  BY <2>13, <3>3 DEF Pop, Runs, Goto, PCs, shared, locals, history, TypeOK
  <2>14. CASE Ban(c)
    <3>1. info[c] \in InfoIds
      BY <2>14 DEF Ban, Runs, TypeOK
    <3>2. clock + BlockFailedBindsFor \in Nat
      BY DEF TypeOK
    <3>3. heap' \in [InfoIds -> SourceInfo]
      BY <2>14, <3>1, <3>2 DEF Ban, TypeOK, SourceInfo
    <3>. QED  BY <2>14, <3>3 DEF Ban, Runs, Goto, PCs, shared, locals, history, TypeOK
  <2>15. CASE Drain(c)
    BY <2>15 DEF Drain, Runs, Goto, PCs, shared, locals, history, TypeOK, Failures
  <2>16. CASE Recv(c)
    <3>1. info[c] \in InfoIds
      BY <2>16 DEF Recv, Runs, TypeOK
    <3>2. Tail(Failures(c)) \in Seq(Nat)
      BY <2>16, <3>1 DEF Recv, Failures, TypeOK, SourceInfo
    <3>3. heap' \in [InfoIds -> SourceInfo]
      BY <2>16, <3>1, <3>2 DEF Recv, Failures, TypeOK, SourceInfo
    <3>. QED  BY <2>16, <3>3 DEF Recv, Runs, Goto, PCs, shared, locals, history, TypeOK
  <2>17. CASE Prune(c)
    <3>1. UNCHANGED <<clock, cfg, shared, up, history>>
      BY <2>17 DEF Prune
    <3>2. CASE Answer(c)
      BY <3>1, <3>2, AnsweringTypes
    <3>3. CASE ~Answer(c)
      <4>1. PICK present \in SUBSET Sources :
              /\ Goto(c, "sweep") /\ todo' = [todo EXCEPT ![c] = present]
              /\ info' = [info EXCEPT ![c] = NoInfo] /\ UNCHANGED <<arrived, noted, doomed>>
        BY <2>17, <3>3 DEF Prune
      <4>. QED  BY <3>1, <4>1 DEF Goto, PCs, shared, history, TypeOK
    <3>. QED  BY <3>2, <3>3
  <2>18. CASE Sweep(c)
    <3>1. PICK s \in todo[c] :
            \/ /\ Goto(c, "delete") /\ todo' = [todo EXCEPT ![c] = @ \ {s}]
               /\ doomed' = [doomed EXCEPT ![c] = {s}] /\ UNCHANGED <<info, arrived, noted>>
            \/ NextKey(c, todo[c] \ {s})
      BY <2>18 DEF Sweep
    <3>2. todo[c] \subseteq Sources /\ s \in Sources
      BY <3>1 DEF TypeOK
    <3>3. UNCHANGED <<clock, cfg, shared, up, history>>
      BY <2>18 DEF Sweep
    <3>4. CASE Goto(c, "delete") /\ todo' = [todo EXCEPT ![c] = @ \ {s}]
               /\ doomed' = [doomed EXCEPT ![c] = {s}] /\ UNCHANGED <<info, arrived, noted>>
      BY <3>2, <3>3, <3>4 DEF Goto, PCs, shared, history, TypeOK
    <3>5. CASE NextKey(c, todo[c] \ {s})
      <4>. DEFINE left == todo[c] \ {s}
      <4>1. left \subseteq Sources
        BY <3>2
      <4>2. CASE left = {}
        <5>1. Answer(c)
          BY <3>5, <4>2 DEF NextKey
        <5>. QED  BY <5>1, <3>3, AnsweringTypes
      <4>3. CASE left # {}
        <5>. HIDE DEF left
        <5>1. /\ Goto(c, "sweep") /\ todo' = [todo EXCEPT ![c] = left]
              /\ doomed' = [doomed EXCEPT ![c] = {}] /\ UNCHANGED <<info, arrived, noted>>
          BY <3>5, <4>3 DEF NextKey, left
        <5>. QED  BY <4>1, <5>1, <3>3 DEF Goto, PCs, shared, history, TypeOK
      <4>. QED  BY <4>2, <4>3
    <3>. QED  BY <3>1, <3>4, <3>5
  <2>19. CASE Delete(c)
    <3>1. OtherTypes'
      BY <2>19 DEF Delete, TypeOK, OtherTypes
    <3>2. CASE Answer(c)
      BY <3>1, <3>2, Types, AnswerTypes
    <3>3. CASE ~Answer(c)
      <4>1. /\ Goto(c, "sweep") /\ todo' = [todo EXCEPT ![c] = todo[c]]
            /\ doomed' = [doomed EXCEPT ![c] = {}] /\ UNCHANGED <<info, arrived, noted>>
        BY <2>19, <3>3 DEF Delete, NextKey
      <4>2. LocalTypes'
        BY <4>1 DEF Goto, PCs, TypeOK, LocalTypes
      <4>. QED  BY <3>1, <4>2, Types
    <3>. QED  BY <3>2, <3>3

  <2>. QED  BY <1>1, <2>1, <2>2, <2>3, <2>4, <2>5, <2>6, <2>7, <2>8, <2>9, <2>10,
               <2>11, <2>12, <2>13, <2>14, <2>15, <2>16, <2>17, <2>18, <2>19 DEF Step
<1>2. CASE Tick
  BY <1>2 DEF Tick, TypeOK, shared, locals, history
<1>3. CASE Reload
  BY <1>3 DEF Reload, TypeOK, shared, locals, history
<1>4. CASE Abort
  BY <1>4 DEF Abort, TypeOK, shared, locals, history
<1>5. CASE UNCHANGED vars
  BY <1>5 DEF vars, TypeOK, shared, locals, history
<1>. QED  BY <1>1, <1>2, <1>3, <1>4, <1>5 DEF Next

-----------------------------------------------------------------------------
(* The inductive invariant behind BanNeedsStrikes.                         *)

\* Cell i belongs to address s: the table or a goroutine of s refers to it.
Holds(s, i) ==
    \/ sources[s] = i
    \/ \E c \in Conns : SourceOf[c] = s /\ info[c] = i

\* The goroutines that have received a wrong password from s and not yet
\* recorded it.
Owing(s) == {c \in Conns : SourceOf[c] = s /\ pc[c] \in {"note", "send"}}
Debt(s) == Cardinality(Owing(s))

Enough(s) == \E b \in Behaviors : strikes[s] >= b.NumberOfFailedBinds

\* No cell is shared by two addresses.
OneOwner ==
    \A s, t \in Sources, i \in InfoIds : Holds(s, i) /\ Holds(t, i) => s = t

\* What is recorded and what is still to be recorded was all received.
QueueCounted ==
    /\ \A s \in Sources : Debt(s) <= strikes[s]
    /\ \A s \in Sources, i \in InfoIds :
         Holds(s, i) => Len(heap[i].failures) + Debt(s) <= strikes[s]

\* A ban in force, or about to be, was earned.
BanEarned ==
    /\ \A c \in Conns : pc[c] \in {"pop", "ban"} => Enough(SourceOf[c])
    /\ \A s \in Sources, i \in InfoIds :
         Holds(s, i) /\ heap[i].waitUntil > clock => Enough(s)

ArrivedBefore == \A c \in Conns : arrived[c] <= clock

BanInv == TypeOK /\ OneOwner /\ QueueCounted /\ BanEarned /\ ArrivedBefore

\* How one goroutine's step moves the program counters.
LEMMA PcStep ==
  ASSUME TypeOK, NEW c \in Conns, Arrive(c) \/ Step(c)
  PROVE  /\ \A d \in Conns \ {c} : pc'[d] = pc[d]
         /\ pc'[c] \in {"note", "send"} => pc[c] \in {"serve", "note", "send"}
         /\ pc[c] = "serve" => \/ pc'[c] = "idle" /\ strikes' = strikes
                              \/ strikes' = [strikes EXCEPT ![SourceOf[c]] = @ + 1]
         /\ pc[c] # "serve" => strikes' = strikes
         /\ pc[c] = "send" => pc'[c] = "check"
         /\ pc'[c] = "ban" => pc[c] = "pop"
         /\ pc'[c] = "pop" => /\ pc[c] = "check"
                             /\ Len(heap[info[c]].failures) = cfg.NumberOfFailedBinds
<1>1. CASE Arrive(c)
  BY <1>1 DEF Arrive, Runs, Goto, TypeOK, shared, locals, history
<1>2. CASE Lookup(c)
  BY <1>2 DEF Lookup, Runs, Goto, TypeOK, shared, locals, history
<1>3. CASE Insert(c)
  BY <1>3 DEF Insert, Runs, Goto, TypeOK, shared, locals, history
<1>4. CASE Refuse(c)
  BY <1>4 DEF Refuse, Runs, Goto, TypeOK, shared, locals, history, Answer
<1>5. CASE Admit(c)
  BY <1>5 DEF Admit, Runs, Goto, TypeOK, shared, locals, history
<1>6. CASE Accept(c)
  BY <1>6 DEF Accept, Runs, Goto, TypeOK, shared, locals, history, Answer
<1>7. CASE Decline(c)
  BY <1>7 DEF Decline, Runs, Goto, TypeOK, shared, locals, history, Answer
<1>8. CASE WrongPassword(c)
  BY <1>8 DEF WrongPassword, Runs, Goto, TypeOK, shared, locals, history, Answer
<1>9. CASE Note(c)
  BY <1>9 DEF Note, Runs, Goto, TypeOK, shared, locals, history
<1>10. CASE NotePanic(c)
  BY <1>10 DEF NotePanic, Runs, Goto, TypeOK, shared, locals, history, Answer
<1>11. CASE Send(c)
  BY <1>11 DEF Send, Runs, Goto, TypeOK, shared, locals, history
<1>12. CASE Check(c)
  BY <1>12 DEF Check, Runs, Goto, TypeOK, shared, locals, history, Failures
<1>13. CASE Pop(c)
  BY <1>13 DEF Pop, Runs, Goto, TypeOK, shared, locals, history
<1>14. CASE Ban(c)
  BY <1>14 DEF Ban, Runs, Goto, TypeOK, shared, locals, history
<1>15. CASE Drain(c)
  BY <1>15 DEF Drain, Runs, Goto, TypeOK, shared, locals, history
<1>16. CASE Recv(c)
  BY <1>16 DEF Recv, Runs, Goto, TypeOK, shared, locals, history
<1>17. CASE Prune(c)
  BY <1>17 DEF Prune, Runs, Goto, TypeOK, shared, locals, history, Answer
<1>18. CASE Sweep(c)
  BY <1>18 DEF Sweep, NextKey, Runs, Goto, TypeOK, shared, locals, history, Answer
<1>19. CASE Delete(c)
  BY <1>19 DEF Delete, NextKey, Runs, Goto, TypeOK, shared, locals, history, Answer
<1>. QED  BY <1>1, <1>2, <1>3, <1>4, <1>5, <1>6, <1>7, <1>8, <1>9, <1>10, <1>11, <1>12, <1>13, <1>14, <1>15, <1>16, <1>17, <1>18, <1>19 DEF Step

\* Only Insert gives an address a cell it did not have, and that cell was free.
LEMMA HoldStep ==
  ASSUME TypeOK, NEW c \in Conns, Arrive(c) \/ Step(c),
         NEW s \in Sources, NEW i \in InfoIds, Holds(s, i)'
  PROVE  \/ Holds(s, i)
         \/ /\ pc[c] = "insert" /\ s = SourceOf[c] /\ i \in Free
            /\ heap'[i] = NewInfo(arrived[c])
<1>. USE SourceAssumption, InfoAssumption
<1>1. CASE Arrive(c)
  BY <1>1 DEF Arrive, Runs, Holds, TypeOK, shared, locals, history
<1>2. CASE Lookup(c)
  BY <1>2 DEF Lookup, Runs, Holds, TypeOK, shared, locals, history
<1>3. CASE Insert(c)
  <2>1. PICK n \in Free : /\ heap' = [heap EXCEPT ![n] = NewInfo(arrived[c])]
                           /\ sources' = [sources EXCEPT ![SourceOf[c]] = n]
    BY <1>3 DEF Insert
  <2>2. n \in InfoIds /\ heap'[n] = NewInfo(arrived[c]) /\ info' = info
    BY <1>3, <2>1 DEF Insert, Free, TypeOK, locals
  <2>3. CASE i = n /\ s = SourceOf[c]
    BY <1>3, <2>2, <2>3 DEF Insert, Runs
  <2>4. CASE ~(i = n /\ s = SourceOf[c])
    BY <2>1, <2>2, <2>4 DEF Holds, TypeOK
  <2>. QED  BY <2>3, <2>4
<1>4. CASE Refuse(c)
  BY <1>4 DEF Refuse, Runs, Holds, TypeOK, shared, locals, history, Answer
<1>5. CASE Admit(c)
  BY <1>5 DEF Admit, Runs, Holds, TypeOK, shared, locals, history
<1>6. CASE Accept(c)
  BY <1>6 DEF Accept, Runs, Holds, TypeOK, shared, locals, history, Answer
<1>7. CASE Decline(c)
  BY <1>7 DEF Decline, Runs, Holds, TypeOK, shared, locals, history, Answer
<1>8. CASE WrongPassword(c)
  BY <1>8 DEF WrongPassword, Runs, Holds, TypeOK, shared, locals, history, Answer
<1>9. CASE Note(c)
  BY <1>9 DEF Note, Runs, Holds, TypeOK, shared, locals, history
<1>10. CASE NotePanic(c)
  BY <1>10 DEF NotePanic, Runs, Holds, TypeOK, shared, locals, history, Answer
<1>11. CASE Send(c)
  BY <1>11 DEF Send, Runs, Holds, TypeOK, shared, locals, history
<1>12. CASE Check(c)
  BY <1>12 DEF Check, Runs, Holds, TypeOK, shared, locals, history
<1>13. CASE Pop(c)
  BY <1>13 DEF Pop, Runs, Holds, TypeOK, shared, locals, history
<1>14. CASE Ban(c)
  BY <1>14 DEF Ban, Runs, Holds, TypeOK, shared, locals, history
<1>15. CASE Drain(c)
  BY <1>15 DEF Drain, Runs, Holds, TypeOK, shared, locals, history
<1>16. CASE Recv(c)
  BY <1>16 DEF Recv, Runs, Holds, TypeOK, shared, locals, history
<1>17. CASE Prune(c)
  BY <1>17 DEF Prune, Runs, Holds, TypeOK, shared, locals, history, Answer
<1>18. CASE Sweep(c)
  BY <1>18 DEF Sweep, NextKey, Runs, Holds, TypeOK, shared, locals, history, Answer
<1>19. CASE Delete(c)
  BY <1>19 DEF Delete, NextKey, Runs, Holds, TypeOK, shared, locals, history, Answer
<1>. QED  BY <1>1, <1>2, <1>3, <1>4, <1>5, <1>6, <1>7, <1>8, <1>9, <1>10, <1>11, <1>12, <1>13, <1>14, <1>15, <1>16, <1>17, <1>18, <1>19 DEF Step

\* How one goroutine's step changes a cell of the heap.
LEMMA HeapStep ==
  ASSUME TypeOK, NEW c \in Conns, Arrive(c) \/ Step(c), NEW i \in InfoIds
  PROVE  \/ i \in Free /\ heap'[i] = NewInfo(arrived[c])
         \/ /\ \/ heap'[i].failures = heap[i].failures
               \/ /\ heap[i].failures # <<>>
                  /\ heap'[i].failures = Tail(heap[i].failures)
               \/ /\ pc[c] = "send" /\ i = info[c]
                  /\ heap'[i].failures = Append(heap[i].failures, clock)
            /\ \/ heap'[i].waitUntil = heap[i].waitUntil
               \/ pc[c] = "ban" /\ i = info[c]
<1>. USE SourceAssumption, InfoAssumption
<1>1. CASE Arrive(c)
  BY <1>1 DEF Arrive, Runs, TypeOK, SourceInfo, shared, locals, history
<1>2. CASE Lookup(c)
  BY <1>2 DEF Lookup, Runs, TypeOK, SourceInfo, shared, locals, history
<1>3. CASE Insert(c)
  <2>1. PICK n \in Free : heap' = [heap EXCEPT ![n] = NewInfo(arrived[c])]
    BY <1>3 DEF Insert
  <2>. QED  BY <2>1 DEF Free, TypeOK
<1>4. CASE Refuse(c)
  BY <1>4 DEF Refuse, Runs, TypeOK, SourceInfo, shared, locals, history, Answer
<1>5. CASE Admit(c)
  BY <1>5 DEF Admit, Runs, TypeOK, SourceInfo, shared, locals, history
<1>6. CASE Accept(c)
  BY <1>6 DEF Accept, Runs, TypeOK, SourceInfo, shared, locals, history, Answer
<1>7. CASE Decline(c)
  BY <1>7 DEF Decline, Runs, TypeOK, SourceInfo, shared, locals, history, Answer
<1>8. CASE WrongPassword(c)
  BY <1>8 DEF WrongPassword, Runs, TypeOK, SourceInfo, shared, locals, history, Answer
<1>9. CASE Note(c)
  BY <1>9 DEF Note, Runs, TypeOK, SourceInfo, shared, locals, history
<1>10. CASE NotePanic(c)
  BY <1>10 DEF NotePanic, Runs, TypeOK, SourceInfo, shared, locals, history, Answer
<1>11. CASE Send(c)
  BY <1>11 DEF Send, Runs, TypeOK, SourceInfo, shared, locals, history, Failures
<1>12. CASE Check(c)
  BY <1>12 DEF Check, Runs, TypeOK, SourceInfo, shared, locals, history
<1>13. CASE Pop(c)
  BY <1>13 DEF Pop, Runs, TypeOK, SourceInfo, shared, locals, history, Failures
<1>14. CASE Ban(c)
  BY <1>14 DEF Ban, Runs, TypeOK, SourceInfo, shared, locals, history
<1>15. CASE Drain(c)
  BY <1>15 DEF Drain, Runs, TypeOK, SourceInfo, shared, locals, history
<1>16. CASE Recv(c)
  BY <1>16 DEF Recv, Runs, TypeOK, SourceInfo, shared, locals, history, Failures
<1>17. CASE Prune(c)
  BY <1>17 DEF Prune, Runs, TypeOK, SourceInfo, shared, locals, history, Answer
<1>18. CASE Sweep(c)
  BY <1>18 DEF Sweep, NextKey, Runs, TypeOK, SourceInfo, shared, locals, history, Answer
<1>19. CASE Delete(c)
  BY <1>19 DEF Delete, NextKey, Runs, TypeOK, SourceInfo, shared, locals, history, Answer
<1>. QED  BY <1>1, <1>2, <1>3, <1>4, <1>5, <1>6, <1>7, <1>8, <1>9, <1>10, <1>11, <1>12, <1>13, <1>14, <1>15, <1>16, <1>17, <1>18, <1>19 DEF Step

\* The goroutines that owe a record are finitely many, before and after a step.
LEMMA OwingFinite ==
  ASSUME NEW s, NEW labels
  PROVE  IsFiniteSet({c \in Conns : SourceOf[c] = s /\ labels[c] \in {"note", "send"}})
  BY ConnAssumption, FS_Subset

\* So their number is a natural number, before and after a step.
LEMMA DebtNat ==
  ASSUME NEW s
  PROVE  /\ IsFiniteSet(Owing(s)) /\ Debt(s) \in Nat
         /\ IsFiniteSet(Owing(s)') /\ Debt(s)' \in Nat
<1>1. IsFiniteSet(Owing(s))
  BY OwingFinite DEF Owing
<1>2. IsFiniteSet(Owing(s)')
  BY OwingFinite DEF Owing
<1>. QED  BY <1>1, <1>2, FS_CardinalityType DEF Debt

\* A step pays a debt when it records a failure, and makes one only for a
\* wrong password just received.
LEMMA DebtStep ==
  ASSUME TypeOK, NEW c \in Conns, Arrive(c) \/ Step(c), NEW s \in Sources
  PROVE  /\ strikes'[s] \in Nat
         /\ strikes'[s] >= strikes[s]
         /\ Debt(s)' + strikes[s] <= Debt(s) + strikes'[s]
         /\ pc[c] = "send" /\ s = SourceOf[c] =>
              Debt(s)' + 1 = Debt(s) /\ strikes'[s] = strikes[s]
<1>a. /\ IsFiniteSet(Owing(s)) /\ Debt(s) \in Nat
      /\ IsFiniteSet(Owing(s)') /\ Debt(s)' \in Nat
  BY DebtNat
<1>b. \/ strikes' = strikes
      \/ pc[c] = "serve" /\ strikes' = [strikes EXCEPT ![SourceOf[c]] = @ + 1]
  BY PcStep
<1>c. pc[c] = "send" => strikes' = strikes
  BY PcStep
<1>d. SourceOf[c] \in Sources /\ strikes \in [Sources -> Nat]
  BY SourceAssumption DEF TypeOK
<1>1. CASE pc[c] = "send" /\ s = SourceOf[c]
  <2>1. c \in Owing(s) /\ Owing(s)' = Owing(s) \ {c}
    BY <1>1, PcStep DEF Owing
  <2>2. Debt(s)' = Debt(s) - 1
    BY <1>a, <2>1, FS_RemoveElement DEF Debt
  <2>. QED  BY <1>1, <2>2, <1>a, <1>c, <1>d
<1>2. CASE pc[c] = "serve" /\ s = SourceOf[c] /\ strikes' # strikes
  <2>1. Owing(s)' \subseteq Owing(s) \cup {c}
    BY <1>2, PcStep DEF Owing
  <2>2. /\ IsFiniteSet(Owing(s) \cup {c})
        /\ Cardinality(Owing(s) \cup {c}) <= Debt(s) + 1
    <3>1. Debt(s) = Cardinality(Owing(s))
      BY DEF Debt
    <3>2. /\ IsFiniteSet(Owing(s) \cup {c})
          /\ Cardinality(Owing(s) \cup {c}) =
               IF c \in Owing(s) THEN Cardinality(Owing(s)) ELSE Cardinality(Owing(s)) + 1
      BY <1>a, FS_AddElement
    <3>. QED  BY <1>a, <3>1, <3>2
  <2>3. Debt(s)' <= Debt(s) + 1
    <3>1. Cardinality(Owing(s)') <= Cardinality(Owing(s) \cup {c})
      BY <2>1, <2>2, FS_Subset
    <3>2. Cardinality(Owing(s) \cup {c}) \in Nat
      BY <2>2, FS_CardinalityType
    <3>. QED  BY <1>a, <2>2, <3>1, <3>2 DEF Debt
  <2>4. strikes'[s] = strikes[s] + 1
    BY <1>2, <1>b, <1>d
  <2>. QED  BY <1>2, <2>3, <2>4, <1>a, <1>d
<1>3. CASE ~(pc[c] = "send" /\ s = SourceOf[c])
           /\ ~(pc[c] = "serve" /\ s = SourceOf[c] /\ strikes' # strikes)
  <2>1. Owing(s)' \subseteq Owing(s)
    <3>1. ASSUME NEW d \in Owing(s)' PROVE d \in Owing(s)
      <4>1. CASE d # c
        BY <3>1, <4>1, PcStep DEF Owing
      <4>2. CASE d = c
        <5>1. pc[c] # "serve"
          <6>1. SUFFICES ASSUME pc[c] = "serve" PROVE FALSE
            OBVIOUS
          <6>2. pc'[c] # "idle" /\ s = SourceOf[c]
            BY <3>1, <4>2 DEF Owing
          <6>3. strikes' = [strikes EXCEPT ![s] = @ + 1]
            BY <6>1, <6>2, PcStep
          <6>. QED  BY <6>1, <6>2, <6>3, <1>3, <1>d
        <5>. QED  BY <3>1, <4>2, <5>1, PcStep DEF Owing
      <4>. QED  BY <4>1, <4>2
    <3>. QED  BY <3>1
  <2>2. Debt(s)' <= Debt(s)
    BY <1>a, <2>1, FS_Subset DEF Debt
  <2>3. strikes'[s] = strikes[s]
    BY <1>3, <1>b, <1>d
  <2>. QED  BY <1>3, <2>2, <2>3, <1>a, <1>d
<1>. QED  BY <1>1, <1>2, <1>3

\* A free cell belongs to nobody.
LEMMA FreeNotHeld ==
  ASSUME NEW s \in Sources, NEW i \in Free
  PROVE  ~Holds(s, i)
  BY DEF Free, Holds

\* A step never makes two addresses share a cell.
LEMMA OneOwnerStep ==
  ASSUME BanInv, NEW c \in Conns, Arrive(c) \/ Step(c)
  PROVE  OneOwner'
<1>1. SUFFICES ASSUME NEW s \in Sources, NEW t \in Sources, NEW i \in InfoIds,
                      Holds(s, i)', Holds(t, i)'
               PROVE  s = t
  BY DEF OneOwner
<1>2. \/ Holds(s, i)
      \/ s = SourceOf[c] /\ i \in Free
  BY <1>1, HoldStep DEF BanInv
<1>3. \/ Holds(t, i)
      \/ t = SourceOf[c] /\ i \in Free
  BY <1>1, HoldStep DEF BanInv
<1>. QED  BY <1>2, <1>3, FreeNotHeld DEF BanInv, OneOwner

\* Receiving shortens a queue by one.
LEMMA TailLen ==
  ASSUME NEW q \in Seq(Nat), q # <<>>
  PROVE  Len(q) \in Nat /\ Len(q) >= 1 /\ Len(Tail(q)) = Len(q) - 1
  BY HeadTailProperties, LenProperties, EmptySeq

\* Sending lengthens a queue by one.
LEMMA AppendLen ==
  ASSUME NEW q \in Seq(Nat), NEW x \in Nat
  PROVE  Len(q) \in Nat /\ Len(Append(q, x)) = Len(q) + 1
  BY AppendProperties, LenProperties

\* A step never records a failure that was not received.
LEMMA QueueCountedStep ==
  ASSUME BanInv, NEW c \in Conns, Arrive(c) \/ Step(c)
  PROVE  QueueCounted'
<1>. USE DEF BanInv
<1>1. ASSUME NEW s \in Sources
      PROVE  /\ Debt(s) \in Nat /\ Debt(s)' \in Nat
             /\ strikes[s] \in Nat /\ strikes'[s] \in Nat
             /\ Debt(s)' + strikes[s] <= Debt(s) + strikes'[s]
             /\ pc[c] = "send" /\ s = SourceOf[c] =>
                  Debt(s)' + 1 = Debt(s) /\ strikes'[s] = strikes[s]
  BY DebtStep, DebtNat DEF TypeOK
<1>2. ASSUME NEW s \in Sources PROVE Debt(s)' <= strikes'[s]
  BY <1>1 DEF QueueCounted
<1>3. ASSUME NEW s \in Sources, NEW i \in InfoIds, Holds(s, i)'
      PROVE  Len(heap'[i].failures) + Debt(s)' <= strikes'[s]
  <2>1. CASE i \in Free /\ heap'[i] = NewInfo(arrived[c])
    <3>1. Len(heap'[i].failures) = 0
      BY <2>1 DEF NewInfo
    <3>. QED  BY <1>1, <1>2, <3>1
  <2>2. CASE ~(i \in Free /\ heap'[i] = NewInfo(arrived[c]))
    <3>1. Holds(s, i)
      BY <1>3, <2>2, HoldStep
    <3>2. /\ Len(heap[i].failures) + Debt(s) <= strikes[s]
          /\ heap[i].failures \in Seq(Nat) /\ clock \in Nat
      BY <3>1 DEF QueueCounted, TypeOK, SourceInfo
    <3>. DEFINE n == Len(heap[i].failures)  m == Len(heap'[i].failures)
    <3>a. /\ n \in Nat /\ n + Debt(s) <= strikes[s]
          /\ Debt(s) \in Nat /\ Debt(s)' \in Nat
          /\ strikes[s] \in Nat /\ strikes'[s] \in Nat
          /\ Debt(s)' + strikes[s] <= Debt(s) + strikes'[s]
      BY <1>1, <3>2, LenProperties
    <3>3. CASE heap'[i].failures = heap[i].failures
      <4>1. m = n
        BY <3>3
      <4>. HIDE DEF n, m
      <4>2. m + Debt(s)' <= strikes'[s]
        BY <3>a, <4>1
      <4>. QED  BY <4>2 DEF m
    <3>4. CASE /\ heap[i].failures # <<>>
               /\ heap'[i].failures = Tail(heap[i].failures)
      <4>1. /\ Len(heap[i].failures) \in Nat
            /\ Len(heap'[i].failures) = Len(heap[i].failures) - 1
        BY <3>2, <3>4, TailLen
      <4>2. m = n - 1
        BY <4>1
      <4>. HIDE DEF n, m
      <4>3. m + Debt(s)' <= strikes'[s]
        BY <3>a, <4>2
      <4>. QED  BY <4>3 DEF m
    <3>5. CASE /\ pc[c] = "send" /\ i = info[c]
               /\ heap'[i].failures = Append(heap[i].failures, clock)
      <4>1. Holds(SourceOf[c], i) /\ SourceOf[c] \in Sources
        BY <3>5, SourceAssumption DEF Holds
      <4>2. s = SourceOf[c]
        BY <3>1, <4>1 DEF OneOwner
      <4>3. /\ Len(heap[i].failures) \in Nat
            /\ Len(heap'[i].failures) = Len(heap[i].failures) + 1
        BY <3>2, <3>5, AppendLen
      <4>4. /\ Debt(s) \in Nat /\ Debt(s)' \in Nat /\ strikes[s] \in Nat
            /\ Debt(s)' + 1 = Debt(s) /\ strikes'[s] = strikes[s]
        BY <1>1, <3>5, <4>2
      <4>. QED  BY <3>2, <4>3, <4>4
    <3>. QED  BY <2>2, <3>3, <3>4, <3>5, HeapStep
  <2>. QED  BY <2>1, <2>2
<1>. QED  BY <1>2, <1>3 DEF QueueCounted

\* A goroutine does not move the clock, and reads it.
LEMMA ClockStep ==
  ASSUME TypeOK, NEW c \in Conns, Arrive(c) \/ Step(c)
  PROVE  clock' = clock /\ \A d \in Conns : arrived'[d] \in {arrived[d], clock, 0}
<1>1. CASE Arrive(c)
  BY <1>1 DEF Arrive, Runs, TypeOK, shared, locals, history
<1>2. CASE Lookup(c)
  BY <1>2 DEF Lookup, Runs, TypeOK, shared, locals, history
<1>3. CASE Insert(c)
  BY <1>3 DEF Insert, Runs, TypeOK, shared, locals, history
<1>4. CASE Refuse(c)
  BY <1>4 DEF Refuse, Runs, TypeOK, shared, locals, history, Answer
<1>5. CASE Admit(c)
  BY <1>5 DEF Admit, Runs, TypeOK, shared, locals, history
<1>6. CASE Accept(c)
  BY <1>6 DEF Accept, Runs, TypeOK, shared, locals, history, Answer
<1>7. CASE Decline(c)
  BY <1>7 DEF Decline, Runs, TypeOK, shared, locals, history, Answer
<1>8. CASE WrongPassword(c)
  BY <1>8 DEF WrongPassword, Runs, TypeOK, shared, locals, history, Answer
<1>9. CASE Note(c)
  BY <1>9 DEF Note, Runs, TypeOK, shared, locals, history
<1>10. CASE NotePanic(c)
  BY <1>10 DEF NotePanic, Runs, TypeOK, shared, locals, history, Answer
<1>11. CASE Send(c)
  BY <1>11 DEF Send, Runs, TypeOK, shared, locals, history
<1>12. CASE Check(c)
  BY <1>12 DEF Check, Runs, TypeOK, shared, locals, history
<1>13. CASE Pop(c)
  BY <1>13 DEF Pop, Runs, TypeOK, shared, locals, history
<1>14. CASE Ban(c)
  BY <1>14 DEF Ban, Runs, TypeOK, shared, locals, history
<1>15. CASE Drain(c)
  BY <1>15 DEF Drain, Runs, TypeOK, shared, locals, history
<1>16. CASE Recv(c)
  BY <1>16 DEF Recv, Runs, TypeOK, shared, locals, history
<1>17. CASE Prune(c)
  BY <1>17 DEF Prune, Runs, TypeOK, shared, locals, history, Answer
<1>18. CASE Sweep(c)
  BY <1>18 DEF Sweep, NextKey, Runs, TypeOK, shared, locals, history, Answer
<1>19. CASE Delete(c)
  BY <1>19 DEF Delete, NextKey, Runs, TypeOK, shared, locals, history, Answer
<1>. QED  BY <1>1, <1>2, <1>3, <1>4, <1>5, <1>6, <1>7, <1>8, <1>9, <1>10, <1>11, <1>12, <1>13, <1>14, <1>15, <1>16, <1>17, <1>18, <1>19 DEF Step

\* What was enough for a ban stays enough.
LEMMA EnoughStep ==
  ASSUME TypeOK, NEW c \in Conns, Arrive(c) \/ Step(c), NEW s \in Sources, Enough(s)
  PROVE  Enough(s)'
<1>1. strikes[s] \in Nat /\ strikes'[s] \in Nat /\ strikes'[s] >= strikes[s]
  BY DebtStep DEF TypeOK
<1>2. PICK b \in Behaviors : strikes[s] >= b.NumberOfFailedBinds
  BY DEF Enough
<1>3. b.NumberOfFailedBinds \in Nat
  BY <1>2, BehaviorAssumption
<1>4. strikes'[s] >= b.NumberOfFailedBinds
  BY <1>1, <1>2, <1>3
<1>. QED  BY <1>4 DEF Enough

\* A step bans only an address that earned it.
LEMMA BanEarnedStep ==
  ASSUME BanInv, NEW c \in Conns, Arrive(c) \/ Step(c)
  PROVE  BanEarned'
<1>. USE DEF BanInv
<1>1. ASSUME NEW d \in Conns, pc'[d] \in {"pop", "ban"}
      PROVE  Enough(SourceOf[d])'
  <2>0. SourceOf[d] \in Sources
    BY SourceAssumption
  <2>1. CASE pc[d] \in {"pop", "ban"}
    BY <2>0, <2>1, EnoughStep DEF BanEarned
  <2>2. CASE pc[d] \notin {"pop", "ban"}
    <3>1. d = c /\ Len(heap[info[c]].failures) = cfg.NumberOfFailedBinds /\ pc[c] = "check"
      BY <1>1, <2>2, PcStep
    <3>2. info[c] \in InfoIds
      BY <3>1 DEF TypeOK
    <3>3. Holds(SourceOf[c], info[c])
      BY DEF Holds
    <3>4. /\ Len(heap[info[c]].failures) + Debt(SourceOf[c]) <= strikes[SourceOf[c]]
          /\ Len(heap[info[c]].failures) \in Nat
          /\ strikes[SourceOf[c]] \in Nat
      BY <2>0, <3>1, <3>2, <3>3 DEF QueueCounted, TypeOK, SourceInfo
    <3>5. Debt(SourceOf[c]) \in Nat
      BY DebtNat
    <3>6. strikes[SourceOf[c]] >= cfg.NumberOfFailedBinds
      BY <3>1, <3>4, <3>5
    <3>7. Enough(SourceOf[c])
      BY <3>6 DEF Enough, TypeOK
    <3>. QED  BY <2>0, <3>1, <3>7, EnoughStep
  <2>. QED  BY <2>1, <2>2
<1>2. ASSUME NEW s \in Sources, NEW i \in InfoIds, Holds(s, i)',
             heap'[i].waitUntil > clock'
      PROVE  Enough(s)'
  <2>0. clock' = clock /\ clock \in Nat
    BY ClockStep DEF TypeOK
  <2>1. CASE i \in Free /\ heap'[i] = NewInfo(arrived[c])
    <3>1. heap'[i].waitUntil = arrived[c] /\ arrived[c] \in Nat /\ arrived[c] <= clock
      BY <2>1 DEF NewInfo, ArrivedBefore, TypeOK
    <3>. QED  BY <1>2, <2>0, <3>1
  <2>2. CASE ~(i \in Free /\ heap'[i] = NewInfo(arrived[c]))
    <3>1. Holds(s, i)
      BY <1>2, <2>2, HoldStep
    <3>2. CASE heap'[i].waitUntil = heap[i].waitUntil
      <4>1. Enough(s)
        BY <1>2, <2>0, <3>1, <3>2 DEF BanEarned
      <4>. QED  BY <4>1, EnoughStep
    <3>3. CASE pc[c] = "ban" /\ i = info[c]
      <4>1. Holds(SourceOf[c], i) /\ SourceOf[c] \in Sources
        BY <3>3, SourceAssumption DEF Holds
      <4>2. s = SourceOf[c]
        BY <3>1, <4>1 DEF OneOwner
      <4>3. Enough(s)
        BY <3>3, <4>2 DEF BanEarned
      <4>. QED  BY <4>3, EnoughStep
    <3>. QED  BY <2>2, <3>2, <3>3, HeapStep
  <2>. QED  BY <2>1, <2>2
<1>. QED  BY <1>1, <1>2 DEF BanEarned

\* BanInv holds at start.
LEMMA BanInvInit == Init => BanInv
<1>. SUFFICES ASSUME Init PROVE BanInv
  OBVIOUS
<1>1. TypeOK
  BY TypeInit
<1>2. \A s \in Sources, i \in InfoIds : ~Holds(s, i)
  BY InfoAssumption DEF Init, Holds
<1>3. \A s \in Sources : Debt(s) = 0 /\ strikes[s] = 0
  <2>1. \A s \in Sources : Owing(s) = {}
    BY DEF Init, Owing
  <2>. QED  BY <2>1, FS_EmptySet DEF Debt, Init
<1>4. BanEarned
  BY <1>2 DEF BanEarned, Init
<1>5. ArrivedBefore
  BY DEF ArrivedBefore, Init
<1>. QED  BY <1>1, <1>2, <1>3, <1>4, <1>5 DEF BanInv, OneOwner, QueueCounted

\* BanInv is inductive.
LEMMA BanInvStep == BanInv /\ [Next]_vars => BanInv'
<1>. SUFFICES ASSUME BanInv, [Next]_vars PROVE BanInv'
  OBVIOUS
<1>1. TypeOK'
  BY TypeStep DEF BanInv
<1>2. ASSUME NEW c \in Conns, Arrive(c) \/ Step(c) PROVE BanInv'
  <2>1. ArrivedBefore'
    <3>1. clock' = clock /\ \A d \in Conns : arrived'[d] \in {arrived[d], clock, 0}
      BY <1>2, ClockStep DEF BanInv
    <3>. QED  BY <3>1 DEF BanInv, ArrivedBefore, TypeOK
  <2>. QED  BY <1>1, <1>2, <2>1, OneOwnerStep, QueueCountedStep, BanEarnedStep DEF BanInv
<1>3. CASE Tick
  <2>1. clock' = clock + 1 /\ clock \in Nat
    BY <1>3 DEF Tick, BanInv, TypeOK
  <2>2. UNCHANGED <<sources, heap, pc, info, arrived, strikes>>
    BY <1>3 DEF Tick, shared, locals, history
  <2>3. OneOwner' /\ QueueCounted'
    BY <2>2 DEF BanInv, OneOwner, QueueCounted, Holds, Debt, Owing
  <2>4. ArrivedBefore'
    BY <2>1, <2>2 DEF BanInv, ArrivedBefore, TypeOK
  <2>5. BanEarned'
    <3>1. ASSUME NEW s \in Sources, NEW i \in InfoIds, Holds(s, i)',
                 heap'[i].waitUntil > clock'
          PROVE  Enough(s)'
      <4>1. heap[i].waitUntil \in Nat /\ heap[i].waitUntil > clock
        BY <2>1, <2>2, <3>1 DEF BanInv, TypeOK, SourceInfo
      <4>2. Holds(s, i)
        BY <2>2, <3>1 DEF Holds
      <4>. QED  BY <2>2, <4>1, <4>2 DEF BanInv, BanEarned, Enough
    <3>2. ASSUME NEW d \in Conns, pc'[d] \in {"pop", "ban"} PROVE Enough(SourceOf[d])'
      BY <2>2, <3>2 DEF BanInv, BanEarned, Enough
    <3>. QED  BY <3>1, <3>2 DEF BanEarned
  <2>. QED  BY <1>1, <2>3, <2>4, <2>5 DEF BanInv
<1>4. CASE UNCHANGED <<clock, sources, heap, pc, info, arrived, strikes>>
  BY <1>1, <1>4 DEF BanInv, OneOwner, QueueCounted, BanEarned, ArrivedBefore,
                    Holds, Debt, Owing, Enough
<1>. QED  BY <1>2, <1>3, <1>4 DEF Next, Reload, Abort, vars, shared, locals, history

\* Every variable of the throttle keeps its type, for any number of
\* connections, addresses and reloads.
THEOREM TypeCorrect == Spec => []TypeOK
  BY TypeInit, TypeStep, PTL DEF Spec

\* An address in a timeout sent, itself, at least as many wrong passwords as
\* the smallest limit in force so far, however its connections and those of
\* others interleave.
THEOREM BansAreEarned == Spec => []BanNeedsStrikes
<1>1. BanInv => BanNeedsStrikes
  <2>. SUFFICES ASSUME BanInv, NEW s \in Sources, WaitUntil(s) > clock
                PROVE  Enough(s)
    BY DEF BanNeedsStrikes, Enough
  <2>1. sources[s] # NoInfo
    BY DEF WaitUntil, BanInv, TypeOK
  <2>2. sources[s] \in InfoIds /\ Holds(s, sources[s])
    BY <2>1 DEF BanInv, TypeOK, Holds
  <2>. QED  BY <2>1, <2>2 DEF WaitUntil, BanInv, BanEarned
<1>. QED  BY <1>1, BanInvInit, BanInvStep, PTL DEF Spec

-----------------------------------------------------------------------------
(* One connection per address, limiting always on with a limit that is not *)
(* reloaded: nobody ever waits on a channel, and bans are honoured.        *)

Limit == InitBehavior.NumberOfFailedBinds

OwnAddresses ==
    /\ \A c, d \in Conns : SourceOf[c] = SourceOf[d] => c = d
    /\ Behaviors = {InitBehavior}
    /\ InitBehavior.LimitFailedBinds
    /\ Limit >= 1

\* The channel of an address has its limit as size, and is full only between
\* a send and the matching receive.
Room ==
    /\ cfg = InitBehavior
    /\ \A c \in Conns, i \in InfoIds :
         Holds(SourceOf[c], i) =>
            /\ heap[i].size = Limit
            /\ Len(heap[i].failures) <= Limit
            /\ (Len(heap[i].failures) = Limit =>
                  pc[c] \in {"check", "pop"} /\ info[c] = i)
    /\ \A c \in Conns :
         /\ pc[c] = "pop" => Len(Failures(c)) = Limit
         /\ pc[c] = "recv" => Failures(c) # <<>>

RoomInv == BanInv /\ Room

\* A source that is stale has outlived its bans by the time two requests take;
\* it is pruned one tick after PruneSourcesOlderThan at the earliest.
LongMemory == PruneSourcesOlderThan + 1 >= BlockFailedBindsFor + 2 * MaxService

InFlight(c) == pc[c] # "idle"

\* Requests are young, and a pruning loop uses a time that has passed.
Young == \A c \in Conns :
    /\ InFlight(c) => clock <= arrived[c] + MaxService
    /\ noted[c] <= clock

\* The entry of an address remembers its last ban until no request that
\* arrived during it is left, or until a pruning loop deletes what it saw stale
\* a while before.
Remembered == \A s \in Sources :
    IF sources[s] = NoInfo
    THEN banEnd[s] + MaxService <= clock \/ banEnd[s] = 0 \/ s \in erased
    ELSE LET e == heap[sources[s]] IN
         /\ s \notin erased
         /\ banEnd[s] <= e.waitUntil
         /\ e.waitUntil <= e.lastSeen + BlockFailedBindsFor + MaxService

\* What a goroutine knows of its address.
Known == \A c \in Conns :
    LET s == SourceOf[c] IN
    /\ pc[c] = "insert" => sources[s] = NoInfo /\ (banEnd[s] <= arrived[c] \/ s \in erased)
    /\ pc[c] = "touch" => /\ banEnd[s] <= heap[info[c]].waitUntil
                          /\ heap[info[c]].waitUntil <= arrived[c] + BlockFailedBindsFor + MaxService
                          /\ sources[s] \in {info[c], NoInfo}
    /\ pc[c] \in {"serve", "note"} =>
         (sources[s] # NoInfo => heap[sources[s]].lastSeen = arrived[c])
    /\ sources[s] # NoInfo =>
         heap[sources[s]].lastSeen <= IF InFlight(c) THEN arrived[c] ELSE clock
    /\ pc[c] \in {"send", "check", "pop", "ban", "drain", "recv"} =>
         /\ sources[s] = info[c] \/ s \in erased
         /\ heap[info[c]].lastSeen = arrived[c]

HonourInv == RoomInv /\ Young /\ Remembered /\ Known

\* A step of one goroutine leaves the locals of the others alone.
LEMMA OthersStep ==
  ASSUME TypeOK, NEW c \in Conns, Arrive(c) \/ Step(c), NEW d \in Conns, d # c
  PROVE  /\ pc'[d] = pc[d] /\ info'[d] = info[d]
         /\ arrived'[d] = arrived[d] /\ noted'[d] = noted[d]
         /\ doomed'[d] = doomed[d]
<1>1. CASE Arrive(c)
  BY <1>1 DEF Arrive, Runs, Goto, TypeOK, shared, locals, history
<1>2. CASE Lookup(c)
  BY <1>2 DEF Lookup, Runs, Goto, TypeOK, shared, locals, history
<1>3. CASE Insert(c)
  BY <1>3 DEF Insert, Runs, Goto, TypeOK, shared, locals, history
<1>4. CASE Refuse(c)
  BY <1>4 DEF Refuse, Runs, Goto, TypeOK, shared, locals, history, Answer
<1>5. CASE Admit(c)
  BY <1>5 DEF Admit, Runs, Goto, TypeOK, shared, locals, history
<1>6. CASE Accept(c)
  BY <1>6 DEF Accept, Runs, Goto, TypeOK, shared, locals, history, Answer
<1>7. CASE Decline(c)
  BY <1>7 DEF Decline, Runs, Goto, TypeOK, shared, locals, history, Answer
<1>8. CASE WrongPassword(c)
  BY <1>8 DEF WrongPassword, Runs, Goto, TypeOK, shared, locals, history, Answer
<1>9. CASE Note(c)
  BY <1>9 DEF Note, Runs, Goto, TypeOK, shared, locals, history
<1>10. CASE NotePanic(c)
  BY <1>10 DEF NotePanic, Runs, Goto, TypeOK, shared, locals, history, Answer
<1>11. CASE Send(c)
  BY <1>11 DEF Send, Runs, Goto, TypeOK, shared, locals, history
<1>12. CASE Check(c)
  BY <1>12 DEF Check, Runs, Goto, TypeOK, shared, locals, history
<1>13. CASE Pop(c)
  BY <1>13 DEF Pop, Runs, Goto, TypeOK, shared, locals, history
<1>14. CASE Ban(c)
  BY <1>14 DEF Ban, Runs, Goto, TypeOK, shared, locals, history
<1>15. CASE Drain(c)
  BY <1>15 DEF Drain, Runs, Goto, TypeOK, shared, locals, history
<1>16. CASE Recv(c)
  BY <1>16 DEF Recv, Runs, Goto, TypeOK, shared, locals, history
<1>17. CASE Prune(c)
  BY <1>17 DEF Prune, Runs, Goto, TypeOK, shared, locals, history, Answer
<1>18. CASE Sweep(c)
  BY <1>18 DEF Sweep, NextKey, Runs, Goto, TypeOK, shared, locals, history, Answer
<1>19. CASE Delete(c)
  BY <1>19 DEF Delete, NextKey, Runs, Goto, TypeOK, shared, locals, history, Answer
<1>. QED  BY <1>1, <1>2, <1>3, <1>4, <1>5, <1>6, <1>7, <1>8, <1>9, <1>10, <1>11, <1>12, <1>13, <1>14, <1>15, <1>16, <1>17, <1>18, <1>19 DEF Step

\* A table entry changes when its own address inserts one or when a pruning
\* loop deletes it, stale still or not any more.
LEMMA TableStep ==
  ASSUME TypeOK, NEW c \in Conns, Arrive(c) \/ Step(c), NEW s \in Sources
  PROVE  \/ sources'[s] = sources[s]
         \/ pc[c] = "insert" /\ s = SourceOf[c]
         \/ sources'[s] = NoInfo /\ pc[c] = "delete" /\ (Stale(s, noted[c]) \/ s \in erased')
<1>. USE SourceAssumption
<1>1. CASE Arrive(c)
  BY <1>1 DEF Arrive, Runs, TypeOK, shared, locals, history
<1>2. CASE Lookup(c)
  BY <1>2 DEF Lookup, Runs, TypeOK, shared, locals, history
<1>3. CASE Insert(c)
  BY <1>3 DEF Insert, Runs, TypeOK, shared, locals, history
<1>4. CASE Refuse(c)
  BY <1>4 DEF Refuse, Runs, TypeOK, shared, locals, history, Answer
<1>5. CASE Admit(c)
  BY <1>5 DEF Admit, Runs, TypeOK, shared, locals, history
<1>6. CASE Accept(c)
  BY <1>6 DEF Accept, Runs, TypeOK, shared, locals, history, Answer
<1>7. CASE Decline(c)
  BY <1>7 DEF Decline, Runs, TypeOK, shared, locals, history, Answer
<1>8. CASE WrongPassword(c)
  BY <1>8 DEF WrongPassword, Runs, TypeOK, shared, locals, history, Answer
<1>9. CASE Note(c)
  BY <1>9 DEF Note, Runs, TypeOK, shared, locals, history
<1>10. CASE NotePanic(c)
  BY <1>10 DEF NotePanic, Runs, TypeOK, shared, locals, history, Answer
<1>11. CASE Send(c)
  BY <1>11 DEF Send, Runs, TypeOK, shared, locals, history
<1>12. CASE Check(c)
  BY <1>12 DEF Check, Runs, TypeOK, shared, locals, history
<1>13. CASE Pop(c)
  BY <1>13 DEF Pop, Runs, TypeOK, shared, locals, history
<1>14. CASE Ban(c)
  BY <1>14 DEF Ban, Runs, TypeOK, shared, locals, history
<1>15. CASE Drain(c)
  BY <1>15 DEF Drain, Runs, TypeOK, shared, locals, history
<1>16. CASE Recv(c)
  BY <1>16 DEF Recv, Runs, TypeOK, shared, locals, history
<1>17. CASE Prune(c)
  BY <1>17 DEF Prune, Runs, TypeOK, shared, locals, history, Answer
<1>18. CASE Sweep(c)
  BY <1>18 DEF Sweep, NextKey, Runs, TypeOK, shared, locals, history, Answer
<1>19. CASE Delete(c)
  BY <1>19 DEF Delete, NextKey, Runs, TypeOK, shared, locals, history, Answer
<1>. QED  BY <1>1, <1>2, <1>3, <1>4, <1>5, <1>6, <1>7, <1>8, <1>9, <1>10, <1>11, <1>12, <1>13, <1>14, <1>15, <1>16, <1>17, <1>18, <1>19 DEF Step

\* A cell changes in the hands of the goroutine that holds it, or is new.
LEMMA CellStep ==
  ASSUME TypeOK, NEW c \in Conns, Arrive(c) \/ Step(c), NEW i \in InfoIds
  PROVE  \/ heap'[i] = heap[i]
         \/ i = info[c] /\ pc[c] \in {"touch", "send", "pop", "ban", "recv"}
         \/ i \in Free /\ heap'[i] = NewInfo(arrived[c])
<1>. USE SourceAssumption, InfoAssumption
<1>1. CASE Arrive(c)
  BY <1>1 DEF Arrive, Runs, TypeOK, shared, locals, history
<1>2. CASE Lookup(c)
  BY <1>2 DEF Lookup, Runs, TypeOK, shared, locals, history
<1>3. CASE Insert(c)
  <2>1. PICK n \in Free : heap' = [heap EXCEPT ![n] = NewInfo(arrived[c])]
    BY <1>3 DEF Insert
  <2>. QED  BY <2>1 DEF Free, TypeOK
<1>4. CASE Refuse(c)
  BY <1>4 DEF Refuse, Runs, TypeOK, shared, locals, history, Answer
<1>5. CASE Admit(c)
  BY <1>5 DEF Admit, Runs, TypeOK, shared, locals, history
<1>6. CASE Accept(c)
  BY <1>6 DEF Accept, Runs, TypeOK, shared, locals, history, Answer
<1>7. CASE Decline(c)
  BY <1>7 DEF Decline, Runs, TypeOK, shared, locals, history, Answer
<1>8. CASE WrongPassword(c)
  BY <1>8 DEF WrongPassword, Runs, TypeOK, shared, locals, history, Answer
<1>9. CASE Note(c)
  BY <1>9 DEF Note, Runs, TypeOK, shared, locals, history
<1>10. CASE NotePanic(c)
  BY <1>10 DEF NotePanic, Runs, TypeOK, shared, locals, history, Answer
<1>11. CASE Send(c)
  BY <1>11 DEF Send, Runs, TypeOK, shared, locals, history
<1>12. CASE Check(c)
  BY <1>12 DEF Check, Runs, TypeOK, shared, locals, history
<1>13. CASE Pop(c)
  BY <1>13 DEF Pop, Runs, TypeOK, shared, locals, history
<1>14. CASE Ban(c)
  BY <1>14 DEF Ban, Runs, TypeOK, shared, locals, history
<1>15. CASE Drain(c)
  BY <1>15 DEF Drain, Runs, TypeOK, shared, locals, history
<1>16. CASE Recv(c)
  BY <1>16 DEF Recv, Runs, TypeOK, shared, locals, history
<1>17. CASE Prune(c)
  BY <1>17 DEF Prune, Runs, TypeOK, shared, locals, history, Answer
<1>18. CASE Sweep(c)
  BY <1>18 DEF Sweep, NextKey, Runs, TypeOK, shared, locals, history, Answer
<1>19. CASE Delete(c)
  BY <1>19 DEF Delete, NextKey, Runs, TypeOK, shared, locals, history, Answer
<1>. QED  BY <1>1, <1>2, <1>3, <1>4, <1>5, <1>6, <1>7, <1>8, <1>9, <1>10, <1>11, <1>12, <1>13, <1>14, <1>15, <1>16, <1>17, <1>18, <1>19 DEF Step

\* What the steps around the channel do, label by label.
LEMMA LabelStep ==
  ASSUME TypeOK, NEW c \in Conns, Arrive(c) \/ Step(c)
  PROVE  /\ cfg' = cfg
         /\ pc[c] = "check" => heap' = heap /\ info' = info
         /\ pc[c] = "check" /\ Len(Failures(c)) = cfg.NumberOfFailedBinds => pc'[c] = "pop"
         /\ pc[c] = "send" => info' = info /\ pc'[c] = "check"
         /\ pc[c] = "pop" => /\ Failures(c) # <<>>
                             /\ heap'[info[c]].failures = Tail(Failures(c))
         /\ pc'[c] = "recv" => pc[c] = "drain" /\ heap' = heap /\ info' = info /\ Failures(c) # <<>>
         /\ \A i \in InfoIds : i \notin Free => heap'[i].size = heap[i].size
<1>. USE SourceAssumption, InfoAssumption
<1>1. CASE Arrive(c)
  BY <1>1 DEF Arrive, Runs, Goto, Failures, SourceInfo, TypeOK, shared, locals, history
<1>2. CASE Lookup(c)
  BY <1>2 DEF Lookup, Runs, Goto, Failures, SourceInfo, TypeOK, shared, locals, history
<1>3. CASE Insert(c)
  BY <1>3 DEF Insert, Runs, Goto, Failures, SourceInfo, TypeOK, shared, locals, history, Free
<1>4. CASE Refuse(c)
  BY <1>4 DEF Refuse, Runs, Goto, Failures, SourceInfo, TypeOK, shared, locals, history, Answer
<1>5. CASE Admit(c)
  BY <1>5 DEF Admit, Runs, Goto, Failures, SourceInfo, TypeOK, shared, locals, history
<1>6. CASE Accept(c)
  BY <1>6 DEF Accept, Runs, Goto, Failures, SourceInfo, TypeOK, shared, locals, history, Answer
<1>7. CASE Decline(c)
  BY <1>7 DEF Decline, Runs, Goto, Failures, SourceInfo, TypeOK, shared, locals, history, Answer
<1>8. CASE WrongPassword(c)
  BY <1>8 DEF WrongPassword, Runs, Goto, Failures, SourceInfo, TypeOK, shared, locals, history, Answer
<1>9. CASE Note(c)
  BY <1>9 DEF Note, Runs, Goto, Failures, SourceInfo, TypeOK, shared, locals, history
<1>10. CASE NotePanic(c)
  BY <1>10 DEF NotePanic, Runs, Goto, Failures, SourceInfo, TypeOK, shared, locals, history, Answer
<1>11. CASE Send(c)
  BY <1>11 DEF Send, Runs, Goto, Failures, SourceInfo, TypeOK, shared, locals, history
<1>12. CASE Check(c)
  BY <1>12 DEF Check, Runs, Goto, Failures, SourceInfo, TypeOK, shared, locals, history
<1>13. CASE Pop(c)
  BY <1>13 DEF Pop, Runs, Goto, Failures, SourceInfo, TypeOK, shared, locals, history
<1>14. CASE Ban(c)
  BY <1>14 DEF Ban, Runs, Goto, Failures, SourceInfo, TypeOK, shared, locals, history
<1>15. CASE Drain(c)
  BY <1>15 DEF Drain, Runs, Goto, Failures, SourceInfo, TypeOK, shared, locals, history
<1>16. CASE Recv(c)
  BY <1>16 DEF Recv, Runs, Goto, Failures, SourceInfo, TypeOK, shared, locals, history
<1>17. CASE Prune(c)
  BY <1>17 DEF Prune, Runs, Goto, Failures, SourceInfo, TypeOK, shared, locals, history, Answer
<1>18. CASE Sweep(c)
  BY <1>18 DEF Sweep, NextKey, Runs, Goto, Failures, SourceInfo, TypeOK, shared, locals, history, Answer
<1>19. CASE Delete(c)
  BY <1>19 DEF Delete, NextKey, Runs, Goto, Failures, SourceInfo, TypeOK, shared, locals, history, Answer
<1>. QED  BY <1>1, <1>2, <1>3, <1>4, <1>5, <1>6, <1>7, <1>8, <1>9, <1>10, <1>11, <1>12, <1>13, <1>14, <1>15, <1>16, <1>17, <1>18, <1>19 DEF Step

\* A step leaves room in the channel of its own address.
LEMMA RoomOwn ==
  ASSUME RoomInv, OwnAddresses, NEW c \in Conns, Arrive(c) \/ Step(c),
         NEW i \in InfoIds, Holds(SourceOf[c], i)'
  PROVE  /\ heap'[i].size = Limit
         /\ Len(heap'[i].failures) <= Limit
         /\ (Len(heap'[i].failures) = Limit => pc'[c] \in {"check", "pop"} /\ info'[c] = i)
<1>. USE DEF RoomInv, BanInv
<1>0. /\ SourceOf[c] \in Sources /\ Limit \in Nat /\ Limit >= 1
      /\ cfg = InitBehavior /\ Limit = cfg.NumberOfFailedBinds
  BY SourceAssumption, BehaviorAssumption DEF OwnAddresses, Limit, Room
<1>1. CASE i \in Free /\ heap'[i] = NewInfo(arrived[c])
  <2>1. heap'[i].size = Limit /\ Len(heap'[i].failures) = 0
    BY <1>0, <1>1 DEF NewInfo
  <2>. QED  BY <1>0, <2>1
<1>2. CASE ~(i \in Free /\ heap'[i] = NewInfo(arrived[c]))
  <2>1. Holds(SourceOf[c], i) /\ i \notin Free
    BY <1>0, <1>2, HoldStep, FreeNotHeld
  <2>2. /\ heap[i].size = Limit
        /\ Len(heap[i].failures) <= Limit
        /\ (Len(heap[i].failures) = Limit => pc[c] \in {"check", "pop"} /\ info[c] = i)
    BY <2>1 DEF Room
  <2>3. heap[i].failures \in Seq(Nat) /\ clock \in Nat /\ Len(heap[i].failures) \in Nat
    BY LenProperties DEF TypeOK, SourceInfo
  <2>4. heap'[i].size = Limit
    BY <2>1, <2>2, LabelStep
  <2>5. CASE heap'[i].failures = heap[i].failures
    <3>1. ASSUME Len(heap[i].failures) = Limit
          PROVE  pc'[c] \in {"check", "pop"} /\ info'[c] = i
      <4>1. info[c] = i /\ pc[c] # "pop"
        <5>1. SUFFICES ASSUME pc[c] = "pop" PROVE FALSE
          BY <2>2, <3>1
        <5>2. info[c] = i /\ heap[i].failures # <<>>
              /\ heap[i].failures = Tail(heap[i].failures)
          BY <2>2, <2>5, <3>1, <5>1, LabelStep DEF Failures
        <5>3. Len(Tail(heap[i].failures)) = Len(heap[i].failures) - 1
          BY <2>3, <5>2, TailLen
        <5>4. Len(heap[i].failures) = Len(heap[i].failures) - 1
          BY <5>2, <5>3
        <5>. QED  BY <2>3, <5>4
      <4>. QED  BY <1>0, <2>2, <3>1, <4>1, LabelStep DEF Failures
    <3>. QED  BY <2>2, <2>4, <2>5, <3>1
  <2>6. CASE heap[i].failures # <<>> /\ heap'[i].failures = Tail(heap[i].failures)
    <3>1. Len(heap'[i].failures) = Len(heap[i].failures) - 1
      BY <2>3, <2>6, TailLen
    <3>. QED  BY <1>0, <2>2, <2>3, <2>4, <3>1
  <2>7. CASE /\ pc[c] = "send" /\ i = info[c]
             /\ heap'[i].failures = Append(heap[i].failures, clock)
    <3>1. Len(heap'[i].failures) = Len(heap[i].failures) + 1
      BY <2>3, <2>7, AppendLen
    <3>2. Len(heap[i].failures) # Limit
      BY <2>2, <2>7
    <3>3. pc'[c] = "check" /\ info'[c] = i
      BY <2>7, LabelStep
    <3>. QED  BY <1>0, <2>2, <2>3, <2>4, <3>1, <3>2, <3>3
  <2>. QED  BY <1>2, <2>5, <2>6, <2>7, HeapStep
<1>. QED  BY <1>1, <1>2

\* A step leaves the cells of the other addresses alone.
LEMMA HeldByOther ==
  ASSUME BanInv, OwnAddresses, NEW c \in Conns, Arrive(c) \/ Step(c),
         NEW s \in Sources, s # SourceOf[c], NEW i \in InfoIds
  PROVE  /\ Holds(s, i)' => Holds(s, i)
         /\ Holds(s, i) => heap'[i] = heap[i]
<1>. USE DEF BanInv
<1>1. Holds(s, i)' => Holds(s, i)
  BY HoldStep
<1>2. ASSUME Holds(s, i) PROVE heap'[i] = heap[i]
  <2>1. i # info[c]
    BY <1>2, SourceAssumption DEF OneOwner, Holds
  <2>2. i \notin Free
    BY <1>2, FreeNotHeld
  <2>. QED  BY <2>1, <2>2, CellStep
<1>. QED  BY <1>1, <1>2

\* A step leaves room in every channel.
LEMMA RoomStep ==
  ASSUME RoomInv, OwnAddresses, NEW c \in Conns, Arrive(c) \/ Step(c)
  PROVE  Room'
<1>. USE DEF RoomInv, BanInv
<1>1. cfg' = InitBehavior
  BY LabelStep DEF Room
<1>2. ASSUME NEW d \in Conns, NEW i \in InfoIds, Holds(SourceOf[d], i)'
      PROVE  /\ heap'[i].size = Limit
             /\ Len(heap'[i].failures) <= Limit
             /\ (Len(heap'[i].failures) = Limit => pc'[d] \in {"check", "pop"} /\ info'[d] = i)
  <2>1. CASE d = c
    BY <1>2, <2>1, RoomOwn
  <2>2. CASE d # c
    <3>1. SourceOf[d] \in Sources /\ SourceOf[d] # SourceOf[c]
      BY <2>2, SourceAssumption DEF OwnAddresses
    <3>2. Holds(SourceOf[d], i) /\ heap'[i] = heap[i]
      BY <1>2, <3>1, HeldByOther
    <3>. QED  BY <2>2, <3>2, OthersStep DEF Room
  <2>. QED  BY <2>1, <2>2
<1>3. ASSUME NEW d \in Conns
      PROVE  /\ pc'[d] = "pop" => Len(Failures(d)') = Limit
             /\ pc'[d] = "recv" => Failures(d)' # <<>>
  <2>1. CASE d = c
    <3>1. CASE pc'[c] = "pop"
      <4>1. pc[c] = "check" /\ Len(heap[info[c]].failures) = cfg.NumberOfFailedBinds
        BY <3>1, PcStep
      <4>. QED  BY <2>1, <3>1, <4>1, LabelStep DEF Failures, Limit, Room
    <3>2. CASE pc'[c] = "recv"
      BY <2>1, <3>2, LabelStep DEF Failures
    <3>. QED  BY <2>1, <3>1, <3>2
  <2>2. CASE d # c /\ pc[d] \in {"pop", "recv"}
    <3>1. SourceOf[d] \in Sources /\ SourceOf[d] # SourceOf[c]
      BY <2>2, SourceAssumption DEF OwnAddresses
    <3>2. info[d] \in InfoIds /\ Holds(SourceOf[d], info[d])
      BY <2>2 DEF TypeOK, Holds
    <3>3. heap'[info[d]] = heap[info[d]]
      BY <3>1, <3>2, HeldByOther
    <3>. QED  BY <2>2, <3>3, OthersStep DEF Failures, Room
  <2>. QED  BY <2>1, <2>2, OthersStep
<1>. QED  BY <1>1, <1>2, <1>3 DEF Room

\* With room in every channel nobody waits.
LEMMA RoomInvParked == RoomInv /\ OwnAddresses => NeverParked
<1>. SUFFICES ASSUME RoomInv, OwnAddresses, NEW c \in Conns, Blocked(c) PROVE FALSE
  BY DEF NeverParked
<1>1. Limit \in Nat /\ Limit >= 1 /\ SourceOf[c] \in Sources
  BY SourceAssumption, BehaviorAssumption DEF OwnAddresses, Limit
<1>2. CASE pc[c] = "send" /\ Len(Failures(c)) >= heap[info[c]].size
  <2>1. info[c] \in InfoIds /\ Holds(SourceOf[c], info[c])
    BY <1>2 DEF RoomInv, BanInv, TypeOK, Holds
  <2>2. heap[info[c]].failures \in Seq(Nat)
    BY <2>1 DEF RoomInv, BanInv, TypeOK, SourceInfo
  <2>3. Len(Failures(c)) \in Nat
    BY <2>2, LenProperties DEF Failures
  <2>4. /\ heap[info[c]].size = Limit /\ Len(Failures(c)) <= Limit
        /\ Len(Failures(c)) # Limit
    BY <1>2, <2>1 DEF RoomInv, Room, Failures
  <2>. QED  BY <1>1, <1>2, <2>3, <2>4
<1>3. CASE pc[c] \in {"pop", "recv"} /\ Failures(c) = <<>>
  <2>1. pc[c] = "pop" => Len(<<>>) = Limit
    BY <1>3 DEF RoomInv, Room
  <2>2. Len(<<>>) = 0
    OBVIOUS
  <2>3. pc[c] # "recv"
    BY <1>3 DEF RoomInv, Room
  <2>. QED  BY <1>1, <1>3, <2>1, <2>2, <2>3
<1>. QED  BY <1>2, <1>3 DEF Blocked

\* RoomInv holds at start.
LEMMA RoomInvInit == Init /\ OwnAddresses => RoomInv
<1>. SUFFICES ASSUME Init, OwnAddresses PROVE RoomInv
  OBVIOUS
<1>1. BanInv
  BY BanInvInit
<1>2. \A s \in Sources, i \in InfoIds : ~Holds(s, i)
  BY InfoAssumption DEF Init, Holds
<1>. QED  BY <1>1, <1>2, SourceAssumption DEF RoomInv, Room, Init

\* RoomInv is inductive.
LEMMA RoomInvStep == RoomInv /\ OwnAddresses /\ [Next]_vars => RoomInv'
<1>. SUFFICES ASSUME RoomInv, OwnAddresses, [Next]_vars PROVE RoomInv'
  OBVIOUS
<1>1. BanInv'
  BY BanInvStep DEF RoomInv
<1>2. ASSUME NEW c \in Conns, Arrive(c) \/ Step(c) PROVE Room'
  BY <1>2, RoomStep
<1>3. CASE UNCHANGED <<cfg, sources, heap, pc, info>>
  <2>1. \A s \in Sources, i \in InfoIds : Holds(s, i)' <=> Holds(s, i)
    BY <1>3 DEF Holds
  <2>2. cfg' = cfg /\ heap' = heap /\ pc' = pc /\ info' = info
    BY <1>3
  <2>3. Room'
    BY <2>1, <2>2, SourceAssumption DEF RoomInv, Room, Failures
  <2>. QED  BY <1>1, <2>3 DEF RoomInv
<1>4. ~Reload
  <2>1. cfg = InitBehavior /\ Behaviors = {InitBehavior}
    BY DEF OwnAddresses, RoomInv, Room
  <2>. QED  BY <2>1 DEF Reload
<1>. QED  BY <1>1, <1>2, <1>3, <1>4 DEF RoomInv, Next, Tick, Abort, vars, shared, locals, history

\* When every address is used by one connection, with limiting on, at least
\* one attempt allowed and no reload, no request ever waits on a channel.
THEOREM NobodyIsParked == ASSUME OwnAddresses PROVE Spec => []NeverParked
<1>1. Init => RoomInv
  BY RoomInvInit, OwnAddresses
<1>2. RoomInv /\ [Next]_vars => RoomInv'
  BY RoomInvStep, OwnAddresses
<1>3. RoomInv => NeverParked
  BY RoomInvParked, OwnAddresses
<1>. QED  BY <1>1, <1>2, <1>3, PTL DEF Spec

\* How a goroutine's own times and the history of bans move.
LEMMA TimesStep ==
  ASSUME TypeOK, NEW c \in Conns, Arrive(c) \/ Step(c)
  PROVE  /\ clock' = clock
         /\ noted'[c] \in {noted[c], clock, 0}
         /\ pc[c] = "idle" => arrived'[c] = clock
         /\ pc[c] # "idle" /\ pc'[c] # "idle" => arrived'[c] = arrived[c]
         /\ pc[c] \notin {"ban", "insert"} => banEnd' = banEnd
         /\ pc[c] = "insert" =>
              /\ erased' = erased \ {SourceOf[c]}
              /\ banEnd' = IF SourceOf[c] \in erased
                           THEN [banEnd EXCEPT ![SourceOf[c]] = 0] ELSE banEnd
         /\ pc[c] = "delete" =>
              /\ erased \subseteq erased'
              /\ \A s \in erased' : s \in erased \/ sources'[s] = NoInfo
         /\ pc[c] \notin {"insert", "delete"} => erased' = erased
         /\ pc[c] = "ban" =>
              /\ banEnd' = [banEnd EXCEPT ![SourceOf[c]] = clock + BlockFailedBindsFor]
              /\ heap'[info[c]] = [heap[info[c]] EXCEPT !.waitUntil = clock + BlockFailedBindsFor]
         /\ pc[c] = "touch" =>
              heap'[info[c]] = [heap[info[c]] EXCEPT !.lastSeen = arrived[c]]
         /\ pc[c] \in {"send", "pop", "recv"} =>
              /\ heap'[info[c]].lastSeen = heap[info[c]].lastSeen
              /\ heap'[info[c]].waitUntil = heap[info[c]].waitUntil
<1>1. CASE Arrive(c)
  BY <1>1 DEF Arrive, Runs, Goto, Failures, SourceInfo, TypeOK, shared, locals, history
<1>2. CASE Lookup(c)
  BY <1>2 DEF Lookup, Runs, Goto, Failures, SourceInfo, TypeOK, shared, locals, history
<1>3. CASE Insert(c)
  BY <1>3 DEF Insert, Runs, Goto, Failures, SourceInfo, TypeOK, shared, locals, history
<1>4. CASE Refuse(c)
  BY <1>4 DEF Refuse, Runs, Goto, Failures, SourceInfo, TypeOK, shared, locals, history, Answer
<1>5. CASE Admit(c)
  BY <1>5 DEF Admit, Runs, Goto, Failures, SourceInfo, TypeOK, shared, locals, history
<1>6. CASE Accept(c)
  BY <1>6 DEF Accept, Runs, Goto, Failures, SourceInfo, TypeOK, shared, locals, history, Answer
<1>7. CASE Decline(c)
  BY <1>7 DEF Decline, Runs, Goto, Failures, SourceInfo, TypeOK, shared, locals, history, Answer
<1>8. CASE WrongPassword(c)
  BY <1>8 DEF WrongPassword, Runs, Goto, Failures, SourceInfo, TypeOK, shared, locals, history, Answer
<1>9. CASE Note(c)
  BY <1>9 DEF Note, Runs, Goto, Failures, SourceInfo, TypeOK, shared, locals, history
<1>10. CASE NotePanic(c)
  BY <1>10 DEF NotePanic, Runs, Goto, Failures, SourceInfo, TypeOK, shared, locals, history, Answer
<1>11. CASE Send(c)
  BY <1>11 DEF Send, Runs, Goto, Failures, SourceInfo, TypeOK, shared, locals, history
<1>12. CASE Check(c)
  BY <1>12 DEF Check, Runs, Goto, Failures, SourceInfo, TypeOK, shared, locals, history
<1>13. CASE Pop(c)
  BY <1>13 DEF Pop, Runs, Goto, Failures, SourceInfo, TypeOK, shared, locals, history
<1>14. CASE Ban(c)
  BY <1>14 DEF Ban, Runs, Goto, Failures, SourceInfo, TypeOK, shared, locals, history
<1>15. CASE Drain(c)
  BY <1>15 DEF Drain, Runs, Goto, Failures, SourceInfo, TypeOK, shared, locals, history
<1>16. CASE Recv(c)
  BY <1>16 DEF Recv, Runs, Goto, Failures, SourceInfo, TypeOK, shared, locals, history
<1>17. CASE Prune(c)
  BY <1>17 DEF Prune, Runs, Goto, Failures, SourceInfo, TypeOK, shared, locals, history, Answer
<1>18. CASE Sweep(c)
  BY <1>18 DEF Sweep, NextKey, Runs, Goto, Failures, SourceInfo, TypeOK, shared, locals, history, Answer
<1>19. CASE Delete(c)
  BY <1>19 DEF Delete, NextKey, Runs, Goto, Failures, SourceInfo, TypeOK, shared, locals, history, Answer
<1>. QED  BY <1>1, <1>2, <1>3, <1>4, <1>5, <1>6, <1>7, <1>8, <1>9, <1>10, <1>11, <1>12, <1>13, <1>14, <1>15, <1>16, <1>17, <1>18, <1>19 DEF Step

\* At label insert, Insert is the only step.
LEMMA InsertOnly ==
  ASSUME TypeOK, NEW c \in Conns, Arrive(c) \/ Step(c), pc[c] = "insert"
  PROVE  Insert(c)
  BY DEF Step, Runs, Arrive, Lookup, Refuse, Admit, Accept, Decline, WrongPassword,
         Note, NotePanic, Send, Check, Pop, Ban, Drain, Recv, Prune, Sweep, Delete

\* The quantities HonourInv compares are natural numbers.
LEMMA HonourNumbers ==
  ASSUME HonourInv
  PROVE  /\ clock \in Nat /\ MaxService \in Nat
         /\ BlockFailedBindsFor \in Nat /\ PruneSourcesOlderThan \in Nat
         /\ \A c \in Conns : arrived[c] \in Nat /\ noted[c] \in Nat /\ arrived[c] <= clock
         /\ \A s \in Sources : banEnd[s] \in Nat
         /\ \A i \in InfoIds : heap[i].lastSeen \in Nat /\ heap[i].waitUntil \in Nat
  BY TimeAssumption DEF HonourInv, RoomInv, BanInv, TypeOK, ArrivedBefore, SourceInfo

\* A step leaves requests young and pruning times in the past.
LEMMA YoungStep ==
  ASSUME HonourInv, NEW c \in Conns, Arrive(c) \/ Step(c)
  PROVE  Young'
<1>. SUFFICES ASSUME NEW d \in Conns
              PROVE  /\ pc'[d] # "idle" => clock' <= arrived'[d] + MaxService
                     /\ noted'[d] <= clock'
  BY DEF Young, InFlight
<1>1. TypeOK /\ Young
  BY DEF HonourInv, RoomInv, BanInv
<1>2. CASE d # c
  <2>1. clock' = clock
    BY <1>1, TimesStep
  <2>2. pc'[d] = pc[d] /\ arrived'[d] = arrived[d] /\ noted'[d] = noted[d]
    BY <1>1, <1>2, OthersStep
  <2>. QED  BY <1>1, <2>1, <2>2 DEF Young, InFlight
<1>3. CASE d = c
  <2>1. /\ clock' = clock /\ noted'[c] \in {noted[c], clock, 0}
        /\ pc[c] = "idle" => arrived'[c] = clock
        /\ pc[c] # "idle" /\ pc'[c] # "idle" => arrived'[c] = arrived[c]
    BY <1>1, TimesStep
  <2>. QED  BY <1>1, <1>3, <2>1, HonourNumbers DEF Young, InFlight
<1>. QED  BY <1>2, <1>3

\* The pruning loop of a request cannot take an entry that a ban, or a request
\* being counted, still needs.
LEMMA StaleStep ==
  ASSUME HonourInv, LongMemory, NEW c \in Conns, NEW s \in Sources, Stale(s, noted[c])
  PROVE  /\ banEnd[s] + MaxService <= clock
         /\ heap[sources[s]].lastSeen + MaxService < clock
<1>1. sources[s] # NoInfo /\ sources[s] \in InfoIds
  BY DEF Stale, HonourInv, RoomInv, BanInv, TypeOK
<1>2. heap[sources[s]].lastSeen + PruneSourcesOlderThan < noted[c] /\ noted[c] <= clock
  BY DEF Stale, HonourInv, Young
<1>3. /\ banEnd[s] <= heap[sources[s]].waitUntil
      /\ heap[sources[s]].waitUntil
           <= heap[sources[s]].lastSeen + BlockFailedBindsFor + MaxService
  BY <1>1 DEF HonourInv, Remembered
<1>. QED  BY <1>1, <1>2, <1>3, HonourNumbers DEF LongMemory

\* A step leaves every ban remembered.
LEMMA RememberedStep ==
  ASSUME HonourInv, OwnAddresses, LongMemory, NEW c \in Conns, Arrive(c) \/ Step(c)
  PROVE  Remembered'
<1>. SUFFICES ASSUME NEW s \in Sources
              PROVE  IF sources'[s] = NoInfo
                     THEN \/ banEnd'[s] + MaxService <= clock' \/ banEnd'[s] = 0
                          \/ s \in erased'
                     ELSE /\ s \notin erased'
                          /\ banEnd'[s] <= heap'[sources'[s]].waitUntil
                          /\ heap'[sources'[s]].waitUntil
                               <= heap'[sources'[s]].lastSeen + BlockFailedBindsFor + MaxService
  BY DEF Remembered
<1>1. TypeOK /\ BanInv /\ SourceOf[c] \in Sources /\ clock' = clock
  BY TimesStep, SourceAssumption DEF HonourInv, RoomInv, BanInv
<1>2. CASE sources'[s] = sources[s] /\ sources[s] = NoInfo
  <2>1. s \in erased => s \in erased'
    <3>1. ~(pc[c] = "insert" /\ s = SourceOf[c])
      <4>1. SUFFICES ASSUME pc[c] = "insert" /\ s = SourceOf[c] PROVE FALSE
        OBVIOUS
      <4>2. Insert(c)
        BY <1>1, <4>1, InsertOnly
      <4>. QED  BY <1>1, <1>2, <4>1, <4>2, InfoAssumption DEF Insert, Free, TypeOK
    <3>. QED  BY <1>1, <3>1, TimesStep
  <2>2. CASE pc[c] = "ban" /\ s = SourceOf[c]
    <3>1. info[c] # NoInfo
      BY <1>1, <2>2 DEF TypeOK
    <3>. QED  BY <1>2, <2>1, <2>2, <3>1 DEF HonourInv, Known
  <2>3. CASE ~(pc[c] = "ban" /\ s = SourceOf[c])
    <3>1. banEnd'[s] = banEnd[s] \/ banEnd'[s] = 0
      BY <1>1, <2>3, TimesStep DEF TypeOK
    <3>. QED  BY <1>1, <1>2, <2>1, <3>1 DEF HonourInv, Remembered
  <2>. QED  BY <2>2, <2>3
<1>3. CASE sources'[s] = sources[s] /\ sources[s] # NoInfo
  <2>. DEFINE i == sources[s]
  <2>1. i \in InfoIds /\ Holds(s, i) /\ i \notin Free
    BY <1>1, <1>3, FreeNotHeld DEF TypeOK, Holds
  <2>2. /\ banEnd[s] <= heap[i].waitUntil
        /\ heap[i].waitUntil <= heap[i].lastSeen + BlockFailedBindsFor + MaxService
        /\ s \notin erased /\ s \notin erased'
    <3>1. s \notin erased'
      BY <1>1, <1>3, TimesStep DEF HonourInv, Remembered
    <3>. QED  BY <1>3, <3>1 DEF HonourInv, Remembered
  <2>3. CASE pc[c] = "ban" /\ s = SourceOf[c]
    <3>1. i = info[c] /\ heap[i].lastSeen = arrived[c]
      BY <2>2, <2>3 DEF HonourInv, Known
    <3>2. /\ banEnd'[s] = clock + BlockFailedBindsFor
          /\ heap'[i] = [heap[i] EXCEPT !.waitUntil = clock + BlockFailedBindsFor]
      <4>1. /\ banEnd' = [banEnd EXCEPT ![SourceOf[c]] = clock + BlockFailedBindsFor]
            /\ heap'[info[c]] = [heap[info[c]] EXCEPT !.waitUntil = clock + BlockFailedBindsFor]
        BY <1>1, <2>3, TimesStep
      <4>2. banEnd \in [Sources -> Nat]
        BY <1>1 DEF TypeOK
      <4>. QED  BY <2>3, <3>1, <4>1, <4>2
    <3>3. heap'[i].waitUntil = clock + BlockFailedBindsFor /\ heap'[i].lastSeen = arrived[c]
      BY <1>1, <2>1, <3>1, <3>2 DEF TypeOK, SourceInfo
    <3>4. clock <= arrived[c] + MaxService
      BY <2>3 DEF HonourInv, Young, InFlight
    <3>. QED  BY <1>3, <2>2, <3>2, <3>3, <3>4, HonourNumbers
  <2>4. CASE ~(pc[c] = "ban" /\ s = SourceOf[c])
    <3>1. banEnd'[s] = banEnd[s]
      BY <1>1, <2>2, <2>4, TimesStep DEF TypeOK
    <3>2. CASE heap'[i] = heap[i]
      BY <1>3, <2>2, <3>1, <3>2
    <3>3. CASE i = info[c] /\ pc[c] \in {"touch", "send", "pop", "ban", "recv"}
      <4>1. s = SourceOf[c]
        BY <1>1, <2>1, <3>3 DEF BanInv, OneOwner, Holds
      <4>2. CASE pc[c] = "touch"
        <5>1. heap'[i].lastSeen = arrived[c] /\ heap'[i].waitUntil = heap[i].waitUntil
          <6>1. heap'[info[c]] = [heap[info[c]] EXCEPT !.lastSeen = arrived[c]]
            BY <1>1, <4>2, TimesStep
          <6>2. heap[i] \in SourceInfo
            BY <1>1, <2>1 DEF TypeOK
          <6>. QED  BY <3>3, <6>1, <6>2 DEF SourceInfo
        <5>2. heap[i].waitUntil <= arrived[c] + BlockFailedBindsFor + MaxService
          BY <3>3, <4>2 DEF HonourInv, Known
        <5>. QED  BY <1>3, <2>2, <3>1, <5>1, <5>2
      <4>3. CASE pc[c] \in {"send", "pop", "recv"}
        <5>1. /\ heap'[info[c]].lastSeen = heap[info[c]].lastSeen
              /\ heap'[info[c]].waitUntil = heap[info[c]].waitUntil
          BY <1>1, <4>3, TimesStep
        <5>. QED  BY <1>3, <2>2, <3>1, <3>3, <5>1
      <4>. QED  BY <2>4, <3>3, <4>1, <4>2, <4>3
    <3>. QED  BY <1>1, <2>1, <3>2, <3>3, CellStep
  <2>. QED  BY <2>3, <2>4
<1>4. CASE pc[c] = "insert" /\ s = SourceOf[c] /\ sources'[s] # sources[s]
  <2>1. banEnd'[s] <= arrived[c] /\ s \notin erased'
    <3>1. /\ erased' = erased \ {s}
          /\ banEnd' = IF s \in erased THEN [banEnd EXCEPT ![s] = 0] ELSE banEnd
      BY <1>1, <1>4, TimesStep
    <3>2. banEnd[s] <= arrived[c] \/ s \in erased
      BY <1>4 DEF HonourInv, Known
    <3>3. banEnd \in [Sources -> Nat]
      BY <1>1 DEF TypeOK
    <3>. QED  BY <3>1, <3>2, <3>3, HonourNumbers
  <2>2. Insert(c)
    BY <1>1, <1>4, InsertOnly
  <2>3. PICK n \in Free : /\ heap' = [heap EXCEPT ![n] = NewInfo(arrived[c])]
                          /\ sources' = [sources EXCEPT ![SourceOf[c]] = n]
    BY <2>2 DEF Insert
  <2>4. /\ sources'[s] = n /\ n # NoInfo
        /\ heap'[n].waitUntil = arrived[c] /\ heap'[n].lastSeen = arrived[c]
    BY <1>1, <1>4, <2>3, InfoAssumption DEF Free, TypeOK, NewInfo
  <2>. QED  BY <2>1, <2>4, HonourNumbers
<1>5. CASE sources'[s] = NoInfo /\ pc[c] = "delete" /\ (Stale(s, noted[c]) \/ s \in erased')
  <2>1. banEnd'[s] = banEnd[s]
    BY <1>1, <1>5, TimesStep
  <2>. QED  BY <1>1, <1>5, <2>1, StaleStep
<1>. QED  BY <1>1, <1>2, <1>3, <1>4, <1>5, TableStep

\* What one goroutine's step does to its own label, pointer and entry.
LEMMA OwnStep ==
  ASSUME TypeOK, cfg.LimitFailedBinds, NEW c \in Conns, Arrive(c) \/ Step(c)
  PROVE  LET s == SourceOf[c] IN
         /\ pc'[c] = "lookup" => pc[c] = "idle"
         /\ pc'[c] \in {"insert", "touch"} =>
              /\ pc[c] = "lookup" /\ UNCHANGED <<heap, sources, banEnd, erased>>
              /\ pc'[c] = "insert" => sources[s] = NoInfo
              /\ pc'[c] = "touch" => info'[c] = sources[s] /\ sources[s] # NoInfo
         /\ pc'[c] = "serve" =>
              /\ pc[c] \in {"insert", "touch"}
              /\ pc[c] = "touch" => /\ sources' = sources
                                    /\ heap[info[c]].waitUntil <= arrived[c]
         /\ pc'[c] = "note" => pc[c] = "serve" /\ UNCHANGED <<heap, sources>>
         /\ pc'[c] = "send" => /\ pc[c] = "note" /\ UNCHANGED <<heap, sources, erased>>
                               /\ info'[c] = sources[s] /\ sources[s] # NoInfo
         /\ pc'[c] \in {"check", "pop", "ban", "drain", "recv"} =>
              /\ pc[c] \in {"send", "check", "pop", "ban", "drain", "recv"}
              /\ info'[c] = info[c] /\ sources' = sources /\ erased' = erased
<1>1. CASE Arrive(c)
  BY <1>1 DEF Arrive, Runs, Goto, TypeOK, shared, locals, history
<1>2. CASE Lookup(c)
  BY <1>2 DEF Lookup, Runs, Goto, TypeOK, shared, locals, history
<1>3. CASE Insert(c)
  BY <1>3 DEF Insert, Runs, Goto, TypeOK, shared, locals, history
<1>4. CASE Refuse(c)
  BY <1>4 DEF Refuse, Runs, Goto, TypeOK, shared, locals, history, Answer
<1>5. CASE Admit(c)
  BY <1>5 DEF Admit, Runs, Goto, TypeOK, shared, locals, history, SourceInfo
<1>6. CASE Accept(c)
  BY <1>6 DEF Accept, Runs, Goto, TypeOK, shared, locals, history, Answer
<1>7. CASE Decline(c)
  BY <1>7 DEF Decline, Runs, Goto, TypeOK, shared, locals, history, Answer
<1>8. CASE WrongPassword(c)
  BY <1>8 DEF WrongPassword, Runs, Goto, TypeOK, shared, locals, history, Answer
<1>9. CASE Note(c)
  BY <1>9 DEF Note, Runs, Goto, TypeOK, shared, locals, history
<1>10. CASE NotePanic(c)
  BY <1>10 DEF NotePanic, Runs, Goto, TypeOK, shared, locals, history, Answer
<1>11. CASE Send(c)
  BY <1>11 DEF Send, Runs, Goto, TypeOK, shared, locals, history
<1>12. CASE Check(c)
  BY <1>12 DEF Check, Runs, Goto, TypeOK, shared, locals, history
<1>13. CASE Pop(c)
  BY <1>13 DEF Pop, Runs, Goto, TypeOK, shared, locals, history
<1>14. CASE Ban(c)
  BY <1>14 DEF Ban, Runs, Goto, TypeOK, shared, locals, history
<1>15. CASE Drain(c)
  BY <1>15 DEF Drain, Runs, Goto, TypeOK, shared, locals, history
<1>16. CASE Recv(c)
  BY <1>16 DEF Recv, Runs, Goto, TypeOK, shared, locals, history
<1>17. CASE Prune(c)
  BY <1>17 DEF Prune, Runs, Goto, TypeOK, shared, locals, history, Answer
<1>18. CASE Sweep(c)
  BY <1>18 DEF Sweep, NextKey, Runs, Goto, TypeOK, shared, locals, history, Answer
<1>19. CASE Delete(c)
  BY <1>19 DEF Delete, NextKey, Runs, Goto, TypeOK, shared, locals, history, Answer
<1>. QED  BY <1>1, <1>2, <1>3, <1>4, <1>5, <1>6, <1>7, <1>8, <1>9, <1>10, <1>11, <1>12, <1>13, <1>14, <1>15, <1>16, <1>17, <1>18, <1>19 DEF Step

\* A step leaves what each goroutine knows true.
LEMMA KnownStep ==
  ASSUME HonourInv, OwnAddresses, LongMemory, NEW c \in Conns, Arrive(c) \/ Step(c)
  PROVE  Known'
<1>1. /\ TypeOK /\ BanInv /\ cfg.LimitFailedBinds /\ clock' = clock
      /\ \A d \in Conns : SourceOf[d] \in Sources
  BY TimesStep, SourceAssumption DEF HonourInv, RoomInv, BanInv, Room, OwnAddresses
<1>. DEFINE KnownOf(d) ==
       LET s == SourceOf[d] IN
       /\ pc[d] = "insert" => sources[s] = NoInfo /\ (banEnd[s] <= arrived[d] \/ s \in erased)
       /\ pc[d] = "touch" => /\ banEnd[s] <= heap[info[d]].waitUntil
                             /\ heap[info[d]].waitUntil <= arrived[d] + BlockFailedBindsFor + MaxService
                             /\ sources[s] \in {info[d], NoInfo}
       /\ pc[d] \in {"serve", "note"} =>
            (sources[s] # NoInfo => heap[sources[s]].lastSeen = arrived[d])
       /\ sources[s] # NoInfo =>
            heap[sources[s]].lastSeen <= IF InFlight(d) THEN arrived[d] ELSE clock
       /\ pc[d] \in {"send", "check", "pop", "ban", "drain", "recv"} =>
            /\ sources[s] = info[d] \/ s \in erased
            /\ heap[info[d]].lastSeen = arrived[d]
<1>2. \A d \in Conns : KnownOf(d)
  BY DEF HonourInv, Known
<1>3. ASSUME NEW d \in Conns, d # c PROVE KnownOf(d)'
  <2>. DEFINE s == SourceOf[d]
  <2>1. /\ s \in Sources /\ s # SourceOf[c]
        /\ pc'[d] = pc[d] /\ info'[d] = info[d] /\ arrived'[d] = arrived[d]
    BY <1>1, <1>3, OthersStep DEF OwnAddresses
  <2>2. banEnd'[s] = banEnd[s]
    <3>1. banEnd \in [Sources -> Nat]
      BY <1>1 DEF TypeOK
    <3>2. \/ banEnd' = banEnd
          \/ banEnd' = [banEnd EXCEPT ![SourceOf[c]] = clock + BlockFailedBindsFor]
          \/ banEnd' = [banEnd EXCEPT ![SourceOf[c]] = 0]
      BY <1>1, TimesStep
    <3>. QED  BY <2>1, <3>1, <3>2
  <2>3. \A i \in InfoIds : Holds(s, i) => heap'[i] = heap[i]
    BY <1>1, <2>1, HeldByOther
  <2>4. sources[s] # NoInfo => sources[s] \in InfoIds /\ heap'[sources[s]] = heap[sources[s]]
    BY <1>1, <2>1, <2>3 DEF TypeOK, Holds
  <2>5. info[d] # NoInfo => info[d] \in InfoIds /\ heap'[info[d]] = heap[info[d]]
    BY <1>1, <2>3 DEF TypeOK, Holds
  <2>6. \/ sources'[s] = sources[s]
        \/ sources'[s] = NoInfo /\ (Stale(s, noted[c]) \/ s \in erased')
    BY <1>1, <2>1, TableStep
  <2>9. s \in erased => s \in erased'
    BY <1>1, <2>1, TimesStep
  <2>7. pc[d] \in {"send", "check", "pop", "ban", "drain", "recv"} =>
          sources'[s] = info[d] \/ s \in erased'
    <3>1. SUFFICES ASSUME pc[d] \in {"send", "check", "pop", "ban", "drain", "recv"},
                          s \notin erased', Stale(s, noted[c])
                   PROVE  FALSE
      BY <1>2, <2>6, <2>9
    <3>2. sources[s] = info[d] /\ heap[sources[s]].lastSeen = arrived[d]
      BY <1>2, <2>9, <3>1
    <3>3. clock <= arrived[d] + MaxService
      BY <3>1 DEF HonourInv, Young, InFlight
    <3>4. heap[sources[s]].lastSeen + MaxService < clock
      BY <2>1, <3>1, StaleStep
    <3>. QED  BY <3>2, <3>3, <3>4, HonourNumbers
  <2>8. pc[d] \in {"touch", "send", "check", "pop", "ban", "drain", "recv"} => info[d] # NoInfo
    BY <1>1 DEF TypeOK
  <2>. QED  BY <1>1, <1>2, <2>1, <2>2, <2>4, <2>5, <2>6, <2>7, <2>8, <2>9 DEF InFlight
<1>4. KnownOf(c)'
  <2>. DEFINE s == SourceOf[c]
  <2>1. /\ s \in Sources /\ banEnd \in [Sources -> Nat] /\ s = SourceOf[c]
        /\ heap \in [InfoIds -> SourceInfo] /\ clock \in Nat
    BY <1>1 DEF TypeOK
  <2>2. arrived[c] \in Nat /\ arrived[c] <= clock
    BY HonourNumbers
  <2>3. /\ pc[c] = "idle" => arrived'[c] = clock
        /\ pc[c] # "idle" /\ pc'[c] # "idle" => arrived'[c] = arrived[c]
    BY <1>1, TimesStep
  <2>4. pc[c] # "idle" => clock <= arrived[c] + MaxService
    BY DEF HonourInv, Young, InFlight
  <2>5. pc[c] = "insert" =>
          /\ sources'[s] # NoInfo /\ heap'[sources'[s]].lastSeen = arrived[c]
          /\ pc'[c] = "serve"
    <3>1. SUFFICES ASSUME pc[c] = "insert"
                   PROVE  /\ sources'[s] # NoInfo /\ heap'[sources'[s]].lastSeen = arrived[c]
                          /\ pc'[c] = "serve"
      OBVIOUS
    <3>2. Insert(c)
      BY <1>1, <3>1, InsertOnly
    <3>3. PICK n \in Free : /\ heap' = [heap EXCEPT ![n] = NewInfo(arrived[c])]
                            /\ sources' = [sources EXCEPT ![SourceOf[c]] = n]
      BY <3>2 DEF Insert
    <3>. QED  BY <1>1, <3>2, <3>3, InfoAssumption DEF Insert, Goto, Free, TypeOK, NewInfo
  <2>6. pc[c] = "touch" => /\ info[c] \in InfoIds
                           /\ heap'[info[c]].lastSeen = arrived[c]
    <3>1. SUFFICES ASSUME pc[c] = "touch"
                   PROVE  info[c] \in InfoIds /\ heap'[info[c]].lastSeen = arrived[c]
      OBVIOUS
    <3>2. info[c] \in InfoIds
      BY <1>1, <3>1 DEF TypeOK
    <3>3. heap'[info[c]] = [heap[info[c]] EXCEPT !.lastSeen = arrived[c]]
      BY <1>1, <3>1, TimesStep
    <3>4. heap[info[c]] \in SourceInfo
      BY <2>1, <3>2
    <3>. QED  BY <3>2, <3>3, <3>4 DEF SourceInfo
  <2>7. pc[c] # "touch" =>
          \A i \in InfoIds : Holds(s, i) => heap'[i].lastSeen = heap[i].lastSeen
    <3>1. SUFFICES ASSUME pc[c] # "touch", NEW i \in InfoIds, Holds(s, i)
                   PROVE  heap'[i].lastSeen = heap[i].lastSeen
      OBVIOUS
    <3>2. i \notin Free
      BY <2>1, <3>1, FreeNotHeld
    <3>3. CASE pc[c] \in {"send", "pop", "recv"} /\ i = info[c]
      BY <1>1, <3>3, TimesStep
    <3>4. CASE pc[c] = "ban" /\ i = info[c]
      <4>1. heap'[info[c]] = [heap[info[c]] EXCEPT !.waitUntil = clock + BlockFailedBindsFor]
        BY <1>1, <3>4, TimesStep
      <4>2. heap[i] \in SourceInfo
        BY <2>1
      <4>. QED  BY <3>4, <4>1, <4>2 DEF SourceInfo
    <3>. QED  BY <1>1, <3>1, <3>2, <3>3, <3>4, CellStep
  <2>8. sources'[s] # NoInfo =>
          heap'[sources'[s]].lastSeen <= IF pc'[c] # "idle" THEN arrived'[c] ELSE clock
    <3>1. SUFFICES ASSUME sources'[s] # NoInfo
                   PROVE  heap'[sources'[s]].lastSeen
                            <= IF pc'[c] # "idle" THEN arrived'[c] ELSE clock
      OBVIOUS
    <3>2. CASE pc[c] = "insert"
      BY <2>2, <2>3, <2>5, <3>2
    <3>3. CASE pc[c] # "insert"
      <4>1. sources'[s] = sources[s] /\ sources[s] \in InfoIds /\ Holds(s, sources[s])
        BY <1>1, <2>1, <3>1, <3>3, TableStep DEF TypeOK, Holds
      <4>2. heap[sources[s]].lastSeen <= IF pc[c] # "idle" THEN arrived[c] ELSE clock
        BY <1>2, <4>1, <3>1 DEF InFlight
      <4>3. \/ heap'[sources[s]].lastSeen = heap[sources[s]].lastSeen
            \/ heap'[sources[s]].lastSeen = arrived[c] /\ pc[c] = "touch"
        <5>1. CASE pc[c] # "touch"
          BY <2>7, <4>1, <5>1
        <5>2. CASE pc[c] = "touch" /\ sources[s] = info[c]
          BY <2>6, <5>2
        <5>3. CASE pc[c] = "touch" /\ sources[s] # info[c]
          BY <1>2, <3>1, <4>1, <5>3
        <5>. QED  BY <5>1, <5>2, <5>3
      <4>. QED  BY <2>1, <2>2, <2>3, <4>1, <4>2, <4>3, HonourNumbers
    <3>. QED  BY <3>2, <3>3
  <2>9. pc'[c] = "insert" =>
          sources'[s] = NoInfo /\ (banEnd'[s] <= arrived'[c] \/ s \in erased')
    <3>1. SUFFICES ASSUME pc'[c] = "insert"
                   PROVE  sources'[s] = NoInfo /\ (banEnd'[s] <= arrived'[c] \/ s \in erased')
      OBVIOUS
    <3>2. /\ pc[c] = "lookup" /\ sources' = sources /\ banEnd' = banEnd /\ erased' = erased
          /\ sources[s] = NoInfo
      BY <1>1, <3>1, OwnStep
    <3>3. banEnd[s] + MaxService <= clock \/ banEnd[s] = 0 \/ s \in erased
      BY <2>1, <3>2 DEF HonourInv, Remembered
    <3>. QED  BY <2>1, <2>2, <2>3, <2>4, <3>1, <3>2, <3>3, HonourNumbers
  <2>10. pc'[c] = "touch" =>
           /\ banEnd'[s] <= heap'[info'[c]].waitUntil
           /\ heap'[info'[c]].waitUntil <= arrived'[c] + BlockFailedBindsFor + MaxService
           /\ sources'[s] \in {info'[c], NoInfo}
    <3>1. SUFFICES ASSUME pc'[c] = "touch"
                   PROVE  /\ banEnd'[s] <= heap'[info'[c]].waitUntil
                          /\ heap'[info'[c]].waitUntil
                               <= arrived'[c] + BlockFailedBindsFor + MaxService
                          /\ sources'[s] \in {info'[c], NoInfo}
      OBVIOUS
    <3>2. /\ pc[c] = "lookup" /\ sources' = sources /\ banEnd' = banEnd /\ heap' = heap
          /\ info'[c] = sources[s] /\ sources[s] # NoInfo
      BY <1>1, <3>1, OwnStep
    <3>3. /\ banEnd[s] <= heap[sources[s]].waitUntil
          /\ heap[sources[s]].waitUntil
               <= heap[sources[s]].lastSeen + BlockFailedBindsFor + MaxService
      BY <2>1, <3>2 DEF HonourInv, Remembered
    <3>4. heap[sources[s]].lastSeen <= arrived[c]
      BY <1>2, <3>2 DEF InFlight
    <3>5. sources[s] \in InfoIds
      BY <1>1, <2>1, <3>2 DEF TypeOK
    <3>. QED  BY <2>1, <2>2, <2>3, <3>1, <3>2, <3>3, <3>4, <3>5, HonourNumbers
  <2>11. pc'[c] \in {"serve", "note"} =>
           (sources'[s] # NoInfo => heap'[sources'[s]].lastSeen = arrived'[c])
    <3>1. CASE pc'[c] = "serve" /\ pc[c] = "insert"
      BY <2>3, <2>5, <3>1
    <3>2. CASE pc'[c] = "serve" /\ pc[c] = "touch"
      <4>1. sources' = sources
        BY <1>1, <3>2, OwnStep
      <4>2. sources[s] \in {info[c], NoInfo}
        BY <1>2, <3>2
      <4>. QED  BY <2>3, <2>6, <3>2, <4>1, <4>2
    <3>3. CASE pc'[c] = "note"
      <4>1. pc[c] = "serve" /\ heap' = heap /\ sources' = sources
        BY <1>1, <3>3, OwnStep
      <4>. QED  BY <1>2, <2>3, <3>3, <4>1
    <3>. QED  BY <1>1, <3>1, <3>2, <3>3, OwnStep
  <2>12. pc'[c] \in {"send", "check", "pop", "ban", "drain", "recv"} =>
           /\ sources'[s] = info'[c] \/ s \in erased'
           /\ heap'[info'[c]].lastSeen = arrived'[c]
    <3>1. CASE pc'[c] = "send"
      <4>1. /\ pc[c] = "note" /\ heap' = heap /\ sources' = sources
            /\ info'[c] = sources[s] /\ sources[s] # NoInfo
        BY <1>1, <3>1, OwnStep
      <4>. QED  BY <1>2, <2>3, <3>1, <4>1
    <3>2. CASE pc'[c] \in {"check", "pop", "ban", "drain", "recv"}
      <4>1. /\ pc[c] \in {"send", "check", "pop", "ban", "drain", "recv"}
            /\ info'[c] = info[c] /\ sources' = sources /\ erased' = erased
        BY <1>1, <3>2, OwnStep
      <4>2. info[c] \in InfoIds /\ Holds(s, info[c])
        BY <1>1, <4>1 DEF TypeOK, Holds
      <4>. QED  BY <1>2, <2>3, <2>7, <3>2, <4>1, <4>2
    <3>. QED  BY <3>1, <3>2
  <2>. QED  BY <1>1, <2>8, <2>9, <2>10, <2>11, <2>12 DEF InFlight
<1>. QED  BY <1>3, <1>4 DEF Known, InFlight

\* HonourInv holds at start.
LEMMA HonourInvInit == Init /\ OwnAddresses => HonourInv
  BY RoomInvInit, SourceAssumption
  DEF Init, HonourInv, Young, InFlight, Remembered, Known

\* HonourInv is inductive.
LEMMA HonourInvStep == HonourInv /\ OwnAddresses /\ LongMemory /\ [Next]_vars => HonourInv'
<1>. SUFFICES ASSUME HonourInv, OwnAddresses, LongMemory, [Next]_vars PROVE HonourInv'
  OBVIOUS
<1>1. RoomInv'
  BY RoomInvStep DEF HonourInv
<1>2. ASSUME NEW c \in Conns, Arrive(c) \/ Step(c) PROVE HonourInv'
  BY <1>1, <1>2, YoungStep, RememberedStep, KnownStep DEF HonourInv
<1>3. CASE Tick
  <2>1. NeverParked
    BY RoomInvParked DEF HonourInv
  <2>2. /\ clock' = clock + 1
        /\ UNCHANGED <<sources, heap, pc, info, arrived, noted, banEnd, erased>>
    BY <1>3 DEF Tick, shared, locals, history
  <2>3. \A c \in Conns : pc[c] = "idle" \/ clock < arrived[c] + MaxService
    BY <1>3, <2>1 DEF Tick, NeverParked
  <2>4. Young'
    BY <2>2, <2>3, HonourNumbers DEF Young, InFlight, HonourInv
  <2>5. Remembered'
    BY <2>2, HonourNumbers DEF Remembered, HonourInv
  <2>6. \A c \in Conns : SourceOf[c] \in Sources
                         /\ (sources[SourceOf[c]] # NoInfo => sources[SourceOf[c]] \in InfoIds)
    BY SourceAssumption DEF HonourInv, RoomInv, BanInv, TypeOK
  <2>7. Known'
    BY <2>2, <2>6, HonourNumbers DEF Known, HonourInv, InFlight
  <2>. QED  BY <1>1, <2>4, <2>5, <2>7 DEF HonourInv
<1>4. CASE UNCHANGED <<clock, sources, heap, pc, info, arrived, noted, banEnd, erased>>
  BY <1>1, <1>4 DEF HonourInv, Young, Remembered, Known, InFlight
<1>5. ~Reload
  <2>1. cfg = InitBehavior /\ Behaviors = {InitBehavior}
    BY DEF OwnAddresses, HonourInv, RoomInv, Room
  <2>. QED  BY <2>1 DEF Reload
<1>. QED  BY <1>2, <1>3, <1>4, <1>5 DEF Next, Abort, vars, shared, locals, history

\* A step that admits a request admits none that arrived during a ban, unless
\* the entry was erased.
LEMMA HonourStep ==
  ASSUME HonourInv, OwnAddresses, LongMemory, [Next]_vars,
         NEW c \in Conns, pc[c] # "serve", pc'[c] = "serve"
  PROVE  banEnd[SourceOf[c]] <= arrived'[c] \/ SourceOf[c] \in erased
<1>1. TypeOK /\ cfg.LimitFailedBinds /\ SourceOf[c] \in Sources
  BY SourceAssumption DEF HonourInv, RoomInv, BanInv, Room, OwnAddresses
<1>2. CASE \E d \in Conns : Arrive(d) \/ Step(d)
  <2>1. Arrive(c) \/ Step(c)
    BY <1>1, <1>2, OthersStep
  <2>2. /\ pc[c] \in {"insert", "touch"} /\ arrived'[c] = arrived[c]
        /\ pc[c] = "touch" => heap[info[c]].waitUntil <= arrived[c]
    BY <1>1, <2>1, OwnStep, TimesStep
  <2>3. pc[c] = "touch" => info[c] \in InfoIds
    BY <1>1 DEF TypeOK
  <2>. QED  BY <1>1, <2>2, <2>3, HonourNumbers DEF HonourInv, Known
<1>3. CASE ~(\E d \in Conns : Arrive(d) \/ Step(d))
  BY <1>3 DEF Next, Tick, Reload, Abort, vars, shared, locals, history
<1>. QED  BY <1>2, <1>3

\* When, besides, a source is remembered for the length of a ban and of two
\* requests, a request that arrives during a ban of its address is served in one
\* case only: between the test and the delete of a pruning loop the address was
\* seen again, and the delete took the ban with it.
THEOREM BansAreHonoured ==
  ASSUME OwnAddresses, LongMemory
  PROVE  Spec => BanHonoured
<1>1. Init => HonourInv
  BY HonourInvInit
<1>2. HonourInv /\ [Next]_vars => HonourInv'
  BY HonourInvStep
<1>3. HonourInv /\ [Next]_vars =>
        [\A c \in Conns :
           pc[c] # "serve" /\ pc'[c] = "serve"
              => \/ banEnd[SourceOf[c]] <= arrived'[c]
                 \/ SourceOf[c] \in erased]_vars
  BY HonourStep
<1>. QED  BY <1>1, <1>2, <1>3, PTL DEF Spec, BanHonoured

=============================================================================
