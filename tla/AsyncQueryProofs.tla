-------------------------- MODULE AsyncQueryProofs --------------------------
(***************************************************************************)
(* Proofs about AsyncQuery for any set of queries, without the bounds of   *)
(* the TLC runs.  Three strengthenings of the invariants are needed:       *)
(*   - CancelQuiet, for the wake-up: during the unlocked drain of a        *)
(*     cancellation no thread can publish, because the token has moved;    *)
(*   - TokenOrder, for the answers: tokens are distinct, and the slot and  *)
(*     the loop's copy hold answers newer than every answer delivered;     *)
(*   - ListsAccounted, for the lists: one that was published or dropped is *)
(*     in the slot, in the loop's copy, freed, or overtaken.               *)
(***************************************************************************)
EXTENDS AsyncQuery, TLAPS

\* The cancellation's drain meets an empty slot, and no running thread may
\* fill it.
CancelQuiet ==
  main = "cancel_drain" =>
     /\ pending.job = NoJob
     /\ \A j \in Jobs : thread[j] \in {"running", "publish"} => tok[j] < latest

\* Tokens belong to the queries that were started, never exceed the counter
\* and are never given twice.
TokensUnique ==
  /\ \A j \in Jobs : tok[j] <= latest
  /\ \A j \in Jobs : thread[j] = "idle" <=> tok[j] = 0
  /\ \A j, k \in Jobs : j # k /\ tok[j] = tok[k] => tok[j] = 0

Published(j) == thread[j] \in {"notify", "done"}

\* The answer of j is newer than every answer delivered so far.
NewerThanAnswered(j) == \A k \in Jobs : answered[k] > 0 => tok[k] < tok[j]

\* The slot and the loop's copy hold published answers, newer than those
\* delivered, the slot's the newer of the two.
TokenOrder ==
  /\ \A j \in Jobs : answered[j] > 0 => Published(j)
  /\ pending.job \in Jobs =>
        Published(pending.job) /\ NewerThanAnswered(pending.job)
  /\ taken.job \in Jobs =>
        Published(taken.job) /\ NewerThanAnswered(taken.job)
  /\ pending.job \in Jobs /\ taken.job \in Jobs =>
        tok[taken.job] < tok[pending.job]
  /\ main # "deliver" => taken = Empty

\* Only a list that was published or dropped can have been freed, and none
\* that the slot or the loop still holds.
FreedApart ==
  /\ \A j \in freed : Published(j)
  /\ \A j \in freed : j \notin ListOf(pending) /\ j \notin ListOf(taken)

\* A result list comes with its query: what is freed is a query's list.
ListsHaveQueries ==
  /\ pending.out \in Lists => pending.job \in Jobs
  /\ taken.out \in Lists => taken.job \in Jobs

TypeInv == TypeOK /\ ListsHaveQueries

IInv == /\ TypeInv
        /\ CancelQuiet
        /\ NoLostAnswer
        /\ TokensUnique
        /\ TokenOrder
        /\ FreedApart

-----------------------------------------------------------------------------
\* The slot and its copy keep the shape of an answer: Empty is one, and so is
\* what PublishOrDrop writes.
LEMMA AnswerShape ==
  /\ Empty \in Answers
  /\ \A j \in Jobs, out \in Outcomes : [job |-> j, out |-> out] \in Answers
BY DEF Empty, Answers, Outcomes

\* What is freed by a step is a query's list.
LEMMA ListOfInJobs ==
  TypeInv => ListOf(pending) \subseteq Jobs /\ ListOf(taken) \subseteq Jobs
BY DEF TypeInv, ListsHaveQueries, ListOf

LEMMA TypeInit == Init => TypeInv
<1> SUFFICES ASSUME Init PROVE TypeInv
  OBVIOUS
<1>1. pending \in Answers /\ taken \in Answers
  BY AnswerShape DEF Init
<1>2. pending.out \notin Lists /\ taken.out \notin Lists
  BY DEF Init, Empty, Lists
<1> QED BY <1>1, <1>2 DEF Init, TypeInv, TypeOK, ListsHaveQueries, Outcomes

\* Every step keeps the variables of the query machinery in their types.
LEMMA TypeStep == TypeInv /\ [Next]_vars => TypeInv'
<1> SUFFICES ASSUME TypeInv, [Next]_vars PROVE TypeInv'
  OBVIOUS
<1> USE DEF TypeInv, TypeOK, ListsHaveQueries
<1>0. Empty.out \notin Lists
  BY DEF Empty, Lists
<1>1. ASSUME NEW j \in Jobs, Search(j) PROVE TypeInv'
  <2>1. found' \in [Jobs -> Outcomes]
    BY <1>1 DEF Search, Outcomes, Lists
  <2> QED BY <1>1, <2>1 DEF Search, loopVars
<1>2. ASSUME NEW j \in Jobs, PublishOrDrop(j) PROVE TypeInv'
  <2>1. pending' \in Answers /\ (pending'.out \in Lists => pending'.job \in Jobs)
    BY <1>2, AnswerShape DEF PublishOrDrop
  <2>2. freed' \in SUBSET Jobs
    BY <1>2 DEF PublishOrDrop, ListOf
  <2> QED BY <1>2, <2>1, <2>2 DEF PublishOrDrop, loopVars
<1>3. ASSUME NEW j \in Jobs, NotifyWrite(j) PROVE TypeInv'
  BY <1>3 DEF NotifyWrite, loopVars
<1>4. CASE Select
  BY <1>4 DEF Select, threadVars
<1>5. CASE SocketQuiet
  BY <1>5 DEF SocketQuiet, threadVars
<1>6. CASE CancelPending
  BY <1>0, <1>6, AnswerShape, ListOfInJobs DEF CancelPending, threadVars
<1>7. CASE CancelDrain
  BY <1>7 DEF CancelDrain, threadVars
<1>8. CASE AsrOther
  BY <1>8 DEF AsrOther, threadVars
<1>9. ASSUME NEW j \in Jobs, StartPlayQuery(j) PROVE TypeInv'
  BY <1>9 DEF StartPlayQuery
<1>10. CASE RoundEnd
  BY <1>10 DEF RoundEnd, threadVars
<1>11. CASE OnReadableDrain
  BY <1>11 DEF OnReadableDrain, threadVars
<1>12. CASE OnReadableTake
  BY <1>0, <1>12, AnswerShape DEF OnReadableTake, threadVars
<1>13. CASE Deliver
  <2>1. answered' \in [Jobs -> Nat]
    BY <1>13 DEF Deliver
  <2> QED BY <1>0, <1>13, <2>1, AnswerShape, ListOfInJobs
      DEF Deliver, threadVars
<1>14. CASE UNCHANGED vars
  BY <1>14 DEF vars
<1> QED BY <1>1, <1>2, <1>3, <1>4, <1>5, <1>6, <1>7, <1>8, <1>9, <1>10,
           <1>11, <1>12, <1>13, <1>14 DEF Next, Loop, Thread

\* Type correctness of the query machinery (music_server_async.c).
THEOREM TypeCorrect == Spec => []TypeOK
<1>1. TypeInv => TypeOK
  BY DEF TypeInv
<1> QED BY <1>1, TypeInit, TypeStep, PTL DEF Spec

-----------------------------------------------------------------------------
\* No wake-up is lost: preserved by every step, the two drains included.
LEMMA WakeupStep ==
  TypeInv /\ TokensUnique /\ CancelQuiet /\ NoLostAnswer /\ [Next]_vars
    => CancelQuiet' /\ NoLostAnswer'
<1> SUFFICES ASSUME TypeInv, TokensUnique, CancelQuiet, NoLostAnswer,
                    [Next]_vars
             PROVE  CancelQuiet' /\ NoLostAnswer'
  OBVIOUS
<1> USE DEF TypeInv, TypeOK, CancelQuiet, NoLostAnswer
<1>0. Empty.job = NoJob
  BY DEF Empty
<1>1. ASSUME NEW j \in Jobs, Search(j) PROVE CancelQuiet' /\ NoLostAnswer'
  BY <1>1 DEF Search, loopVars
<1>2. ASSUME NEW j \in Jobs, PublishOrDrop(j)
      PROVE  CancelQuiet' /\ NoLostAnswer'
  <2>1. CASE IsLatest(j)
    <3>1. thread'[j] = "notify" /\ main' = main /\ main # "cancel_drain"
      BY <1>2, <2>1 DEF PublishOrDrop, IsLatest, loopVars
    <3> QED BY <3>1
  <2>2. CASE ~IsLatest(j)
    BY <1>2, <2>2 DEF PublishOrDrop, loopVars
  <2> QED BY <2>1, <2>2
<1>3. ASSUME NEW j \in Jobs, NotifyWrite(j)
      PROVE  CancelQuiet' /\ NoLostAnswer'
  <2>1. pipe' > 0
    BY <1>3 DEF NotifyWrite
  <2>2. CancelQuiet'
    BY <1>3 DEF NotifyWrite, loopVars
  <2> QED BY <2>1, <2>2
<1>4. CASE Select
  BY <1>4 DEF Select, threadVars
<1>5. CASE SocketQuiet
  BY <1>5 DEF SocketQuiet, threadVars
<1>6. CASE CancelPending
  BY <1>0, <1>6 DEF CancelPending, threadVars, TokensUnique
<1>7. CASE CancelDrain
  BY <1>7 DEF CancelDrain, threadVars
<1>8. CASE AsrOther
  BY <1>8 DEF AsrOther, threadVars
<1>9. ASSUME NEW j \in Jobs, StartPlayQuery(j)
      PROVE  CancelQuiet' /\ NoLostAnswer'
  BY <1>9 DEF StartPlayQuery
<1>10. CASE RoundEnd
  BY <1>10 DEF RoundEnd, threadVars
<1>11. CASE OnReadableDrain
  BY <1>11 DEF OnReadableDrain, threadVars
<1>12. CASE OnReadableTake
  BY <1>0, <1>12 DEF OnReadableTake, threadVars
<1>13. CASE Deliver
  BY <1>13 DEF Deliver, threadVars
<1>14. CASE UNCHANGED vars
  BY <1>14 DEF vars
<1> QED BY <1>1, <1>2, <1>3, <1>4, <1>5, <1>6, <1>7, <1>8, <1>9, <1>10,
           <1>11, <1>12, <1>13, <1>14 DEF Next, Loop, Thread

\* A new token is larger than all given ones, so tokens stay distinct.
LEMMA TokenStep ==
  TypeInv /\ TokensUnique /\ [Next]_vars => TokensUnique'
<1> SUFFICES ASSUME TypeInv, TokensUnique, [Next]_vars PROVE TokensUnique'
  OBVIOUS
<1> USE DEF TypeInv, TypeOK, TokensUnique
<1>1. ASSUME NEW j \in Jobs, Thread(j) PROVE TokensUnique'
  BY <1>1 DEF Thread, Search, PublishOrDrop, NotifyWrite, loopVars
<1>2. ASSUME NEW j \in Jobs, StartPlayQuery(j) PROVE TokensUnique'
  BY <1>2 DEF StartPlayQuery
<1>3. CASE CancelPending
  BY <1>3 DEF CancelPending, threadVars
<1>4. CASE UNCHANGED <<latest, threadVars>>
  BY <1>4 DEF threadVars
<1> QED BY <1>1, <1>2, <1>3, <1>4
        DEF Next, Loop, Select, SocketQuiet, CancelDrain, AsrOther, RoundEnd,
            OnReadableDrain, OnReadableTake, Deliver, vars, threadVars

-----------------------------------------------------------------------------
\* The current query's thread holds the largest token of all queries.
LEMMA LatestIsNewest ==
  ASSUME TypeInv, TokensUnique, TokenOrder, NEW j \in Jobs,
         thread[j] = "publish", IsLatest(j)
  PROVE  \A k \in Jobs : Published(k) => tok[k] < tok[j]
BY DEF TypeInv, TypeOK, TokensUnique, TokenOrder, IsLatest, Published

LEMMA OrderStep ==
  TypeInv /\ TokensUnique /\ TokenOrder /\ [Next]_vars => TokenOrder'
<1> SUFFICES ASSUME TypeInv, TokensUnique, TokenOrder, [Next]_vars
             PROVE  TokenOrder'
  OBVIOUS
<1> USE DEF TypeInv, TypeOK, TokenOrder, Published, NewerThanAnswered
<1>0. Empty.job = NoJob /\ NoJob \notin Jobs
  BY NoJobAssumption DEF Empty
<1>1. ASSUME NEW j \in Jobs, Search(j) \/ NotifyWrite(j) PROVE TokenOrder'
  BY <1>1 DEF Search, NotifyWrite, loopVars
<1>2. ASSUME NEW j \in Jobs, PublishOrDrop(j) PROVE TokenOrder'
  <2>1. CASE IsLatest(j)
    <3>1. \A k \in Jobs : Published(k) => tok[k] < tok[j]
      BY <1>2, <2>1, LatestIsNewest DEF PublishOrDrop
    <3>2. pending'.job = j /\ thread' = [thread EXCEPT ![j] = "notify"]
      BY <1>2, <2>1 DEF PublishOrDrop
    <3>3. UNCHANGED <<tok, taken, answered, main>>
      BY <1>2 DEF PublishOrDrop, loopVars
    <3> QED BY <3>1, <3>2, <3>3
  <2>2. CASE ~IsLatest(j)
    BY <1>2, <2>2 DEF PublishOrDrop, loopVars
  <2> QED BY <2>1, <2>2
<1>3. ASSUME NEW j \in Jobs, StartPlayQuery(j) PROVE TokenOrder'
  <2>1. tok' = [tok EXCEPT ![j] = latest + 1] /\ ~Published(j)
    BY <1>3 DEF StartPlayQuery
  <2>2. \A k \in Jobs \ {j} : thread'[k] = thread[k] /\ tok'[k] = tok[k]
    BY <1>3 DEF StartPlayQuery
  <2> QED BY <1>3, <2>1, <2>2 DEF StartPlayQuery
<1>4. CASE CancelPending
  BY <1>0, <1>4 DEF CancelPending, threadVars
<1>5. CASE OnReadableTake
  BY <1>0, <1>5 DEF OnReadableTake, threadVars
<1>6. CASE Deliver
  <2>1. \A k \in Jobs : answered'[k] > 0 => answered[k] > 0 \/ k = taken.job
    BY <1>6 DEF Deliver
  <2> QED BY <1>0, <1>6, <2>1 DEF Deliver, threadVars
<1>7. CASE Select \/ SocketQuiet \/ CancelDrain \/ AsrOther \/ RoundEnd
           \/ OnReadableDrain
  BY <1>7 DEF Select, SocketQuiet, CancelDrain, AsrOther, RoundEnd,
              OnReadableDrain, threadVars
<1>8. CASE UNCHANGED vars
  BY <1>8 DEF vars
<1> QED BY <1>1, <1>2, <1>3, <1>4, <1>5, <1>6, <1>7, <1>8
        DEF Next, Loop, Thread

LEMMA FreedStep ==
  TypeInv /\ TokenOrder /\ FreedApart /\ [Next]_vars => FreedApart'
<1> SUFFICES ASSUME TypeInv, TokenOrder, FreedApart, [Next]_vars
             PROVE  FreedApart'
  OBVIOUS
<1> USE DEF TypeInv, TypeOK, ListsHaveQueries, TokenOrder, FreedApart,
            Published, ListOf
<1>0. Empty.out \notin Lists
  BY DEF Empty, Lists
<1>1. ASSUME NEW j \in Jobs, Thread(j) PROVE FreedApart'
  <2>1. CASE Search(j) \/ NotifyWrite(j)
    BY <2>1 DEF Search, NotifyWrite, loopVars
  <2>2. CASE PublishOrDrop(j)
    BY <2>2 DEF PublishOrDrop, loopVars
  <2> QED BY <1>1, <2>1, <2>2 DEF Thread
<1>2. ASSUME NEW j \in Jobs, StartPlayQuery(j) PROVE FreedApart'
  BY <1>2 DEF StartPlayQuery
<1>3. CASE CancelPending
  BY <1>0, <1>3 DEF CancelPending, threadVars
<1>4. CASE OnReadableTake
  BY <1>0, <1>4 DEF OnReadableTake, threadVars
<1>5. CASE Deliver
  BY <1>0, <1>5 DEF Deliver, threadVars
<1>6. CASE Select \/ SocketQuiet \/ CancelDrain \/ AsrOther \/ RoundEnd
           \/ OnReadableDrain
  BY <1>6 DEF Select, SocketQuiet, CancelDrain, AsrOther, RoundEnd,
              OnReadableDrain, threadVars
<1>7. CASE UNCHANGED vars
  BY <1>7 DEF vars
<1> QED BY <1>1, <1>2, <1>3, <1>4, <1>5, <1>6, <1>7 DEF Next, Loop

-----------------------------------------------------------------------------
LEMMA Inductive == Spec => []IInv
<1>1. Init => IInv
  <2> SUFFICES ASSUME Init PROVE IInv
    OBVIOUS
  <2>1. TypeInv
    BY TypeInit
  <2>2. CancelQuiet /\ NoLostAnswer
    BY DEF Init, CancelQuiet, NoLostAnswer, Empty
  <2>3. TokensUnique /\ TokenOrder /\ FreedApart
    BY NoJobAssumption
    DEF Init, TokensUnique, TokenOrder, FreedApart, Empty, Lists
  <2> QED BY <2>1, <2>2, <2>3 DEF IInv
<1>2. IInv /\ [Next]_vars => IInv'
  BY TypeStep, WakeupStep, TokenStep, OrderStep, FreedStep DEF IInv
<1> QED BY <1>1, <1>2, PTL DEF Spec

\* No answer left in the slot loses its wake-up (mas_publish_or_drop,
\* music_server_async_on_readable, music_server_async_cancel_pending).
THEOREM WakeupsArrive == Spec => []NoLostAnswer
<1>1. IInv => NoLostAnswer
  BY DEF IInv
<1> QED BY <1>1, Inductive, PTL

\* A result list has one owner and is never used after its free, whichever
\* of drop, cancel and delivery comes first.
THEOREM ListsOwnedOnce == Spec => []ItemsOwnedOnce
<1>1. IInv => ItemsOwnedOnce
  <2> SUFFICES ASSUME IInv, NEW j \in Jobs
               PROVE  /\ \A x, y \in Holders(j) : x = y
                      /\ j \in freed => Holders(j) = {}
    BY DEF ItemsOwnedOnce
  <2> USE DEF IInv, TypeInv, TypeOK, TokenOrder, FreedApart, Published
  <2>1. j \in ListOf(pending) \/ j \in ListOf(taken) => thread[j] # "publish"
    BY DEF ListOf
  <2>2. ~(j \in ListOf(pending) /\ j \in ListOf(taken))
    BY DEF ListOf
  <2>3. j \in freed => /\ thread[j] # "publish"
                       /\ j \notin ListOf(pending)
                       /\ j \notin ListOf(taken)
    OBVIOUS
  <2> QED BY <2>1, <2>2, <2>3 DEF Holders
<1> QED BY <1>1, Inductive, PTL

\* One answer per query at most, and in the order of the queries: the token
\* test in mas_publish_or_drop is enough for it.
THEOREM AnswersKeepOrder == Spec => AnswersInOrder
<1>1. IInv /\ [Next]_vars =>
        [\A j \in Jobs : answered'[j] # answered[j] =>
            /\ answered'[j] = 1
            /\ \A k \in Jobs \ {j} : answered[k] > 0 => tok[k] < tok[j]]_vars
  <2> SUFFICES ASSUME IInv, [Next]_vars, NEW j \in Jobs,
                      answered'[j] # answered[j]
               PROVE  /\ answered'[j] = 1
                      /\ \A k \in Jobs \ {j} :
                            answered[k] > 0 => tok[k] < tok[j]
    OBVIOUS
  <2> USE DEF IInv, TypeInv, TypeOK
  <2>1. Deliver
    BY DEF Next, Loop, Thread, vars, loopVars, threadVars, Search,
           PublishOrDrop, NotifyWrite, Select, SocketQuiet, CancelPending,
           CancelDrain, AsrOther, StartPlayQuery, RoundEnd, OnReadableDrain,
           OnReadableTake
  <2>2. j = taken.job /\ answered'[j] = answered[j] + 1
    BY <2>1 DEF Deliver
  <2>3. NewerThanAnswered(j)
    BY <2>2 DEF TokenOrder
  <2> QED BY <2>2, <2>3 DEF NewerThanAnswered
<1> QED BY <1>1, Inductive, PTL DEF Spec, AnswersInOrder

-----------------------------------------------------------------------------
(* What becomes of a list: freed, held, or overtaken.                        *)

Overtaken(j) == \E k \in Jobs : tok[k] > tok[j] /\ Published(k)

\* A query has a list only after its search, and a list that was published or
\* dropped is accounted for.
ListsAccounted ==
  \A j \in Jobs :
     /\ thread[j] \in {"idle", "running"} => found[j] \notin Lists
     /\ Published(j) /\ found[j] \in Lists =>
           j \in freed \cup ListOf(pending) \cup ListOf(taken) \/ Overtaken(j)

\* A query that published stays published, under the token it has.
LEMMA PublishedStays ==
  ASSUME TypeInv, [Next]_vars, NEW k \in Jobs, Published(k)
  PROVE  Published(k)' /\ tok'[k] = tok[k] /\ found'[k] = found[k]
<1> USE DEF TypeInv, TypeOK, Published
<1>1. ASSUME NEW j \in Jobs, Thread(j)
      PROVE  Published(k)' /\ tok'[k] = tok[k] /\ found'[k] = found[k]
  BY <1>1 DEF Thread, Search, PublishOrDrop, NotifyWrite, loopVars
<1>2. ASSUME NEW j \in Jobs, StartPlayQuery(j)
      PROVE  Published(k)' /\ tok'[k] = tok[k] /\ found'[k] = found[k]
  BY <1>2 DEF StartPlayQuery
<1>3. CASE UNCHANGED threadVars
  BY <1>3 DEF threadVars
<1> QED
  BY <1>1, <1>2, <1>3
     DEF Next, Loop, Select, SocketQuiet, CancelPending, CancelDrain, AsrOther,
         RoundEnd, OnReadableDrain, OnReadableTake, Deliver, vars, threadVars

LEMMA AccountedStep ==
  TypeInv /\ TokensUnique /\ TokenOrder /\ ListsAccounted /\ [Next]_vars
    => ListsAccounted'
<1> SUFFICES ASSUME TypeInv, TokensUnique, TokenOrder, ListsAccounted,
                    [Next]_vars, NEW i \in Jobs
             PROVE  /\ thread'[i] \in {"idle", "running"} => found'[i] \notin Lists
                    /\ Published(i)' /\ found'[i] \in Lists =>
                         \/ i \in freed' \cup ListOf(pending)' \cup ListOf(taken)'
                         \/ Overtaken(i)'
  BY DEF ListsAccounted
<1> USE DEF TypeInv, TypeOK
<1>0. /\ thread[i] \in {"idle", "running"} => found[i] \notin Lists
      /\ Published(i) /\ found[i] \in Lists =>
           i \in freed \cup ListOf(pending) \cup ListOf(taken) \/ Overtaken(i)
  BY DEF ListsAccounted
<1>a. Published(i) /\ Overtaken(i) => Overtaken(i)'
  BY PublishedStays DEF Overtaken
<1>1. ASSUME NEW j \in Jobs, Search(j) \/ NotifyWrite(j)
      PROVE  /\ thread'[i] \in {"idle", "running"} => found'[i] \notin Lists
             /\ Published(i)' /\ found'[i] \in Lists => 
                  Published(i) /\ found[i] \in Lists
             /\ UNCHANGED <<freed, pending, taken>>
  BY <1>1, <1>0 DEF Search, NotifyWrite, loopVars, Published
<1>2. ASSUME NEW j \in Jobs, PublishOrDrop(j)
      PROVE  /\ thread'[i] \in {"idle", "running"} => found'[i] \notin Lists
             /\ Published(i)' /\ found'[i] \in Lists =>
                  \/ i \in freed' \cup ListOf(pending)' \cup ListOf(taken)'
                  \/ Overtaken(i)'
  <2>1. thread'[i] \in {"idle", "running"} => found'[i] \notin Lists
    BY <1>2, <1>0 DEF PublishOrDrop
  <2>2. CASE i = j
    BY <1>2, <2>1, <2>2 DEF PublishOrDrop, ListOf
  <2>3. CASE i # j
    <3>1. thread'[i] = thread[i] /\ UNCHANGED <<found, taken, tok>>
      BY <1>2, <2>3 DEF PublishOrDrop, loopVars
    <3>2. CASE i \in ListOf(pending) /\ IsLatest(j)
      <4>1. Published(i)
        BY <3>2 DEF ListOf, TokenOrder
      <4>2. tok[i] < tok[j]
        BY <1>2, <3>2, <4>1, LatestIsNewest DEF PublishOrDrop
      <4>3. Published(j)'
        BY <1>2, <3>2 DEF PublishOrDrop, Published
      <4> QED
        BY <2>1, <3>1, <4>2, <4>3 DEF Overtaken
    <3>3. CASE ~(i \in ListOf(pending) /\ IsLatest(j))
      <4>1. freed \subseteq freed' /\ UNCHANGED taken
        BY <1>2 DEF PublishOrDrop, loopVars
      <4>2. i \in ListOf(pending) => i \in ListOf(pending)'
        BY <1>2, <3>3 DEF PublishOrDrop, ListOf
      <4>3. ListOf(taken)' = ListOf(taken)
        BY <4>1 DEF ListOf
      <4>4. Published(i)' /\ found'[i] \in Lists => Published(i) /\ found[i] \in Lists
        BY <3>1 DEF Published
      <4> QED
        BY <1>0, <1>a, <2>1, <4>1, <4>2, <4>3, <4>4
    <3> QED
      BY <3>2, <3>3
  <2> QED
    BY <2>2, <2>3
<1>3. ASSUME NEW j \in Jobs, StartPlayQuery(j)
      PROVE  /\ thread'[i] \in {"idle", "running"} => found'[i] \notin Lists
             /\ Published(i)' /\ found'[i] \in Lists => 
                  Published(i) /\ found[i] \in Lists
             /\ UNCHANGED <<freed, pending, taken>>
  BY <1>3, <1>0 DEF StartPlayQuery, Published
<1>4. CASE UNCHANGED threadVars
  <2>1. /\ thread'[i] \in {"idle", "running"} => found'[i] \notin Lists
        /\ Published(i)' /\ found'[i] \in Lists => Published(i) /\ found[i] \in Lists
    BY <1>0, <1>4 DEF threadVars, Published
  <2>2. main # "deliver" => taken = Empty
    BY DEF TokenOrder
  <2>3. Empty.out \notin Lists
    BY DEF Empty, Lists
  <2>4. CASE CancelPending
    BY <1>0, <1>a, <2>1, <2>4 DEF CancelPending, ListOf
  <2>5. CASE OnReadableTake
    <3>1. ListOf(taken) = {} /\ ListOf(taken)' = ListOf(pending) /\ UNCHANGED freed
      BY <2>2, <2>3, <2>5 DEF OnReadableTake, ListOf
    <3> QED
      BY <1>0, <1>a, <2>1, <3>1
  <2>6. CASE Deliver
    BY <1>0, <1>a, <2>1, <2>6 DEF Deliver, ListOf
  <2>7. CASE UNCHANGED <<freed, pending, taken>>
    BY <1>0, <1>a, <2>1, <2>7 DEF ListOf
  <2>8. CancelPending \/ OnReadableTake \/ Deliver \/ UNCHANGED <<freed, pending, taken>>
    <3>1. ASSUME NEW j \in Jobs, PublishOrDrop(j) PROVE FALSE
      BY <1>4, <3>1 DEF PublishOrDrop, threadVars
    <3> QED
      BY <3>1
         DEF Next, Loop, Thread, Search, NotifyWrite, loopVars, Select,
             SocketQuiet, CancelDrain, AsrOther, StartPlayQuery, RoundEnd,
             OnReadableDrain, vars
  <2> QED
    BY <2>4, <2>5, <2>6, <2>7, <2>8
<1>5. CASE /\ thread'[i] \in {"idle", "running"} => found'[i] \notin Lists
           /\ Published(i)' /\ found'[i] \in Lists => Published(i) /\ found[i] \in Lists
           /\ UNCHANGED <<freed, pending, taken>>
  BY <1>0, <1>a, <1>5 DEF ListOf
<1> QED
  BY <1>1, <1>2, <1>3, <1>4, <1>5
     DEF Next, Loop, Thread, Select, SocketQuiet, CancelPending, CancelDrain,
         AsrOther, RoundEnd, OnReadableDrain, OnReadableTake, Deliver, vars,
         threadVars

\* A result list is lost only when a newer query published over it: the slot
\* is overwritten without a free (mas_publish_or_drop), and nowhere else does
\* a list get out of everybody's hands.
THEOREM ListsLostOnlyIfOvertaken == Spec => []LostOnlyIfOvertaken
<1>1. Init => ListsAccounted
  BY DEF Init, ListsAccounted, Lists, Published
<1>2. IInv /\ ListsAccounted /\ [Next]_vars => ListsAccounted'
  BY AccountedStep DEF IInv
<1>3. ListsAccounted => LostOnlyIfOvertaken
  BY DEF ListsAccounted, LostOnlyIfOvertaken, Holders, Overtaken, Published
<1> QED
  BY <1>1, <1>2, <1>3, Inductive, PTL DEF Spec

=============================================================================
