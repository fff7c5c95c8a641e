----------------------------- MODULE QueueProofs -----------------------------
(***************************************************************************)
(* Theorems about SentryQueue, for any number of threads, any items and    *)
(* any capacity: its types and bound, and that each of its steps is a step *)
(* of the bounded FIFO or invisible to its callers.                        *)
(***************************************************************************)
EXTENDS SentryQueue, FiniteSetTheorems, TLAPS

\* A call that returns leaves well-typed calls and only consumers expired.
LEMMA ReturnType ==
    ASSUME TypeOK, NEW t \in Threads,
           NEW v \in Items \cup {"none", "void", "true", "false", "nullopt"},
           Return(t, v)
    PROVE  calls' \in [Threads -> Pushes \cup Pops \cup Returned] /\ expired' \subseteq Consumers
BY DEF TypeOK, Return, Returned

\* A notification wakes nobody who was not asleep.
LEMMA NotifyWakes ==
    ASSUME NEW S, NEW asleep \in SUBSET S, NEW rest \in NotifyOne(asleep)
    PROVE  rest \subseteq asleep
BY DEF NotifyOne

\* Storing an item keeps the types and the bound (push, tryPush).
LEMMA StoreType ==
    ASSUME TypeOK, NEW t \in Producers, NEW v \in {"void", "true"},
           calls[t].op \in {"push", "tryPush"}, Store(t, v)
    PROVE  TypeOK'
<1> USE QueueAssumption
<1>1. t \in Threads
  BY DEF Threads
<1>2. calls[t].value \in Items
  BY <1>1 DEF TypeOK, Pushes, Pops, Returned
<1>3. queue_' \in Seq(Items) /\ Len(queue_') = Len(queue_) + 1
  BY <1>2 DEF Store, TypeOK
<1>4. Len(queue_') <= max_size_
  BY <1>3 DEF Store, HasRoom, TypeOK
<1>5. not_empty_' \subseteq Consumers
  BY NotifyWakes DEF Store, TypeOK
<1>6. calls' \in [Threads -> Pushes \cup Pops \cup Returned] /\ expired' \subseteq Consumers
  BY <1>1, ReturnType DEF Store
<1> QED
  BY <1>3, <1>4, <1>5, <1>6 DEF Store, TypeOK

\* Taking an item keeps the types and the bound (pop, popWithTimeout).
LEMMA TakeType ==
    ASSUME TypeOK, NEW t \in Consumers, PopTakes(t)
    PROVE  TypeOK'
<1> USE QueueAssumption
<1>1. t \in Threads
  BY DEF Threads
<1>2. /\ Head(queue_) \in Items /\ queue_' \in Seq(Items)
      /\ Len(queue_') = Len(queue_) - 1
  BY DEF PopTakes, TypeOK
<1>3. Len(queue_') <= max_size_
  BY <1>2 DEF TypeOK
<1>4. not_full_' \subseteq Producers
  BY NotifyWakes DEF PopTakes, TypeOK
<1>5. calls' \in [Threads -> Pushes \cup Pops \cup Returned] /\ expired' \subseteq Consumers
  BY <1>1, <1>2, ReturnType DEF PopTakes
<1> QED
  BY <1>2, <1>3, <1>4, <1>5 DEF PopTakes, TypeOK

\* Every step of the queue keeps the types and the bound.
LEMMA StepType ==
    ASSUME TypeOK, [Next]_queueVars
    PROVE  TypeOK'
<1> USE QueueAssumption
<1>1. ASSUME NEW t \in Producers, PushStores(t) PROVE TypeOK'
  BY <1>1, StoreType DEF PushStores, Running
<1>2. ASSUME NEW t \in Producers, TryPushStores(t) PROVE TypeOK'
  BY <1>2, StoreType DEF TryPushStores, Running
<1>3. ASSUME NEW t \in Producers, PushSleeps(t) PROVE TypeOK'
  BY <1>3 DEF PushSleeps, TypeOK
<1>4. ASSUME NEW t \in Producers, PushDrops(t) PROVE TypeOK'
  BY <1>4, ReturnType DEF PushDrops, TypeOK, Threads
<1>5. ASSUME NEW t \in Producers, TryPushFails(t) PROVE TypeOK'
  BY <1>5, ReturnType DEF TryPushFails, TypeOK, Threads
<1>6. ASSUME NEW t \in Consumers, PopTakes(t) PROVE TypeOK'
  BY <1>6, TakeType
<1>7. ASSUME NEW t \in Consumers, PopSleeps(t) PROVE TypeOK'
  BY <1>7 DEF PopSleeps, TypeOK
<1>8. ASSUME NEW t \in Consumers, PopGivesUp(t) PROVE TypeOK'
  BY <1>8, ReturnType DEF PopGivesUp, TypeOK, Threads
<1>9. ASSUME NEW t \in Consumers, Expire(t) PROVE TypeOK'
  BY <1>9 DEF Expire, TypeOK
<1>10. ASSUME NEW t \in Threads, NEW c \in Pushes \cup Pops, Call(t, c) PROVE TypeOK'
  BY <1>10 DEF Call, TypeOK
<1>11. ASSUME NEW t \in Threads, WakeSpuriously(t) PROVE TypeOK'
  BY <1>11 DEF WakeSpuriously, TypeOK
<1>12. ASSUME shutdown PROVE TypeOK'
  BY <1>12 DEF shutdown, TypeOK
<1>13. ASSUME UNCHANGED queueVars PROVE TypeOK'
  BY <1>13 DEF queueVars, TypeOK
<1>14. ASSUME NEW t \in Producers, PushStep(t) PROVE TypeOK'
  BY <1>14, <1>1, <1>2, <1>3, <1>4, <1>5 DEF PushStep
<1>15. ASSUME NEW t \in Consumers, PopStep(t) PROVE TypeOK'
  BY <1>15, <1>6, <1>7, <1>8 DEF PopStep
<1>16. ASSUME NEW t \in Producers, NEW c \in Pushes, Call(t, c) PROVE TypeOK'
  BY <1>16, <1>10 DEF Threads
<1>17. ASSUME NEW t \in Consumers, NEW c \in Pops, Call(t, c) PROVE TypeOK'
  BY <1>17, <1>10 DEF Threads
<1> QED
  BY <1>9, <1>11, <1>12, <1>13, <1>14, <1>15, <1>16, <1>17 DEF Next

\* The queue starts well typed.
LEMMA InitType == Init => TypeOK
<1>1. <<>> \in Seq(Items) /\ Len(<<>>) = 0
  OBVIOUS
<1>2. 0 <= max_size_
  BY QueueAssumption
<1>3. [op |-> "none", value |-> "none"] \in Returned
  BY DEF Returned
<1> QED
  BY <1>1, <1>2, <1>3 DEF Init, TypeOK

\* Type correctness of the queue; it never holds more than max_size_ items,
\* however many threads push (push, tryPush).
THEOREM QueueTypesCorrect == Spec => []TypeOK
<1>1. TypeOK /\ [Next]_queueVars => TypeOK'
  BY StepType
<1> QED
  BY <1>1, InitType, PTL DEF Spec

-----------------------------------------------------------------------------
\* Time runs out only for the timed calls that are pending.
ExpiredAreTimed == \A t \in expired : calls[t].op = "popWithTimeout"

\* The strengthening that PopGivesUp needs is kept by every step.
LEMMA StepExpired ==
    ASSUME TypeOK, ExpiredAreTimed, [Next]_queueVars
    PROVE  ExpiredAreTimed'
<1>1. ASSUME NEW t \in Threads, NEW v, Return(t, v) PROVE ExpiredAreTimed'
  BY <1>1 DEF Return, ExpiredAreTimed, TypeOK, Threads
<1>2. ASSUME NEW t \in Producers, PushStep(t) PROVE ExpiredAreTimed'
  BY <1>2, <1>1 DEF PushStep, PushStores, TryPushStores, Store, PushSleeps, PushDrops,
                    TryPushFails, ExpiredAreTimed, Threads
<1>3. ASSUME NEW t \in Consumers, PopStep(t) PROVE ExpiredAreTimed'
  BY <1>3, <1>1 DEF PopStep, PopTakes, PopSleeps, PopGivesUp, ExpiredAreTimed, Threads
<1>4. ASSUME NEW t \in Consumers, Expire(t) PROVE ExpiredAreTimed'
  BY <1>4 DEF Expire, ExpiredAreTimed
<1>5. ASSUME NEW t \in Threads, NEW c, Call(t, c) PROVE ExpiredAreTimed'
  BY <1>5 DEF Call, Running, ExpiredAreTimed, TypeOK
<1>6. ASSUME NEW t \in Threads, WakeSpuriously(t) PROVE ExpiredAreTimed'
  BY <1>6 DEF WakeSpuriously, ExpiredAreTimed
<1>7. CASE shutdown
  BY <1>7 DEF shutdown, ExpiredAreTimed
<1>8. CASE UNCHANGED queueVars
  BY <1>8 DEF queueVars, ExpiredAreTimed
<1> QED
  BY <1>2, <1>3, <1>4, <1>5, <1>6, <1>7, <1>8 DEF Next, Threads

(* Each step of the queue is a step of the bounded FIFO, or stutters.       *)

\* A method that gets its answer serves the call of the abstract queue.
LEMMA StepServes ==
    ASSUME TypeOK, ExpiredAreTimed, NEW t \in Threads,
           \/ PushStores(t) \/ TryPushStores(t) \/ PushDrops(t) \/ TryPushFails(t)
           \/ PopTakes(t) \/ PopGivesUp(t)
    PROVE  Fifo!Serve(t)
<1> USE QueueAssumption DEF Running, Return, Fifo!Pending, Fifo!Answer
<1>1. CASE PushStores(t)
  BY <1>1 DEF PushStores, Store, HasRoom, Fifo!Serve, Fifo!Put
<1>2. CASE TryPushStores(t)
  BY <1>2 DEF TryPushStores, Store, HasRoom, Fifo!Serve, Fifo!Put
<1>3. CASE PushDrops(t)
  BY <1>3 DEF PushDrops, Fifo!Serve, Fifo!Drop
<1>4. CASE TryPushFails(t)
  <2>1. ~HasRoom => Len(queue_) >= max_size_
    BY DEF HasRoom, TypeOK
  <2> QED
    BY <1>4, <2>1 DEF TryPushFails, Fifo!Serve, Fifo!Refuse
<1>5. CASE PopTakes(t)
  BY <1>5 DEF PopTakes, Fifo!Serve, Fifo!Take
<1>6. CASE PopGivesUp(t)
  BY <1>6 DEF PopGivesUp, Fifo!Serve, Fifo!GoWithout, ExpiredAreTimed
<1> QED
  BY <1>1, <1>2, <1>3, <1>4, <1>5, <1>6

\* Sleeping, waking and the passing of time are invisible to the callers; every
\* other step is one of the bounded FIFO.
LEMMA StepRefines ==
    ASSUME TypeOK, ExpiredAreTimed, [Next]_queueVars
    PROVE  [Fifo!FifoNext]_(Fifo!fifoVars)
<1>1. ASSUME NEW t \in Threads, Fifo!Serve(t) PROVE Fifo!FifoNext
  BY <1>1 DEF Fifo!FifoNext
<1>2. ASSUME NEW t \in Producers, PushStep(t) PROVE [Fifo!FifoNext]_(Fifo!fifoVars)
  <2>1. CASE PushSleeps(t)
    BY <2>1 DEF PushSleeps, Fifo!fifoVars
  <2> QED
    BY <1>1, <1>2, <2>1, StepServes DEF PushStep, Threads
<1>3. ASSUME NEW t \in Consumers, PopStep(t) PROVE [Fifo!FifoNext]_(Fifo!fifoVars)
  <2>1. CASE PopSleeps(t)
    BY <2>1 DEF PopSleeps, Fifo!fifoVars
  <2> QED
    BY <1>1, <1>3, <2>1, StepServes DEF PopStep, Threads
<1>4. ASSUME NEW t \in Threads, NEW c \in Pushes \cup Pops, Call(t, c) PROVE Fifo!FifoNext
  <2>1. c = [op |-> c.op, value |-> c.value]
    BY DEF Pushes, Pops
  <2>2. Fifo!Ask(t, c.op, c.value)
    BY <1>4, <2>1 DEF Call, Running, Fifo!Ask, Fifo!Pending
  <2> QED
    BY <2>2 DEF Fifo!FifoNext
<1>5. ASSUME NEW t \in Consumers, Expire(t) PROVE UNCHANGED Fifo!fifoVars
  BY <1>5 DEF Expire, Fifo!fifoVars
<1>6. ASSUME NEW t \in Threads, WakeSpuriously(t) PROVE UNCHANGED Fifo!fifoVars
  BY <1>6 DEF WakeSpuriously, Fifo!fifoVars
<1>7. CASE shutdown
  BY <1>7 DEF shutdown, Fifo!FifoNext, Fifo!Close
<1>8. CASE UNCHANGED queueVars
  BY <1>8 DEF queueVars, Fifo!fifoVars
<1> QED
  BY <1>2, <1>3, <1>4, <1>5, <1>6, <1>7, <1>8 DEF Next, Threads

\* The queue implements the bounded FIFO, as far as safety goes: for any number of
\* threads items come out once and in order, and every answer is one the abstract
\* queue could give at that moment (push, tryPush, pop, popWithTimeout, shutdown).
THEOREM QueueIsFifo == Spec => Fifo!FifoSafety
<1>1. Init => TypeOK /\ ExpiredAreTimed /\ Fifo!FifoInit
  BY InitType DEF Init, ExpiredAreTimed, Fifo!FifoInit
<1>2. TypeOK /\ ExpiredAreTimed /\ [Next]_queueVars
        => TypeOK' /\ ExpiredAreTimed' /\ [Fifo!FifoNext]_(Fifo!fifoVars)
  BY StepType, StepExpired, StepRefines
<1> QED
  BY <1>1, <1>2, PTL DEF Spec, Fifo!FifoSafety
-----------------------------------------------------------------------------
(* No wake-up is lost.                                                      *)

PopCalls == {"pop", "popWithTimeout"}

\* A thread sleeps on the condition of its own call.
SleepersWait ==
    /\ \A t \in not_empty_ : calls[t].op \in PopCalls
    /\ \A t \in not_full_ : calls[t].op = "push"

\* There are finitely many threads, so sets of them can be counted.
LEMMA Counting ==
    ASSUME NEW S \in SUBSET Threads
    PROVE  IsFiniteSet(S) /\ Cardinality(S) \in Nat
<1>1. IsFiniteSet(Threads)
  BY FS_Union, QueueAssumption DEF Threads
<1> QED
  BY <1>1, FS_Subset, FS_CardinalityType

\* A larger set of threads has at least as many.
LEMMA NoFewer ==
    ASSUME NEW S \in SUBSET Threads, NEW T \in SUBSET Threads, S \subseteq T
    PROVE  Cardinality(S) <= Cardinality(T)
BY Counting, FS_Subset

\* One thread more.
LEMMA OneMore ==
    ASSUME NEW S \in SUBSET Threads, NEW T \in SUBSET Threads,
           NEW x \in T, x \notin S, S \subseteq T
    PROVE  Cardinality(T) >= Cardinality(S) + 1
<1>1. Cardinality(S \cup {x}) = Cardinality(S) + 1
  BY Counting, FS_AddElement
<1>2. Cardinality(S \cup {x}) <= Cardinality(T)
  BY NoFewer
<1>3. Cardinality(S) \in Nat /\ Cardinality(T) \in Nat
  BY Counting
<1> QED
  BY <1>1, <1>2, <1>3

\* All threads but one.
LEMMA OneFewer ==
    ASSUME NEW S \in SUBSET Threads, NEW T \in SUBSET Threads, NEW x, S \ {x} \subseteq T
    PROVE  Cardinality(T) >= Cardinality(S) - 1
<1>1. Cardinality(S) \in Nat /\ Cardinality(T) \in Nat /\ Cardinality(S \ {x}) \in Nat
  BY Counting
<1>2. Cardinality(S \ {x}) >= Cardinality(S) - 1
  BY Counting, FS_RemoveElement, <1>1
<1>3. Cardinality(S \ {x}) <= Cardinality(T)
  BY NoFewer
<1> QED
  BY <1>1, <1>2, <1>3

\* Sleepers stay on the condition of their call.
LEMMA StepSleepers ==
    ASSUME TypeOK, SleepersWait, [Next]_queueVars
    PROVE  SleepersWait'
<1>1. ASSUME NEW t \in Threads, NEW v, Return(t, v), t \notin not_empty_ \cup not_full_,
             not_empty_' \subseteq not_empty_, not_full_' \subseteq not_full_
      PROVE  SleepersWait'
  BY <1>1 DEF Return, SleepersWait, TypeOK
<1>2. ASSUME NEW t \in Producers, PushStores(t) \/ TryPushStores(t) PROVE SleepersWait'
  <2>1. not_empty_' \subseteq not_empty_
    BY <1>2, NotifyWakes DEF PushStores, TryPushStores, Store
  <2> QED
    BY <1>1, <1>2, <2>1 DEF PushStores, TryPushStores, Store, Running, Threads
<1>3. ASSUME NEW t \in Producers, PushDrops(t) \/ TryPushFails(t) PROVE SleepersWait'
  BY <1>1, <1>3 DEF PushDrops, TryPushFails, Running, Threads
<1>4. ASSUME NEW t \in Producers, PushSleeps(t) PROVE SleepersWait'
  BY <1>4 DEF PushSleeps, Running, SleepersWait
<1>5. ASSUME NEW t \in Consumers, PopTakes(t) PROVE SleepersWait'
  <2>1. not_full_' \subseteq not_full_
    BY <1>5, NotifyWakes DEF PopTakes
  <2> QED
    BY <1>1, <1>5, <2>1 DEF PopTakes, Running, Threads
<1>6. ASSUME NEW t \in Consumers, PopGivesUp(t) PROVE SleepersWait'
  BY <1>1, <1>6 DEF PopGivesUp, Running, Threads
<1>7. ASSUME NEW t \in Consumers, PopSleeps(t) PROVE SleepersWait'
  BY <1>7 DEF PopSleeps, Running, SleepersWait, PopCalls
<1>8. ASSUME NEW t \in Threads, NEW c, Call(t, c) PROVE SleepersWait'
  BY <1>8 DEF Call, Running, SleepersWait, TypeOK
<1>9. ASSUME NEW t \in Consumers, Expire(t) PROVE SleepersWait'
  BY <1>9 DEF Expire, SleepersWait
<1>10. ASSUME NEW t \in Threads, WakeSpuriously(t) PROVE SleepersWait'
  BY <1>10 DEF WakeSpuriously, SleepersWait
<1>11. CASE shutdown
  BY <1>11 DEF shutdown, SleepersWait
<1>12. CASE UNCHANGED queueVars
  BY <1>12 DEF queueVars, SleepersWait
<1> QED
  BY <1>2, <1>3, <1>4, <1>5, <1>6, <1>7, <1>8, <1>9, <1>10, <1>11, <1>12
  DEF Next, PushStep, PopStep, Threads
\* While a consumer sleeps, each item has a consumer awake: a push brings an item
\* and wakes a consumer, a pop takes both away, and a consumer goes to sleep only
\* beside an empty queue.
LEMMA StepConsumers ==
    ASSUME TypeOK, TypeOK', SleepersWait, ConsumersOnTheWay, [Next]_queueVars
    PROVE  ConsumersOnTheWay'
<1> DEFINE P == Awake(PopCalls)
<1>1. P \in SUBSET Threads /\ P' \in SUBSET Threads
  BY DEF Awake
<1>2. Cardinality(P) \in Nat /\ Cardinality(P') \in Nat /\ Len(queue_) \in Nat /\ Len(queue_') \in Nat
  BY <1>1, Counting DEF TypeOK
<1>3. not_empty_ # {} => Cardinality(P) >= Len(queue_)
  BY DEF ConsumersOnTheWay, PopCalls
<1>4. SUFFICES not_empty_' # {} => Cardinality(P') >= Len(queue_')
  BY DEF ConsumersOnTheWay, PopCalls
<1> HIDE DEF P
<1>5. ASSUME P \subseteq P', Len(queue_') <= Len(queue_), not_empty_' \subseteq not_empty_
      PROVE  not_empty_' # {} => Cardinality(P') >= Len(queue_')
  <2>1. Cardinality(P) <= Cardinality(P')
    BY <1>1, <1>5, NoFewer
  <2> QED
    BY <1>2, <1>3, <1>5, <2>1
<1>6. ASSUME NEW t \in Producers, PushStores(t) \/ TryPushStores(t)
      PROVE  not_empty_' # {} => Cardinality(P') >= Len(queue_')
  <2>1. Len(queue_') = Len(queue_) + 1 /\ not_empty_' \in NotifyOne(not_empty_)
    <3>1. calls[t].value \in Items
      BY <1>6 DEF PushStores, TryPushStores, Running, TypeOK, Threads, Pushes, Pops, Returned
    <3> QED
      BY <1>6, <3>1 DEF PushStores, TryPushStores, Store, TypeOK
  <2>2. CASE not_empty_ = {}
    BY <2>1, <2>2 DEF NotifyOne
  <2>3. CASE not_empty_ # {}
    <3>1. PICK w \in not_empty_ : not_empty_' = not_empty_ \ {w}
      BY <2>1, <2>3 DEF NotifyOne
    <3>2. w # t /\ w \in Threads
      BY <1>6 DEF TypeOK, Threads, PushStores, TryPushStores, Running
    <3>3. calls'[w] = calls[w] /\ not_full_' = not_full_
      BY <1>6, <3>2 DEF PushStores, TryPushStores, Store, Return, TypeOK
    <3>4. w \notin not_full_
      BY QueueAssumption DEF TypeOK
    <3>5. w \in P' /\ w \notin P
      BY <3>1, <3>2, <3>3, <3>4 DEF P, Awake, Running, SleepersWait
    <3>6. P \subseteq P'
      BY <1>6, <3>1 DEF P, Awake, Running, PopCalls, PushStores, TryPushStores, Store, Return, TypeOK
    <3>7. Cardinality(P') >= Cardinality(P) + 1
      BY <1>1, <3>5, <3>6, OneMore
    <3> QED
      BY <1>2, <1>3, <2>1, <2>3, <3>7
  <2> QED
    BY <2>2, <2>3
<1>7. ASSUME NEW t \in Consumers, PopTakes(t)
      PROVE  not_empty_' # {} => Cardinality(P') >= Len(queue_')
  <2>1. Len(queue_') = Len(queue_) - 1 /\ not_empty_' = not_empty_
    BY <1>7 DEF PopTakes, TypeOK
  <2>2. not_full_' \subseteq not_full_
    BY <1>7, NotifyWakes DEF PopTakes
  <2>3. P \ {t} \subseteq P'
    BY <1>7, <2>1, <2>2 DEF PopTakes, Return, P, Awake, Running, TypeOK
  <2>4. Cardinality(P') >= Cardinality(P) - 1
    BY <1>1, <2>3, OneFewer
  <2> QED
    BY <1>2, <1>3, <2>1, <2>4
<1>8. ASSUME NEW t \in Consumers, PopSleeps(t) \/ PopGivesUp(t)
      PROVE  not_empty_' # {} => Cardinality(P') >= Len(queue_')
  <2>1. Len(queue_') = 0
    BY <1>8 DEF PopSleeps, PopGivesUp
  <2> QED
    BY <1>2, <2>1
<1>9. ASSUME NEW t \in Producers, PushSleeps(t) \/ PushDrops(t) \/ TryPushFails(t)
      PROVE  not_empty_' # {} => Cardinality(P') >= Len(queue_')
  <2>1. P \subseteq P'
    BY <1>9 DEF PushSleeps, PushDrops, TryPushFails, Return, P, Awake, Running, PopCalls, TypeOK
  <2> QED
    BY <1>2, <1>5, <1>9, <2>1 DEF PushSleeps, PushDrops, TryPushFails
<1>10. ASSUME NEW t \in Threads, NEW c, Call(t, c)
       PROVE  not_empty_' # {} => Cardinality(P') >= Len(queue_')
  <2>1. P \subseteq P'
    BY <1>10 DEF Call, P, Awake, Running, PopCalls, TypeOK
  <2> QED
    BY <1>2, <1>5, <1>10, <2>1 DEF Call
<1>11. ASSUME NEW t \in Threads, (t \in Consumers /\ Expire(t)) \/ WakeSpuriously(t)
       PROVE  not_empty_' # {} => Cardinality(P') >= Len(queue_')
  <2>1. P \subseteq P'
    BY <1>11 DEF Expire, WakeSpuriously, P, Awake, Running
  <2> QED
    BY <1>2, <1>5, <1>11, <2>1 DEF Expire, WakeSpuriously
<1>12. CASE shutdown
  BY <1>12 DEF shutdown
<1>13. CASE UNCHANGED queueVars
  <2>1. P \subseteq P'
    BY <1>13 DEF queueVars, P, Awake, Running
  <2> QED
    BY <1>2, <1>5, <1>13, <2>1 DEF queueVars
<1> QED
  BY <1>6, <1>7, <1>8, <1>9, <1>10, <1>11, <1>12, <1>13 DEF Next, PushStep, PopStep, Threads

\* While a producer sleeps, each free place has a producer awake: a pop makes a
\* place and wakes a producer, a push takes both away, and a producer goes to sleep
\* only beside a full queue.
LEMMA StepProducers ==
    ASSUME TypeOK, TypeOK', SleepersWait, ProducersOnTheWay, AllAwakeAfterShutdown,
           [Next]_queueVars
    PROVE  ProducersOnTheWay'
<1> DEFINE P == Awake({"push"})
           room == max_size_ - Len(queue_)
<1>1. P \in SUBSET Threads /\ P' \in SUBSET Threads
  BY DEF Awake
<1>2. /\ Cardinality(P) \in Nat /\ Cardinality(P') \in Nat
      /\ Len(queue_) \in Nat /\ Len(queue_') \in Nat /\ max_size_ \in Nat
  BY <1>1, Counting, QueueAssumption DEF TypeOK
<1>3. not_full_ # {} => Cardinality(P) >= room
  BY DEF ProducersOnTheWay
<1>4. SUFFICES not_full_' # {} => Cardinality(P') >= room'
  BY DEF ProducersOnTheWay
<1> HIDE DEF P
<1>5. ASSUME P \subseteq P', Len(queue_') >= Len(queue_), not_full_' \subseteq not_full_
      PROVE  not_full_' # {} => Cardinality(P') >= room'
  <2>1. Cardinality(P) <= Cardinality(P')
    BY <1>1, <1>5, NoFewer
  <2> QED
    BY <1>2, <1>3, <1>5, <2>1
<1>6. ASSUME NEW t \in Producers, PushStores(t) \/ TryPushStores(t)
      PROVE  not_full_' # {} => Cardinality(P') >= room'
  <2>1. Len(queue_') = Len(queue_) + 1 /\ not_full_' = not_full_ /\ not_empty_' \subseteq not_empty_
    <3>1. calls[t].value \in Items
      BY <1>6 DEF PushStores, TryPushStores, Running, TypeOK, Threads, Pushes, Pops, Returned
    <3>2. not_empty_' \subseteq not_empty_
      BY <1>6, NotifyWakes DEF PushStores, TryPushStores, Store
    <3> QED
      BY <1>6, <3>1, <3>2 DEF PushStores, TryPushStores, Store, TypeOK
  <2>2. P \ {t} \subseteq P'
    BY <1>6, <2>1 DEF PushStores, TryPushStores, Store, Return, P, Awake, Running, TypeOK
  <2>3. Cardinality(P') >= Cardinality(P) - 1
    BY <1>1, <2>2, OneFewer
  <2> QED
    BY <1>2, <1>3, <2>1, <2>3
<1>7. ASSUME NEW t \in Consumers, PopTakes(t)
      PROVE  not_full_' # {} => Cardinality(P') >= room'
  <2>1. Len(queue_') = Len(queue_) - 1 /\ not_full_' \in NotifyOne(not_full_) /\ not_empty_' = not_empty_
    BY <1>7 DEF PopTakes, TypeOK
  <2>2. CASE not_full_ = {}
    BY <2>1, <2>2 DEF NotifyOne
  <2>3. CASE not_full_ # {}
    <3>1. PICK w \in not_full_ : not_full_' = not_full_ \ {w}
      BY <2>1, <2>3 DEF NotifyOne
    <3>2. w # t /\ w \in Threads
      BY <1>7 DEF TypeOK, Threads, PopTakes, Running
    <3>3. calls'[w] = calls[w]
      BY <1>7, <3>2 DEF PopTakes, Return, TypeOK
    <3>4. w \notin not_empty_
      BY QueueAssumption DEF TypeOK
    <3>5. w \in P' /\ w \notin P
      BY <2>1, <3>1, <3>2, <3>3, <3>4 DEF P, Awake, Running, SleepersWait
    <3>6. P \subseteq P'
      BY <1>7, <2>1, <3>1 DEF P, Awake, Running, PopTakes, Return, TypeOK
    <3>7. Cardinality(P') >= Cardinality(P) + 1
      BY <1>1, <3>5, <3>6, OneMore
    <3> QED
      BY <1>2, <1>3, <2>1, <2>3, <3>7
  <2> QED
    BY <2>2, <2>3
<1>8. ASSUME NEW t \in Consumers, PopSleeps(t) \/ PopGivesUp(t)
      PROVE  not_full_' # {} => Cardinality(P') >= room'
  <2>1. P \subseteq P'
    BY <1>8, QueueAssumption DEF PopSleeps, PopGivesUp, Return, P, Awake, Running, PopCalls, TypeOK
  <2> QED
    BY <1>2, <1>5, <1>8, <2>1 DEF PopSleeps, PopGivesUp
<1>9. ASSUME NEW t \in Producers, PushSleeps(t)
      PROVE  not_full_' # {} => Cardinality(P') >= room'
  BY <1>2, <1>9 DEF PushSleeps, HasRoom
<1>10. ASSUME NEW t \in Producers, PushDrops(t)
       PROVE  not_full_' # {} => Cardinality(P') >= room'
  BY <1>10 DEF PushDrops, AllAwakeAfterShutdown
<1>11. ASSUME NEW t \in Producers, TryPushFails(t)
       PROVE  not_full_' # {} => Cardinality(P') >= room'
  <2>1. P \subseteq P'
    BY <1>11 DEF TryPushFails, Return, P, Awake, Running, TypeOK
  <2> QED
    BY <1>2, <1>5, <1>11, <2>1 DEF TryPushFails
<1>12. ASSUME NEW t \in Threads, NEW c, Call(t, c)
       PROVE  not_full_' # {} => Cardinality(P') >= room'
  <2>1. P \subseteq P'
    BY <1>12 DEF Call, P, Awake, Running, TypeOK
  <2> QED
    BY <1>2, <1>5, <1>12, <2>1 DEF Call
<1>13. ASSUME NEW t \in Threads, (t \in Consumers /\ Expire(t)) \/ WakeSpuriously(t)
       PROVE  not_full_' # {} => Cardinality(P') >= room'
  <2>1. P \subseteq P'
    BY <1>13 DEF Expire, WakeSpuriously, P, Awake, Running
  <2> QED
    BY <1>2, <1>5, <1>13, <2>1 DEF Expire, WakeSpuriously
<1>14. CASE shutdown
  BY <1>14 DEF shutdown
<1>15. CASE UNCHANGED queueVars
  <2>1. P \subseteq P'
    BY <1>15 DEF queueVars, P, Awake, Running
  <2> QED
    BY <1>2, <1>5, <1>15, <2>1 DEF queueVars
<1> QED
  BY <1>6, <1>7, <1>8, <1>9, <1>10, <1>11, <1>12, <1>13, <1>14, <1>15
  DEF Next, PushStep, PopStep, Threads

\* shutdown wakes everybody, and nobody goes to sleep after it.
LEMMA StepAwake ==
    ASSUME TypeOK, AllAwakeAfterShutdown, [Next]_queueVars
    PROVE  AllAwakeAfterShutdown'
<1> USE DEF AllAwakeAfterShutdown
<1>1. ASSUME NEW t \in Producers, PushStep(t) PROVE AllAwakeAfterShutdown'
  BY <1>1 DEF PushStep, PushStores, TryPushStores, Store, PushSleeps, PushDrops, TryPushFails
<1>2. ASSUME NEW t \in Consumers, PopTakes(t) PROVE AllAwakeAfterShutdown'
  <2>1. not_full_' \subseteq not_full_
    BY <1>2, NotifyWakes DEF PopTakes
  <2> QED
    BY <1>2, <2>1 DEF PopTakes
<1>3. ASSUME NEW t \in Consumers, PopSleeps(t) \/ PopGivesUp(t) \/ Expire(t)
      PROVE  AllAwakeAfterShutdown'
  BY <1>3 DEF PopSleeps, PopGivesUp, Expire
<1>4. ASSUME NEW t \in Threads, WakeSpuriously(t) \/ \E c \in Pushes \cup Pops : Call(t, c)
      PROVE  AllAwakeAfterShutdown'
  BY <1>4 DEF WakeSpuriously, Call
<1>5. CASE shutdown
  BY <1>5 DEF shutdown
<1>6. CASE UNCHANGED queueVars
  BY <1>6 DEF queueVars
<1> QED
  BY <1>1, <1>2, <1>3, <1>4, <1>5, <1>6 DEF Next, PopStep, Threads

\* No wake-up is lost, for any number of producers and consumers and any capacity
\* (push, tryPush, pop, popWithTimeout, shutdown).
THEOREM NoWakeUpIsLost == Spec => []WakeUpsSuffice
<1>1. Init => TypeOK /\ SleepersWait /\ WakeUpsSuffice
  BY InitType DEF Init, SleepersWait, WakeUpsSuffice, ConsumersOnTheWay, ProducersOnTheWay,
                  AllAwakeAfterShutdown
<1>2. TypeOK /\ SleepersWait /\ WakeUpsSuffice /\ [Next]_queueVars
        => TypeOK' /\ SleepersWait' /\ WakeUpsSuffice'
  BY StepType, StepSleepers, StepConsumers, StepProducers, StepAwake DEF WakeUpsSuffice
<1> QED
  BY <1>1, <1>2, PTL DEF Spec
=============================================================================
