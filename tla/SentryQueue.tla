------------------------------ MODULE SentryQueue ------------------------------
(***************************************************************************)
(* SentryQueue<T> (sentry_thread_safe_queue.h): a bounded queue with a     *)
(* mutex, two condition variables and a shutdown flag, used by any number  *)
(* of threads.                                                             *)
(*                                                                         *)
(* Every method works under the mutex from its first line, or from waking  *)
(* up, to its return or to going to sleep: such a stretch is one action.   *)
(* A thread that was woken has left the condition variable and has yet to  *)
(* win the mutex; until it does, others may come first.                    *)
(***************************************************************************)
EXTENDS Integers, Sequences, FiniteSets

CONSTANTS
    Producers, Consumers,   \* the threads that push, and those that pop
    Items,
    max_size_

Threads == Producers \cup Consumers

ASSUME QueueAssumption ==
    /\ max_size_ \in Nat
    /\ Producers \cap Consumers = {}
    /\ IsFiniteSet(Producers) /\ IsFiniteSet(Consumers)

VARIABLES
    queue_,
    shutdown_,
    not_empty_, not_full_,  \* the threads asleep on each condition
    expired,                \* the timed calls whose time is over
    calls                   \* per thread, its call and what it brings; or "none"
                            \* and what its last call answered

queueVars == <<queue_, shutdown_, not_empty_, not_full_, expired, calls>>

Pushes == [op : {"push", "tryPush"}, value : Items]
Pops == [op : {"pop", "popWithTimeout"}, value : {"none"}]
Returned == [op : {"none"}, value : Items \cup {"none", "void", "true", "false", "nullopt"}]

Init ==
    /\ queue_ = <<>>
    /\ shutdown_ = FALSE
    /\ not_empty_ = {} /\ not_full_ = {}
    /\ expired = {}
    /\ calls = [t \in Threads |-> [op |-> "none", value |-> "none"]]

-----------------------------------------------------------------------------
\* A notify_one that is forgotten.
NotifyOne_Nobody(asleep) == {asleep}

\* What notify_one leaves of the threads asleep.
NotifyOne(asleep) == IF asleep = {} THEN {{}} ELSE {asleep \ {t} : t \in asleep}

HasRoom_OneMore == Len(queue_) <= max_size_

HasRoom == Len(queue_) < max_size_

\* The thread is in one of these calls and not asleep.
Running(t, ops) == calls[t].op \in ops /\ t \notin not_empty_ \cup not_full_

Return(t, value) ==
    /\ calls' = [calls EXCEPT ![t] = [op |-> "none", value |-> value]]
    /\ expired' = expired \ {t}

\* A thread calls a method.
Call(t, c) ==
    /\ Running(t, {"none"})
    /\ calls' = [calls EXCEPT ![t] = c]
    /\ UNCHANGED <<queue_, shutdown_, not_empty_, not_full_, expired>>

\* push and tryPush
Store(t, answer) ==
    /\ ~shutdown_ /\ HasRoom
    /\ queue_' = Append(queue_, calls[t].value)
    /\ not_empty_' \in NotifyOne(not_empty_)
    /\ Return(t, answer)
    /\ UNCHANGED <<shutdown_, not_full_>>

PushStores(t) == Running(t, {"push"}) /\ Store(t, "void")
TryPushStores(t) == Running(t, {"tryPush"}) /\ Store(t, "true")

PushSleeps(t) ==
    /\ Running(t, {"push"})
    /\ ~shutdown_ /\ ~HasRoom
    /\ not_full_' = not_full_ \cup {t}
    /\ UNCHANGED <<queue_, shutdown_, not_empty_, expired, calls>>

\* push after shutdown: it returns, and the item is gone.
PushDrops(t) ==
    /\ Running(t, {"push"})
    /\ shutdown_
    /\ Return(t, "void")
    /\ UNCHANGED <<queue_, shutdown_, not_empty_, not_full_>>

TryPushFails(t) ==
    /\ Running(t, {"tryPush"})
    /\ ~HasRoom \/ shutdown_
    /\ Return(t, "false")
    /\ UNCHANGED <<queue_, shutdown_, not_empty_, not_full_>>

\* pop and popWithTimeout: an item is taken even after shutdown, and even by a
\* timed call that found it after its time.
PopTakes(t) ==
    /\ Running(t, {"pop", "popWithTimeout"})
    /\ queue_ # <<>>
    /\ queue_' = Tail(queue_)
    /\ not_full_' \in NotifyOne(not_full_)
    /\ Return(t, Head(queue_))
    /\ UNCHANGED <<shutdown_, not_empty_>>

PopSleeps(t) ==
    /\ Running(t, {"pop", "popWithTimeout"})
    /\ queue_ = <<>> /\ ~shutdown_ /\ t \notin expired
    /\ not_empty_' = not_empty_ \cup {t}
    /\ UNCHANGED <<queue_, shutdown_, not_full_, expired, calls>>

PopGivesUp(t) ==
    /\ Running(t, {"pop", "popWithTimeout"})
    /\ queue_ = <<>> /\ (shutdown_ \/ t \in expired)
    /\ Return(t, "nullopt")
    /\ UNCHANGED <<queue_, shutdown_, not_empty_, not_full_>>

\* A shutdown that forgets the producers.
shutdown_WakesConsumers ==
    /\ shutdown_' = TRUE
    /\ not_empty_' = {}
    /\ UNCHANGED <<queue_, not_full_, expired, calls>>

shutdown ==
    /\ shutdown_' = TRUE
    /\ not_empty_' = {} /\ not_full_' = {}
    /\ UNCHANGED <<queue_, expired, calls>>

\* The time of a call to popWithTimeout runs out, whether it sleeps or not.
Expire(t) ==
    /\ calls[t].op = "popWithTimeout" /\ t \notin expired
    /\ expired' = expired \cup {t}
    /\ not_empty_' = not_empty_ \ {t}
    /\ UNCHANGED <<queue_, shutdown_, not_full_, calls>>

\* Condition variables may wake a thread for no reason.
WakeSpuriously(t) ==
    /\ t \in not_empty_ \cup not_full_
    /\ not_empty_' = not_empty_ \ {t}
    /\ not_full_' = not_full_ \ {t}
    /\ UNCHANGED <<queue_, shutdown_, expired, calls>>

-----------------------------------------------------------------------------
PushStep(t) ==
    PushStores(t) \/ TryPushStores(t) \/ PushSleeps(t) \/ PushDrops(t) \/ TryPushFails(t)

PopStep(t) == PopTakes(t) \/ PopSleeps(t) \/ PopGivesUp(t)

Next ==
    \/ \E t \in Producers : PushStep(t) \/ \E c \in Pushes : Call(t, c)
    \/ \E t \in Consumers : PopStep(t) \/ Expire(t) \/ \E c \in Pops : Call(t, c)
    \/ \E t \in Threads : WakeSpuriously(t)
    \/ shutdown

\* The scheduler and the mutex let every thread that is awake in a call go on,
\* and time passes.  Nobody has to call anything, wake for no reason, or shut down.
Fairness ==
    /\ \A t \in Producers : WF_queueVars(PushStep(t))
    /\ \A t \in Consumers : WF_queueVars(PopStep(t)) /\ WF_queueVars(Expire(t))

Spec == Init /\ [][Next]_queueVars /\ Fairness
-----------------------------------------------------------------------------
\* The types of the variables; the queue never holds more than max_size_ items.
TypeOK ==
    /\ queue_ \in Seq(Items) /\ Len(queue_) <= max_size_
    /\ shutdown_ \in BOOLEAN
    /\ not_empty_ \subseteq Consumers
    /\ not_full_ \subseteq Producers
    /\ expired \subseteq Consumers
    /\ calls \in [Threads -> Pushes \cup Pops \cup Returned]

\* The threads in one of these calls that are not asleep.
Awake(ops) == {t \in Threads : Running(t, ops)}

ConsumersOnTheWay ==
    not_empty_ # {} => Cardinality(Awake({"pop", "popWithTimeout"})) >= Len(queue_)
ProducersOnTheWay ==
    not_full_ # {} => Cardinality(Awake({"push"})) >= max_size_ - Len(queue_)
AllAwakeAfterShutdown ==
    shutdown_ => not_empty_ = {} /\ not_full_ = {}

\* No wake-up is lost, though push and pop wake one thread each: while a consumer
\* sleeps, every item in the queue has a consumer of its own on the way to it, and
\* while a producer sleeps, every free place has a producer; a woken thread may
\* find its item gone and go back to sleep.  After shutdown nobody sleeps.
WakeUpsSuffice == ConsumersOnTheWay /\ ProducersOnTheWay /\ AllAwakeAfterShutdown

Fifo == INSTANCE BoundedFifo WITH
    Capacity <- max_size_,
    Requests <- Pushes \cup Pops,
    contents <- queue_,
    closed   <- shutdown_

\* The queue implements the bounded FIFO: items come out once and in order, none
\* is lost but those pushed after shutdown, and nobody who could be served waits
\* for ever, though threads sleep and are woken one at a time.
FifoSpec == Fifo!FifoSpec
=============================================================================
