------------------------------ MODULE BoundedFifo ------------------------------
(***************************************************************************)
(* What a bounded queue shared by threads promises, with no word on locks, *)
(* sleeping or waking: calls are pending until they are served, each in    *)
(* one step, and a call that can be served is not left waiting.            *)
(***************************************************************************)
EXTENDS Integers, Sequences

CONSTANTS
    Threads, Capacity,
    Requests        \* what a thread may ask for: records [op, value]

VARIABLES
    contents,
    closed,
    calls       \* per thread, its pending call, or none and the last answer

fifoVars == <<contents, closed, calls>>

Pending(t, ops) == calls[t].op \in ops

Answer(t, value) == calls' = [calls EXCEPT ![t] = [op |-> "none", value |-> value]]

FifoInit ==
    /\ contents = <<>>
    /\ closed = FALSE
    /\ calls = [t \in Threads |-> [op |-> "none", value |-> "none"]]

Ask(t, op, value) ==
    /\ Pending(t, {"none"})
    /\ calls' = [calls EXCEPT ![t] = [op |-> op, value |-> value]]
    /\ UNCHANGED <<contents, closed>>

Put(t) ==
    /\ ~closed /\ Len(contents) < Capacity
    /\ contents' = Append(contents, calls[t].value)
    /\ UNCHANGED closed
    /\ \/ Pending(t, {"push"}) /\ Answer(t, "void")
       \/ Pending(t, {"tryPush"}) /\ Answer(t, "true")

\* Closed, the queue takes nothing more: a push is over, its item is dropped.
Drop(t) ==
    /\ Pending(t, {"push"}) /\ closed
    /\ Answer(t, "void")
    /\ UNCHANGED <<contents, closed>>

Refuse(t) ==
    /\ Pending(t, {"tryPush"}) /\ (closed \/ Len(contents) >= Capacity)
    /\ Answer(t, "false")
    /\ UNCHANGED <<contents, closed>>

Take(t) ==
    /\ Pending(t, {"pop", "popWithTimeout"}) /\ contents # <<>>
    /\ Answer(t, Head(contents))
    /\ contents' = Tail(contents)
    /\ UNCHANGED closed

\* Nothing there: final once the queue is closed, and for a call with a timeout.
GoWithout(t) ==
    /\ contents = <<>>
    /\ \/ Pending(t, {"pop"}) /\ closed
       \/ Pending(t, {"popWithTimeout"})
    /\ Answer(t, "nullopt")
    /\ UNCHANGED <<contents, closed>>

Serve(t) == Put(t) \/ Drop(t) \/ Refuse(t) \/ Take(t) \/ GoWithout(t)

Close == closed' = TRUE /\ UNCHANGED <<contents, calls>>

FifoNext ==
    \/ \E t \in Threads : Serve(t) \/ \E r \in Requests : Ask(t, r.op, r.value)
    \/ Close

\* Somebody is served while there is room and a producer, or an item and a
\* consumer.  Calls that need not wait, and all calls once the queue is closed,
\* are served one by one: nobody is forgotten.
FifoFairness ==
    /\ WF_fifoVars(\E t \in Threads : Put(t))
    /\ WF_fifoVars(\E t \in Threads : Take(t))
    /\ \A t \in Threads :
        WF_fifoVars((closed \/ Pending(t, {"tryPush", "popWithTimeout"})) /\ Serve(t))

FifoSafety == FifoInit /\ [][FifoNext]_fifoVars

FifoSpec == FifoSafety /\ FifoFairness
=============================================================================
