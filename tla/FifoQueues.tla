----------------------------- MODULE FifoQueues -----------------------------
(***************************************************************************)
(* What shared/utils/ts_queue.hpp promises to its users: first-in-first-   *)
(* out queues.  A thread calls an operation, and the operation takes       *)
(* effect once, at one instant, as that operation does.                    *)
(***************************************************************************)
EXTENDS Naturals, Sequences

CONSTANTS Threads, Queues, Values, Operations, NoCall, Nullopt

VARIABLES
    queue,    \* the contents of each queue
    call,     \* the operation each thread has called last
    todo,     \* it has not taken effect yet
    result    \* what the last operation of each thread returned

vars == <<queue, call, todo, result>>

Init ==
    /\ queue = [q \in Queues |-> << >>]
    /\ call = [t \in Threads |-> NoCall]
    /\ todo = [t \in Threads |-> FALSE]
    /\ result = [t \in Threads |-> Nullopt]

\* Swapping a queue with itself is nothing to do.
Invoke(t, c) ==
    /\ ~todo[t]
    /\ call' = [call EXCEPT ![t] = c]
    /\ todo' = [todo EXCEPT ![t] = c.other # c.q]
    /\ UNCHANGED <<queue, result>>

Effect(t, ops) ==
    /\ todo[t] /\ call[t].op \in ops
    /\ todo' = [todo EXCEPT ![t] = FALSE]
    /\ UNCHANGED call

Return(t, v) == result' = [result EXCEPT ![t] = v]

Enqueue(t, v) ==
    /\ Effect(t, {"Push"})
    /\ queue' = [queue EXCEPT ![call[t].q] = Append(@, v)]
    /\ UNCHANGED result

Dequeue(t) ==
    /\ Effect(t, {"TryPop", "WaitAndPop"})
    /\ queue[call[t].q] # << >>
    /\ queue' = [queue EXCEPT ![call[t].q] = Tail(@)]
    /\ Return(t, Head(queue[call[t].q]))

Miss(t) ==
    /\ Effect(t, {"TryPop"})
    /\ queue[call[t].q] = << >>
    /\ Return(t, Nullopt)
    /\ UNCHANGED queue

Measure(t) ==
    /\ \/ Effect(t, {"Size"}) /\ Return(t, Len(queue[call[t].q]))
       \/ /\ Effect(t, {"Empty"})
          /\ Return(t, IF queue[call[t].q] = << >> THEN 1 ELSE 0)
    /\ UNCHANGED queue

Exchange(t) ==
    /\ Effect(t, {"TSSwap"})
    /\ queue' = [queue EXCEPT ![call[t].q] = queue[call[t].other],
                              ![call[t].other] = queue[call[t].q]]
    /\ UNCHANGED result

Next ==
    \E t \in Threads :
        \/ \E c \in Operations : Invoke(t, c)
        \/ \E v \in Values : Enqueue(t, v)
        \/ Dequeue(t) \/ Miss(t) \/ Measure(t) \/ Exchange(t)

Spec == Init /\ [][Next]_vars
=============================================================================
