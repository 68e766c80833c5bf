------------------------------- MODULE TSQueue -------------------------------
(***************************************************************************)
(* The queues of shared/utils/ts_queue.hpp: a std::queue under a mutex     *)
(* with a condition variable.  Inside the lock every statement that        *)
(* touches data_ is a step of its own, so the model also has the states in *)
(* which a value is moved out but not popped, or a swap is half done.      *)
(*                                                                         *)
(* The operations a thread performs are given by Calls: the program waits  *)
(* on one queue and swaps others, and the class is only safe so.           *)
(***************************************************************************)
EXTENDS Naturals, Sequences, FiniteSets

CONSTANTS
    Threads, Queues, Values,
    Nullopt,       \* std::nullopt
    Moved,         \* what std::move leaves at the front of a queue
    None,          \* no thread
    Calls,         \* Calls[t]: the operations thread t performs
    MaxCalls       \* bound: the number of operations of each thread

Operations ==
    [op : {"Push", "TryPop", "WaitAndPop", "Empty", "Size"}, q : Queues,
     other : {None}]
    \cup [op : {"TSSwap"}, q : Queues, other : Queues]

ASSUME TSQueueAssumption ==
    /\ IsFiniteSet(Threads)
    /\ Calls \in [Threads -> SUBSET Operations]
    /\ None \notin Threads \cup Queues
    /\ Moved \notin Values
    /\ MaxCalls \in [Threads -> Nat]

\* The senders wait on the net out_queue (server.cpp:103) and the game thread
\* swaps the net in_queue with its own (world.cpp:69).
ASSUME WaitedQueuesNotSwapped ==
    \A t, u \in Threads : \A c \in Calls[t], d \in Calls[u] :
        c.op = "TSSwap" /\ d.op = "WaitAndPop" => d.q \notin {c.q, c.other}

VARIABLES
    data,      \* data_ of each queue
    owner,     \* the thread that holds data_mutex_ of each queue, or None
    waiting,   \* the threads blocked in data_cond_.wait of each queue
    pc, call,  \* where each thread is, and the operation it performs
    held,      \* its local value: what Push was given, what a pop moved out
    tmp,       \* TSSwap's local tmp
    result,    \* what its last operation returned
    calls      \* how many operations it has started

vars == <<data, owner, waiting, pc, call, held, tmp, result, calls>>

NoCall == [op |-> "none", q |-> None, other |-> None]

Init ==
    /\ data = [q \in Queues |-> << >>]
    /\ owner = [q \in Queues |-> None]
    /\ waiting = [q \in Queues |-> {}]
    /\ pc = [t \in Threads |-> "idle"]
    /\ call = [t \in Threads |-> NoCall]
    /\ held = [t \in Threads |-> Nullopt]
    /\ tmp = [t \in Threads |-> << >>]
    /\ result = [t \in Threads |-> Nullopt]
    /\ calls = [t \in Threads |-> 0]

Goto(t, label) == pc' = [pc EXCEPT ![t] = label]
SetOwner(q, t) == owner' = [owner EXCEPT ![q] = t]
SetData(q, s)  == data' = [data EXCEPT ![q] = s]
Hold(t, v)     == held' = [held EXCEPT ![t] = v]
Return(t, v)   == result' = [result EXCEPT ![t] = v]

At(t, op, label) == call[t].op = op /\ pc[t] = label

\* A thread calls an operation of the queue; TSSwap of a queue with itself
\* returns before it locks anything.
Call(t, c, v) ==
    /\ pc[t] = "idle"
    /\ calls[t] < MaxCalls[t]
    /\ c \in Calls[t]
    /\ calls' = [calls EXCEPT ![t] = @ + 1]
    /\ call' = [call EXCEPT ![t] = c]
    /\ Hold(t, IF c.op = "Push" THEN v ELSE Nullopt)
    /\ Goto(t, IF c.other = c.q THEN "idle" ELSE "lock")
    /\ UNCHANGED <<data, owner, waiting, tmp, result>>

\* lock_guard, unique_lock, and the first mutex of scoped_lock.
Lock(t) ==
    /\ pc[t] = "lock"
    /\ owner[call[t].q] = None
    /\ SetOwner(call[t].q, t)
    /\ Goto(t, IF call[t].op = "TSSwap" THEN "lockOther" ELSE "locked")
    /\ UNCHANGED <<data, waiting, call, held, tmp, result, calls>>

\* The mutex is released on return.
Unlock(t) ==
    /\ pc[t] = "unlock"
    /\ SetOwner(call[t].q, None)
    /\ Goto(t, "idle")
    /\ UNCHANGED <<data, waiting, call, held, tmp, result, calls>>

-----------------------------------------------------------------------------

PushValue(t) ==
    /\ At(t, "Push", "locked")
    /\ SetData(call[t].q, Append(data[call[t].q], held[t]))
    /\ Goto(t, "notify")
    /\ UNCHANGED <<owner, waiting, call, held, tmp, result, calls>>

\* Mutant of Notify: Push does not notify.
NotifyForgotten(t) ==
    /\ At(t, "Push", "notify")
    /\ Goto(t, "unlock")
    /\ UNCHANGED <<data, owner, waiting, call, held, tmp, result, calls>>

\* notify_one wakes some waiting thread, if there is one.  It then has to lock
\* the mutex again.
Notify(t) ==
    /\ At(t, "Push", "notify")
    /\ \/ /\ waiting[call[t].q] = {}
          /\ Goto(t, "unlock")
          /\ UNCHANGED waiting
       \/ \E w \in waiting[call[t].q] :
            /\ waiting' = [waiting EXCEPT ![call[t].q] = @ \ {w}]
            /\ pc' = [pc EXCEPT ![t] = "unlock", ![w] = "lock"]
    /\ UNCHANGED <<data, owner, call, held, tmp, result, calls>>

TryPopEmpty(t) ==
    /\ At(t, "TryPop", "locked")
    /\ data[call[t].q] = << >>
    /\ Return(t, Nullopt)
    /\ Goto(t, "unlock")
    /\ UNCHANGED <<data, owner, waiting, call, held, tmp, calls>>

\* The predicate of wait is false: the mutex is released and the thread blocks,
\* at once.
Wait(t) ==
    /\ At(t, "WaitAndPop", "locked")
    /\ data[call[t].q] = << >>
    /\ waiting' = [waiting EXCEPT ![call[t].q] = @ \cup {t}]
    /\ SetOwner(call[t].q, None)
    /\ Goto(t, "waiting")
    /\ UNCHANGED <<data, call, held, tmp, result, calls>>

\* A condition variable may wake a thread that nobody notified.
SpuriousWakeup(t) ==
    /\ pc[t] = "waiting"
    /\ waiting' = [waiting EXCEPT ![call[t].q] = @ \ {t}]
    /\ Goto(t, "lock")
    /\ UNCHANGED <<data, owner, call, held, tmp, result, calls>>

\* The value is moved out of the front, in TryPop and in WaitAndPop.
MoveFront(t) ==
    /\ At(t, "TryPop", "locked") \/ At(t, "WaitAndPop", "locked")
    /\ data[call[t].q] # << >>
    /\ Hold(t, Head(data[call[t].q]))
    /\ SetData(call[t].q, [data[call[t].q] EXCEPT ![1] = Moved])
    /\ Goto(t, "pop")
    /\ UNCHANGED <<owner, waiting, call, tmp, result, calls>>

\* Mutant of Pop: what is returned is read from the queue after the move.
PopMoved(t) ==
    /\ pc[t] = "pop"
    /\ SetData(call[t].q, Tail(data[call[t].q]))
    /\ Return(t, Head(data[call[t].q]))
    /\ Goto(t, "unlock")
    /\ UNCHANGED <<owner, waiting, call, held, tmp, calls>>

Pop(t) ==
    /\ pc[t] = "pop"
    /\ SetData(call[t].q, Tail(data[call[t].q]))
    /\ Return(t, held[t])
    /\ Goto(t, "unlock")
    /\ UNCHANGED <<owner, waiting, call, held, tmp, calls>>

Empty(t) ==
    /\ At(t, "Empty", "locked")
    /\ Return(t, IF data[call[t].q] = << >> THEN 1 ELSE 0)
    /\ Goto(t, "unlock")
    /\ UNCHANGED <<data, owner, waiting, call, held, tmp, calls>>

Size(t) ==
    /\ At(t, "Size", "locked")
    /\ Return(t, Len(data[call[t].q]))
    /\ Goto(t, "unlock")
    /\ UNCHANGED <<data, owner, waiting, call, held, tmp, calls>>

-----------------------------------------------------------------------------
(* TSSwap.  scoped_lock locks one mutex and tries the other; when that     *)
(* fails it releases the first and starts again, so it cannot deadlock.    *)

\* Mutants of LockOther: the second queue is used without its mutex; its mutex
\* is waited for while the first is held; the first is still held when the swap
\* starts again.
LockOtherForgotten(t) ==
    /\ pc[t] = "lockOther"
    /\ Goto(t, "swapTmp")
    /\ UNCHANGED <<data, owner, waiting, call, held, tmp, result, calls>>

LockOtherBlocking(t) ==
    /\ pc[t] = "lockOther"
    /\ owner[call[t].other] = None
    /\ SetOwner(call[t].other, t)
    /\ Goto(t, "swapTmp")
    /\ UNCHANGED <<data, waiting, call, held, tmp, result, calls>>

LockOtherKept(t) ==
    /\ pc[t] = "lockOther"
    /\ \/ /\ owner[call[t].other] = None
          /\ SetOwner(call[t].other, t)
          /\ Goto(t, "swapTmp")
       \/ /\ owner[call[t].other] # None
          /\ Goto(t, "lock")
          /\ UNCHANGED owner
    /\ UNCHANGED <<data, waiting, call, held, tmp, result, calls>>

LockOther(t) ==
    /\ pc[t] = "lockOther"
    /\ LET q == call[t].q
           r == call[t].other
       IN  \/ /\ owner[r] = None
              /\ SetOwner(r, t)
              /\ Goto(t, "swapTmp")
           \/ /\ owner[r] # None
              /\ SetOwner(q, None)
              /\ Goto(t, "lock")
    /\ UNCHANGED <<data, waiting, call, held, tmp, result, calls>>

SwapTmp(t) ==
    /\ pc[t] = "swapTmp"
    /\ tmp' = [tmp EXCEPT ![t] = data[call[t].q]]
    /\ SetData(call[t].q, << >>)
    /\ Goto(t, "swapLhs")
    /\ UNCHANGED <<owner, waiting, call, held, result, calls>>

SwapLhs(t) ==
    /\ pc[t] = "swapLhs"
    /\ data' = [data EXCEPT ![call[t].q] = data[call[t].other],
                            ![call[t].other] = << >>]
    /\ Goto(t, "swapRhs")
    /\ UNCHANGED <<owner, waiting, call, held, tmp, result, calls>>

SwapRhs(t) ==
    /\ pc[t] = "swapRhs"
    /\ SetData(call[t].other, tmp[t])
    /\ tmp' = [tmp EXCEPT ![t] = << >>]
    /\ Goto(t, "unlockOther")
    /\ UNCHANGED <<owner, waiting, call, held, result, calls>>

UnlockOther(t) ==
    /\ pc[t] = "unlockOther"
    /\ SetOwner(call[t].other, None)
    /\ Goto(t, "unlock")
    /\ UNCHANGED <<data, waiting, call, held, tmp, result, calls>>

-----------------------------------------------------------------------------

\* The steps a thread goes on with by itself once it has called an operation.
Step(t) ==
    \/ Lock(t) \/ Unlock(t)
    \/ PushValue(t) \/ Notify(t)
    \/ TryPopEmpty(t) \/ Wait(t) \/ MoveFront(t) \/ Pop(t)
    \/ Empty(t) \/ Size(t)
    \/ LockOther(t) \/ SwapTmp(t) \/ SwapLhs(t) \/ SwapRhs(t) \/ UnlockOther(t)

Next ==
    \/ \E t \in Threads : Step(t) \/ SpuriousWakeup(t)
    \/ \E t \in Threads, v \in Values : \E c \in Calls[t] : Call(t, c, v)

Spec == Init /\ [][Next]_vars

\* A thread that can go on does, and one that finds its mutex free again and
\* again gets it in the end, however often sleeping threads wake up spuriously.
FairSpec ==
    /\ Spec
    /\ \A t \in Threads : WF_vars(Step(t)) /\ SF_vars(Lock(t))

-----------------------------------------------------------------------------
(* Properties.                                                             *)

Labels == {"idle", "lock", "locked", "unlock", "notify", "waiting", "pop",
           "lockOther", "swapTmp", "swapLhs", "swapRhs", "unlockOther"}

\* Every variable has its type.
TypeOK ==
    /\ data \in [Queues -> Seq(Values \cup {Moved})]
    /\ owner \in [Queues -> Threads \cup {None}]
    /\ waiting \in [Queues -> SUBSET Threads]
    /\ pc \in [Threads -> Labels]
    /\ call \in [Threads -> Operations \cup {NoCall}]
    /\ held \in [Threads -> Values \cup {Nullopt}]
    /\ tmp \in [Threads -> Seq(Values)]
    /\ result \in [Threads -> Values \cup {Nullopt} \cup Nat]
    /\ calls \in [Threads -> Nat]
    /\ \A t \in Threads : calls[t] <= MaxCalls[t]

\* The contents of queue q as the other threads will find them once the lock
\* is free: a value moved out is still there until pop(), and a half done swap
\* has not happened.
Contents(q) ==
    LET t == owner[q]
    IN  IF t = None THEN data[q]
        ELSE IF pc[t] = "pop" THEN [data[q] EXCEPT ![1] = held[t]]
        ELSE IF pc[t] \in {"swapLhs", "swapRhs"} /\ call[t].q = q THEN tmp[t]
        ELSE IF pc[t] = "swapRhs" THEN data[call[t].q]
        ELSE data[q]

\* The labels a call passes before it takes effect.
Pending == {"lock", "locked", "waiting", "pop", "lockOther", "swapTmp",
            "swapLhs", "swapRhs"}

Abstract == INSTANCE FifoQueues WITH
                queue <- [q \in Queues |-> Contents(q)],
                todo  <- [t \in Threads |-> pc[t] \in Pending]

\* TSQueue is linearizable: each operation takes effect once, at one instant
\* between its lock and its unlock; pops come in the order of the pushes, and a
\* swap loses and duplicates nothing (ts_queue.hpp:38-89).
ImplementsFifoQueues == Abstract!Spec

\* The threads on their way to take a value of queue q: awake in WaitAndPop, or
\* pushing and about to notify.
OnTheWay(q) ==
    {t \in Threads :
       /\ call[t].q = q
       /\ \/ call[t].op = "WaitAndPop" /\ pc[t] \in {"lock", "locked", "pop"}
          \/ At(t, "Push", "notify")}

\* No wake-up is lost: while a thread sleeps in WaitAndPop on a queue that has
\* values, there are as many threads on their way to take them.  It rests on
\* notify_one under the lock (ts_queue.hpp:74) and on no thread swapping a queue
\* that another waits on, because TSSwap notifies nobody.
NoLostWakeup ==
    \A q \in Queues :
        waiting[q] # {} => Len(data[q]) <= Cardinality(OnTheWay(q))

\* A thread that sleeps on a queue that has values returns with one, or others
\* empty the queue before it: it does not sleep on beside the values.
WaiterServed ==
    \A t \in Threads :
        (pc[t] = "waiting" /\ data[call[t].q] # << >>) ~>
            (pc[t] = "idle" \/ data[call[t].q] = << >>)

\* A thread in an operation and awake can go on, unless it is at a mutex that a
\* thread holds: nothing else in an operation blocks, not the second mutex of a
\* swap, which is only tried (ts_queue.hpp:38-89).
CanGo(t) ==
    /\ pc[t] \notin {"idle", "waiting"}
    /\ pc[t] = "lock" => owner[call[t].q] = None

\* The threads that can take a step are those of CanGo, at every label and
\* whatever the queues hold: no step of an operation lacks a case, and none but
\* the first lock of an operation waits for another thread.
OnlyLockBlocks == \A t \in Threads : ENABLED Step(t) <=> CanGo(t)

\* However the threads lock the two mutexes of a swap, they never wait for each
\* other in a circle: while some thread is in an operation and not asleep, one
\* of them can go on (scoped_lock, ts_queue.hpp:42).
NoDeadlock ==
    (\E t \in Threads : pc[t] \notin {"idle", "waiting"}) =>
        \E t \in Threads : CanGo(t)
=============================================================================
