---------------------------- MODULE TSQueueProofs ----------------------------
(***************************************************************************)
(* Proofs about TSQueue, for every set of threads, queues and values and   *)
(* every program of calls: who holds which mutex where, that no wake-up is *)
(* lost, and that the queues implement FifoQueues.                         *)
(***************************************************************************)
EXTENDS TSQueue, SequenceTheorems, FiniteSetTheorems, TLAPS

-----------------------------------------------------------------------------
(* The inductive invariant.                                                *)

\* The labels at which a thread has the mutex of its queue, and those at which
\* TSSwap has the other one too.
InQueue == {"locked", "unlock", "notify", "pop", "lockOther", "swapTmp",
            "swapLhs", "swapRhs", "unlockOther"}
InOther == {"swapTmp", "swapLhs", "swapRhs", "unlockOther"}

\* A thread that is in an operation performs one of its program, and its label
\* is one of that operation's.
Running ==
    \A t \in Threads :
        /\ call[t] \in Calls[t] \cup {NoCall}
        /\ pc[t] # "idle" => call[t] \in Calls[t] /\ call[t].other # call[t].q
        /\ pc[t] = "locked" => call[t].op # "TSSwap"
        /\ pc[t] = "notify" => call[t].op = "Push"
        /\ pc[t] = "waiting" => call[t].op = "WaitAndPop"
        /\ pc[t] = "pop" => call[t].op \in {"TryPop", "WaitAndPop"}
        /\ pc[t] \in InOther \cup {"lockOther"} => call[t].op = "TSSwap"

\* The label says which mutexes a thread has, and a mutex is held by nobody else.
Locking ==
    /\ \A t \in Threads : pc[t] \in InQueue => owner[call[t].q] = t
    /\ \A t \in Threads : pc[t] \in InOther => owner[call[t].other] = t
    /\ \A q \in Queues : owner[q] # None =>
          \/ pc[owner[q]] \in InQueue /\ call[owner[q]].q = q
          \/ pc[owner[q]] \in InOther /\ call[owner[q]].other = q

\* The threads a condition variable knows are those asleep in its wait.
Sleeping ==
    \A q \in Queues, t \in Threads :
        t \in waiting[q] <=> pc[t] = "waiting" /\ call[t].q = q

\* Only between the move and pop() does a queue have a moved-out front.
Moving ==
    /\ \A t \in Threads : pc[t] = "pop" =>
          /\ held[t] \in Values
          /\ data[call[t].q] # << >>
          /\ Tail(data[call[t].q]) \in Seq(Values)
    /\ \A q \in Queues :
          owner[q] = None \/ pc[owner[q]] # "pop" => data[q] \in Seq(Values)
    /\ \A t \in Threads : call[t].op = "Push" => held[t] \in Values

Inv == TypeOK /\ Running /\ Locking /\ Sleeping /\ Moving

-----------------------------------------------------------------------------
(* Facts about the calls.                                                  *)

\* Each operation has its queue, and TSSwap has another.
LEMMA OperationShape ==
    \A c \in Operations :
        /\ c.q \in Queues
        /\ c.op = "TSSwap" => c.other \in Queues
        /\ c.op # "TSSwap" => c.other = None
        /\ c.op \in {"Push", "TryPop", "WaitAndPop", "Empty", "Size", "TSSwap"}
  BY DEF Operations

\* What a thread in an operation works on.
LEMMA InOperation ==
    ASSUME Inv, NEW t \in Threads, pc[t] # "idle"
    PROVE  /\ call[t] \in Calls[t] /\ call[t] \in Operations
           /\ call[t].q \in Queues
           /\ call[t].other # call[t].q
           /\ call[t].op = "TSSwap" => call[t].other \in Queues
           /\ call[t].op # "TSSwap" => call[t].other = None
<1>1. call[t] \in Calls[t] /\ call[t].other # call[t].q
  BY DEF Inv, Running
<1>2. call[t] \in Operations
  BY <1>1, TSQueueAssumption
<1> QED
  BY <1>1, <1>2, OperationShape

\* The initial state satisfies the invariant.
LEMMA InvInit == Init => Inv
<1> SUFFICES ASSUME Init PROVE Inv
  OBVIOUS
<1> USE TSQueueAssumption
<1>1. TypeOK
  BY DEF Init, TypeOK, Labels
<1>2. Running
  BY DEF Init, Running, InOther
<1>3. Locking
  BY DEF Init, Locking, InQueue, InOther
<1>4. Sleeping
  BY DEF Init, Sleeping
<1>5. Moving
  BY DEF Init, Moving, NoCall
<1> QED
  BY <1>1, <1>2, <1>3, <1>4, <1>5 DEF Inv

-----------------------------------------------------------------------------
(* The control of the threads: each step leads to a label of the same      *)
(* operation, with the mutexes the label stands for.                       *)

\* A thread takes the steps of its own operation only.
LEMMA RunningNext == Inv /\ [Next]_vars => Running'
<1> SUFFICES ASSUME Inv, [Next]_vars PROVE Running'
  OBVIOUS
<1>t. TypeOK /\ Running /\ Sleeping
  BY DEF Inv
<1> USE <1>t DEF TypeOK, Running, InOther, Goto, At
<1>1. ASSUME NEW t \in Threads, NEW c \in Calls[t], NEW v, Call(t, c, v)
      PROVE  Running'
  BY <1>1, TSQueueAssumption DEF Call
<1>2. ASSUME NEW t \in Threads, Notify(t)
      PROVE  Running'
  <2>1. CASE waiting[call[t].q] = {}
    BY <1>2, <2>1 DEF Notify
  <2>2. ASSUME NEW w \in waiting[call[t].q],
               pc' = [pc EXCEPT ![t] = "unlock", ![w] = "lock"]
        PROVE  Running'
    <3>1. call[t].q \in Queues
      BY <1>2, InOperation DEF Notify
    <3>2. w \in Threads /\ pc[w] = "waiting"
      BY <2>2, <3>1 DEF Sleeping
    <3> QED
      BY <1>2, <2>2, <3>2 DEF Notify
  <2> QED
    BY <1>2, <2>1, <2>2 DEF Notify
<1>3. ASSUME NEW t \in Threads,
             Lock(t) \/ Unlock(t) \/ PushValue(t) \/ TryPopEmpty(t) \/ Wait(t)
      PROVE  Running'
  BY <1>3 DEF Lock, Unlock, PushValue, TryPopEmpty, Wait
<1>4. ASSUME NEW t \in Threads,
             \/ SpuriousWakeup(t) \/ MoveFront(t) \/ Pop(t) \/ Empty(t)
             \/ Size(t)
      PROVE  Running'
  BY <1>4 DEF SpuriousWakeup, MoveFront, Pop, Empty, Size
<1>5. ASSUME NEW t \in Threads,
             \/ LockOther(t) \/ SwapTmp(t) \/ SwapLhs(t) \/ SwapRhs(t)
             \/ UnlockOther(t)
      PROVE  Running'
  BY <1>5 DEF LockOther, SwapTmp, SwapLhs, SwapRhs, UnlockOther
<1>6. CASE UNCHANGED vars
  BY <1>6 DEF vars
<1> QED
  BY <1>1, <1>2, <1>3, <1>4, <1>5, <1>6 DEF Next, Step

\* A thread leaves the wait of a condition variable with the set of its sleepers.
LEMMA SleepingNext == Inv /\ [Next]_vars => Sleeping'
<1> SUFFICES ASSUME Inv, [Next]_vars PROVE Sleeping'
  OBVIOUS
<1>t. TypeOK /\ Sleeping
  BY DEF Inv
<1> USE <1>t DEF TypeOK, Sleeping, Goto, At
<1>1. ASSUME NEW t \in Threads, NEW c \in Calls[t], NEW v, Call(t, c, v)
      PROVE  Sleeping'
  BY <1>1 DEF Call
<1>2. ASSUME NEW t \in Threads, Notify(t)
      PROVE  Sleeping'
  <2>1. CASE waiting[call[t].q] = {} /\ waiting' = waiting
    BY <1>2, <2>1 DEF Notify
  <2>2. ASSUME NEW w \in waiting[call[t].q],
               waiting' = [waiting EXCEPT ![call[t].q] = @ \ {w}],
               pc' = [pc EXCEPT ![t] = "unlock", ![w] = "lock"]
        PROVE  Sleeping'
    <3>1. call[t].q \in Queues
      BY <1>2, InOperation DEF Notify
    <3>2. w \in Threads /\ pc[w] = "waiting" /\ call[w].q = call[t].q
      BY <2>2, <3>1
    <3> QED
      BY <1>2, <2>2, <3>1, <3>2 DEF Notify
  <2> QED
    BY <1>2, <2>1, <2>2 DEF Notify
<1>3. ASSUME NEW t \in Threads, Wait(t) \/ SpuriousWakeup(t)
      PROVE  Sleeping'
  <2>1. call[t].q \in Queues
    BY <1>3, InOperation DEF Wait, SpuriousWakeup
  <2>2. CASE Wait(t)
    BY <2>1, <2>2 DEF Wait
  <2>3. CASE SpuriousWakeup(t)
    BY <2>1, <2>3 DEF SpuriousWakeup
  <2> QED
    BY <1>3, <2>2, <2>3
<1>4. ASSUME NEW t \in Threads,
             \/ Lock(t) \/ Unlock(t) \/ PushValue(t) \/ TryPopEmpty(t)
             \/ MoveFront(t) \/ Pop(t) \/ Empty(t) \/ Size(t)
      PROVE  Sleeping'
  BY <1>4
  DEF Lock, Unlock, PushValue, TryPopEmpty, MoveFront, Pop, Empty, Size
<1>5. ASSUME NEW t \in Threads,
             \/ LockOther(t) \/ SwapTmp(t) \/ SwapLhs(t) \/ SwapRhs(t)
             \/ UnlockOther(t)
      PROVE  Sleeping'
  BY <1>5 DEF LockOther, SwapTmp, SwapLhs, SwapRhs, UnlockOther
<1>6. CASE UNCHANGED vars
  BY <1>6 DEF vars
<1> QED
  BY <1>1, <1>2, <1>3, <1>4, <1>5, <1>6 DEF Next, Step

\* What one thread does with one mutex that is free or its own does not concern
\* the others.
LEMMA LockFrame ==
    ASSUME Locking, NEW t \in Threads, NEW q \in Queues,
           call' = call,
           \A u \in Threads : call[u].q \in Queues \/ pc[u] \notin InQueue,
           \A u \in Threads : call[u].other \in Queues \/ pc[u] \notin InOther,
           \A u \in Threads \ {t} : pc'[u] = pc[u],
           \A r \in Queues \ {q} : owner'[r] = owner[r],
           \A r \in Queues : owner'[r] \in Threads \cup {None},
           owner[q] \in {t, None}, owner'[q] \in {t, None},
           pc'[t] \in InQueue => owner'[call[t].q] = t,
           pc'[t] \in InOther => owner'[call[t].other] = t,
           \A r \in Queues : owner'[r] = t =>
              \/ pc'[t] \in InQueue /\ call[t].q = r
              \/ pc'[t] \in InOther /\ call[t].other = r
    PROVE  Locking'
<1>1. None \notin Threads
  BY TSQueueAssumption
<1>2. ASSUME NEW u \in Threads, pc'[u] \in InQueue
      PROVE  owner'[call'[u].q] = u
  BY <1>1, <1>2 DEF Locking
<1>3. ASSUME NEW u \in Threads, pc'[u] \in InOther
      PROVE  owner'[call'[u].other] = u
  BY <1>1, <1>3 DEF Locking
<1>4. ASSUME NEW r \in Queues, owner'[r] # None
      PROVE  \/ pc'[owner'[r]] \in InQueue /\ call'[owner'[r]].q = r
             \/ pc'[owner'[r]] \in InOther /\ call'[owner'[r]].other = r
  <2>1. CASE owner'[r] = t
    BY <2>1
  <2>2. CASE owner'[r] # t
    <3>1. owner'[r] = owner[r] /\ owner'[r] \in Threads \ {t}
      BY <1>4, <2>2
    <3> QED
      BY <1>4, <3>1 DEF Locking
  <2> QED
    BY <2>1, <2>2
<1> QED
  BY <1>2, <1>3, <1>4 DEF Locking

\* Mutual exclusion: a mutex is taken when it is free and given back by its
\* owner, with one label after the other.
LEMMA LockingNext == Inv /\ [Next]_vars => Locking'
<1> SUFFICES ASSUME Inv, [Next]_vars PROVE Locking'
  OBVIOUS
<1>t. TypeOK /\ Running /\ Locking
  BY DEF Inv
<1>n. None \notin Threads
  BY TSQueueAssumption
<1>q. \A u \in Threads :
        /\ call[u].q \in Queues \/ pc[u] \notin InQueue
        /\ call[u].other \in Queues \/ pc[u] \notin InOther
  BY <1>t, InOperation DEF Running, InOther, InQueue
\* Steps that keep every mutex where it is.
<1>s. ASSUME NEW t \in Threads, NEW label \in Labels,
             pc' = [pc EXCEPT ![t] = label], UNCHANGED <<owner, call>>,
             pc[t] \in InQueue <=> label \in InQueue,
             pc[t] \in InOther <=> label \in InOther
      PROVE  Locking'
  BY <1>s, <1>t DEF TypeOK, Locking
\* The mutexes a thread owns.
<1>o. ASSUME NEW t \in Threads, NEW r \in Queues, owner[r] = t
      PROVE  \/ pc[t] \in InQueue /\ call[t].q = r
             \/ pc[t] \in InOther /\ call[t].other = r
  BY <1>o, <1>t, <1>n DEF Locking
<1>f. owner \in [Queues -> Threads \cup {None}] /\ pc \in [Threads -> Labels]
  BY <1>t DEF TypeOK
<1> USE DEF Labels, InQueue, InOther
<1>1. ASSUME NEW t \in Threads, NEW c \in Calls[t], NEW v, Call(t, c, v)
      PROVE  Locking'
  BY <1>1, <1>t, <1>n DEF Call, Locking, TypeOK, Goto
<1>2. ASSUME NEW t \in Threads, Notify(t)
      PROVE  Locking'
  <2>1. CASE waiting[call[t].q] = {}
    BY <1>2, <2>1, <1>s DEF Notify, Goto, At
  <2>2. ASSUME NEW w \in waiting[call[t].q],
               pc' = [pc EXCEPT ![t] = "unlock", ![w] = "lock"]
        PROVE  Locking'
    <3>1. call[t].q \in Queues
      BY <1>2, InOperation DEF Notify, At
    <3>2. w \in Threads /\ pc[w] = "waiting" /\ pc[t] = "notify"
      BY <1>2, <2>2, <3>1 DEF Inv, TypeOK, Sleeping, Notify, At
    <3>3. \A u \in Threads : /\ pc'[u] \in InQueue <=> pc[u] \in InQueue
                             /\ pc'[u] \in InOther <=> pc[u] \in InOther
      BY <1>t, <2>2, <3>2 DEF TypeOK
    <3>4. UNCHANGED <<owner, call>>
      BY <1>2 DEF Notify
    <3>5. \A q \in Queues : owner[q] \in Threads \cup {None}
      BY <1>t DEF TypeOK
    <3> HIDE DEF InQueue, InOther
    <3> QED
      BY <3>3, <3>4, <3>5, <1>t DEF Locking
  <2> QED
    BY <1>2, <2>1, <2>2 DEF Notify
<1>3. ASSUME NEW t \in Threads, Lock(t)
      PROVE  Locking'
  <2>1. /\ pc[t] = "lock" /\ call[t].q \in Queues
        /\ call[t].other # call[t].q
    BY <1>3, InOperation DEF Lock
  <2>2. \A r \in Queues : owner[r] # t
    BY <2>1, <1>o
  <2>3. /\ pc'[t] \in {"lockOther", "locked"}
        /\ \A u \in Threads \ {t} : pc'[u] = pc[u]
        /\ owner[call[t].q] = None /\ owner'[call[t].q] = t
        /\ \A r \in Queues \ {call[t].q} : owner'[r] = owner[r]
        /\ call' = call
    BY <1>3, <1>f, <2>1 DEF Lock, Goto, SetOwner
  <2> QED
    BY <1>t, <1>q, <1>f, <2>1, <2>2, <2>3, LockFrame
<1>4. ASSUME NEW t \in Threads, Unlock(t) \/ Wait(t)
      PROVE  Locking'
  <2>1. /\ pc[t] \in {"unlock", "locked"} /\ call[t].q \in Queues
        /\ owner[call[t].q] = t
    BY <1>4, <1>t, InOperation DEF Unlock, Wait, Locking, At
  <2>2. \A r \in Queues : owner[r] = t => r = call[t].q
    BY <2>1, <1>o
  <2>3. /\ pc'[t] \in {"idle", "waiting"}
        /\ \A u \in Threads \ {t} : pc'[u] = pc[u]
        /\ owner'[call[t].q] = None
        /\ \A r \in Queues \ {call[t].q} : owner'[r] = owner[r]
        /\ call' = call
    BY <1>4, <1>f, <2>1 DEF Unlock, Wait, Goto, SetOwner
  <2> QED
    BY <1>t, <1>q, <1>f, <1>n, <2>1, <2>2, <2>3, LockFrame
<1>5. ASSUME NEW t \in Threads,
             \/ PushValue(t) \/ TryPopEmpty(t) \/ SpuriousWakeup(t)
             \/ MoveFront(t) \/ Pop(t) \/ Empty(t) \/ Size(t)
      PROVE  Locking'
  BY <1>5, <1>s
  DEF PushValue, TryPopEmpty, SpuriousWakeup, MoveFront, Pop, Empty, Size,
      Goto, At
<1>6. ASSUME NEW t \in Threads, SwapTmp(t) \/ SwapLhs(t) \/ SwapRhs(t)
      PROVE  Locking'
  BY <1>6, <1>s DEF SwapTmp, SwapLhs, SwapRhs, Goto
<1>7. ASSUME NEW t \in Threads, LockOther(t)
      PROVE  Locking'
  <2>1. /\ pc[t] = "lockOther"
        /\ call[t].q \in Queues /\ call[t].other \in Queues
        /\ call[t].other # call[t].q
        /\ owner[call[t].q] = t
    BY <1>7, <1>t, InOperation DEF LockOther, Running, Locking
  <2>2. \A r \in Queues : owner[r] = t => r = call[t].q
    BY <2>1, <1>o
  <2>3. CASE owner[call[t].other] = None
    <3>1. /\ pc'[t] = "swapTmp"
          /\ \A u \in Threads \ {t} : pc'[u] = pc[u]
          /\ owner'[call[t].other] = t
          /\ \A r \in Queues \ {call[t].other} : owner'[r] = owner[r]
          /\ call' = call
      BY <1>7, <1>f, <2>1, <2>3 DEF LockOther, Goto, SetOwner
    <3> QED
      BY <1>t, <1>q, <1>f, <2>1, <2>2, <2>3, <3>1, LockFrame
  <2>4. CASE owner[call[t].other] # None
    <3>1. /\ pc'[t] = "lock"
          /\ \A u \in Threads \ {t} : pc'[u] = pc[u]
          /\ owner'[call[t].q] = None
          /\ \A r \in Queues \ {call[t].q} : owner'[r] = owner[r]
          /\ call' = call
      BY <1>7, <1>f, <2>1, <2>4 DEF LockOther, Goto, SetOwner
    <3> QED
      BY <1>t, <1>q, <1>f, <1>n, <2>1, <2>2, <3>1, LockFrame
  <2> QED
    BY <2>3, <2>4
<1>8. ASSUME NEW t \in Threads, UnlockOther(t)
      PROVE  Locking'
  <2>1. /\ pc[t] = "unlockOther"
        /\ call[t].q \in Queues /\ call[t].other \in Queues
        /\ call[t].other # call[t].q
        /\ owner[call[t].q] = t /\ owner[call[t].other] = t
    BY <1>8, <1>t, InOperation DEF UnlockOther, Running, Locking
  <2>2. \A r \in Queues : owner[r] = t => r \in {call[t].q, call[t].other}
    BY <2>1, <1>o
  <2>3. /\ pc'[t] = "unlock"
        /\ \A u \in Threads \ {t} : pc'[u] = pc[u]
        /\ owner'[call[t].other] = None
        /\ \A r \in Queues \ {call[t].other} : owner'[r] = owner[r]
        /\ call' = call
    BY <1>8, <1>f, <2>1 DEF UnlockOther, Goto, SetOwner
  <2> QED
    BY <1>t, <1>q, <1>f, <1>n, <2>1, <2>2, <2>3, LockFrame
<1>9. CASE UNCHANGED vars
  BY <1>9, <1>t DEF vars, Locking
<1> QED
  BY <1>1, <1>2, <1>3, <1>4, <1>5, <1>6, <1>7, <1>8, <1>9 DEF Next, Step

-----------------------------------------------------------------------------
(* The data of the queues.                                                 *)

\* A queue whose owner is not between the move and pop() has whole values.
LEMMA WholeData ==
    ASSUME Inv, NEW t \in Threads, NEW q \in Queues, owner[q] = t, pc[t] # "pop"
    PROVE  data[q] \in Seq(Values)
  BY DEF Inv, Moving

\* Every step keeps every variable in its type.
LEMMA TypeOKNext == Inv /\ [Next]_vars => TypeOK'
<1> SUFFICES ASSUME Inv, [Next]_vars PROVE TypeOK'
  OBVIOUS
<1>t. TypeOK /\ Running /\ Locking /\ Moving
  BY DEF Inv
<1>q. ASSUME NEW t \in Threads, pc[t] \in InQueue
      PROVE  call[t].q \in Queues /\ owner[call[t].q] = t
  BY <1>q, <1>t, InOperation DEF Locking, InQueue
<1> USE <1>t DEF TypeOK, Labels, Goto, SetOwner, SetData, Hold, Return, At
<1>1. ASSUME NEW t \in Threads, NEW v \in Values, NEW c \in Calls[t],
             Call(t, c, v)
      PROVE  TypeOK'
  <2>1. call' \in [Threads -> Operations \cup {NoCall}]
    BY <1>1, TSQueueAssumption DEF Call
  <2>2. calls' \in [Threads -> Nat]
    BY <1>1 DEF Call
  <2>3. \A u \in Threads : calls'[u] <= MaxCalls[u]
    <3>1. /\ calls[t] < MaxCalls[t] /\ calls'[t] = calls[t] + 1
          /\ \A u \in Threads \ {t} : calls'[u] = calls[u]
      BY <1>1 DEF Call
    <3>2. calls[t] \in Nat /\ MaxCalls[t] \in Nat
      BY TSQueueAssumption
    <3>3. calls'[t] <= MaxCalls[t]
      <4> HIDE <1>t DEF TypeOK
      <4> QED
        BY <3>1, <3>2
    <3>4. \A u \in Threads \ {t} : calls'[u] <= MaxCalls[u]
      BY <3>1
    <3> QED
      BY <3>3, <3>4
  <2>4. held' \in [Threads -> Values \cup {Nullopt}]
    BY <1>1 DEF Call
  <2>5. pc' \in [Threads -> Labels]
    BY <1>1 DEF Call
  <2> QED
    BY <1>1, <2>1, <2>2, <2>3, <2>4, <2>5 DEF Call
<1>2. ASSUME NEW t \in Threads,
             \/ Lock(t) \/ Unlock(t) \/ Wait(t) \/ LockOther(t)
             \/ UnlockOther(t)
      PROVE  TypeOK'
  <2> USE DEF Lock, Unlock, Wait, LockOther, UnlockOther
  <2>1. pc' \in [Threads -> Labels]
    BY <1>2
  <2>2. owner' \in [Queues -> Threads \cup {None}]
    BY <1>2
  <2>3. waiting' \in [Queues -> SUBSET Threads]
    <3>1. CASE UNCHANGED waiting
      BY <3>1
    <3>2. CASE waiting' = [waiting EXCEPT ![call[t].q] = @ \cup {t}]
      BY <3>2
    <3> QED
      BY <1>2, <3>1, <3>2
  <2>4. UNCHANGED <<data, call, held, tmp, result, calls>>
    BY <1>2
  <2> QED
    BY <2>1, <2>2, <2>3, <2>4
<1>4. ASSUME NEW t \in Threads, Notify(t) \/ SpuriousWakeup(t)
      PROVE  TypeOK'
  <2> USE DEF Notify, SpuriousWakeup
  <2>1. pc' \in [Threads -> Labels]
    BY <1>4
  <2>2. waiting' \in [Queues -> SUBSET Threads]
    BY <1>4
  <2>3. UNCHANGED <<data, owner, call, held, tmp, result, calls>>
    BY <1>4
  <2> QED
    BY <2>1, <2>2, <2>3
<1>5. ASSUME NEW t \in Threads, TryPopEmpty(t) \/ Empty(t) \/ Size(t)
      PROVE  TypeOK'
  <2>1. call[t].q \in Queues
    BY <1>5, <1>q DEF TryPopEmpty, Empty, Size, InQueue
  <2>2. Len(data[call[t].q]) \in Nat
    BY <2>1
  <2>3. result' \in [Threads -> Values \cup {Nullopt} \cup Nat]
    <3>1. PICK v \in {Nullopt, 0, 1, Len(data[call[t].q])} :
             result' = [result EXCEPT ![t] = v]
      BY <1>5 DEF TryPopEmpty, Empty, Size
    <3>2. v \in Values \cup {Nullopt} \cup Nat
      BY <3>1, <2>2
    <3> QED
      BY <3>1, <3>2
  <2>4. pc' \in [Threads -> Labels]
    BY <1>5 DEF TryPopEmpty, Empty, Size
  <2>5. UNCHANGED <<data, owner, waiting, call, held, tmp, calls>>
    BY <1>5 DEF TryPopEmpty, Empty, Size
  <2> QED
    BY <2>3, <2>4, <2>5
<1>6. ASSUME NEW t \in Threads, PushValue(t)
      PROVE  TypeOK'
  <2>1. call[t].q \in Queues /\ held[t] \in Values
    BY <1>6, <1>q DEF PushValue, InQueue, Moving
  <2>2. Append(data[call[t].q], held[t]) \in Seq(Values \cup {Moved})
    BY <2>1
  <2> QED
    BY <1>6, <2>1, <2>2 DEF PushValue
<1>7. ASSUME NEW t \in Threads, MoveFront(t)
      PROVE  TypeOK'
  <2> DEFINE d == data[call[t].q]
  <2>1. call[t].q \in Queues /\ d # << >> /\ d \in Seq(Values)
    BY <1>7, <1>q, WholeData DEF MoveFront, InQueue
  <2>2. Head(d) \in Values /\ d \in Seq(Values \cup {Moved}) /\ 1 \in 1 .. Len(d)
    BY <2>1
  <2>3. [d EXCEPT ![1] = Moved] \in Seq(Values \cup {Moved})
    BY <2>2, ExceptSeq
  <2> QED
    BY <1>7, <2>1, <2>2, <2>3 DEF MoveFront
<1>8. ASSUME NEW t \in Threads, Pop(t)
      PROVE  TypeOK'
  <2>1. call[t].q \in Queues /\ data[call[t].q] # << >> /\ held[t] \in Values
    BY <1>8, <1>q DEF Pop, InQueue, Moving
  <2>2. Tail(data[call[t].q]) \in Seq(Values \cup {Moved})
    BY <2>1
  <2> QED
    BY <1>8, <2>1, <2>2 DEF Pop
<1>9. ASSUME NEW t \in Threads, SwapTmp(t)
      PROVE  TypeOK'
  <2>1. call[t].q \in Queues /\ data[call[t].q] \in Seq(Values)
    BY <1>9, <1>q, WholeData DEF SwapTmp, InQueue
  <2>2. tmp' \in [Threads -> Seq(Values)]
    BY <1>9, <2>1 DEF SwapTmp
  <2>3. data' \in [Queues -> Seq(Values \cup {Moved})]
    BY <1>9, <2>1 DEF SwapTmp
  <2> QED
    BY <1>9, <2>2, <2>3 DEF SwapTmp
<1>10. ASSUME NEW t \in Threads, SwapLhs(t)
       PROVE  TypeOK'
  <2>1. call[t].q \in Queues /\ call[t].other \in Queues
    BY <1>10, InOperation DEF SwapLhs, Running, InOther
  <2> DEFINE D == Seq(Values \cup {Moved})
  <2>2. data \in [Queues -> D] /\ << >> \in D
    OBVIOUS
  <2>3. data' = [data EXCEPT ![call[t].q] = data[call[t].other],
                             ![call[t].other] = << >>]
    BY <1>10 DEF SwapLhs
  <2>4. data' \in [Queues -> D]
    <3> HIDE <1>t DEF D
    <3> QED
      BY <2>1, <2>2, <2>3
  <2> QED
    BY <1>10, <2>4 DEF SwapLhs
<1>11. ASSUME NEW t \in Threads, SwapRhs(t)
       PROVE  TypeOK'
  <2>1. tmp[t] \in Seq(Values \cup {Moved})
    BY SeqMonotonic
  <2>2. data' \in [Queues -> Seq(Values \cup {Moved})]
    BY <1>11, <2>1 DEF SwapRhs
  <2>3. tmp' \in [Threads -> Seq(Values)]
    BY <1>11 DEF SwapRhs
  <2> QED
    BY <1>11, <2>2, <2>3 DEF SwapRhs
<1>12. CASE UNCHANGED vars
  BY <1>12 DEF vars
<1> QED
  BY <1>1, <1>2, <1>4, <1>5, <1>6, <1>7, <1>8, <1>9, <1>10, <1>11,
     <1>12
  DEF Next, Step

\* What one thread does to the queues it has locked does not concern the others.
LEMMA MovingFrame ==
    ASSUME Locking, Moving, NEW t \in Threads,
           \A u \in Threads \ {t} :
              /\ pc'[u] = "pop" <=> pc[u] = "pop"
              /\ call'[u] = call[u] /\ held'[u] = held[u],
           \A r \in Queues : owner[r] \in Threads \cup {None},
           \A r \in Queues : owner[r] # t => data'[r] = data[r],
           \A r \in Queues : owner[r] # t /\ owner'[r] # t =>
                                owner'[r] = owner[r],
           \A u \in Threads : pc[u] = "pop" => call[u].q \in Queues,
           pc'[t] = "pop" => /\ held'[t] \in Values
                             /\ data'[call'[t].q] # << >>
                             /\ Tail(data'[call'[t].q]) \in Seq(Values),
           \A r \in Queues : t \in {owner[r], owner'[r]} =>
              \/ owner'[r] = t /\ pc'[t] = "pop"
              \/ data'[r] \in Seq(Values),
           call'[t].op = "Push" => held'[t] \in Values
    PROVE  Moving'
<1>1. ASSUME NEW u \in Threads, pc'[u] = "pop"
      PROVE  /\ held'[u] \in Values
             /\ data'[call'[u].q] # << >>
             /\ Tail(data'[call'[u].q]) \in Seq(Values)
  <2>1. CASE u = t
    BY <1>1, <2>1
  <2>2. CASE u # t
    <3>1. pc[u] = "pop" /\ call'[u] = call[u] /\ held'[u] = held[u]
      BY <1>1, <2>2
    <3>2. call[u].q \in Queues /\ owner[call[u].q] = u
      BY <3>1 DEF Locking, InQueue
    <3>3. data'[call[u].q] = data[call[u].q]
      BY <2>2, <3>2
    <3> QED
      BY <3>1, <3>3 DEF Moving
  <2> QED
    BY <2>1, <2>2
<1>2. ASSUME NEW r \in Queues, owner'[r] = None \/ pc'[owner'[r]] # "pop"
      PROVE  data'[r] \in Seq(Values)
  <2>1. CASE t \in {owner[r], owner'[r]}
    BY <1>2, <2>1, TSQueueAssumption
  <2>2. CASE t \notin {owner[r], owner'[r]}
    <3>1. owner'[r] = owner[r] /\ data'[r] = data[r]
      BY <2>2
    <3>2. owner[r] = None \/ pc[owner[r]] # "pop"
      BY <1>2, <2>2, <3>1
    <3> QED
      BY <3>1, <3>2 DEF Moving
  <2> QED
    BY <2>1, <2>2
<1>3. ASSUME NEW u \in Threads, call'[u].op = "Push"
      PROVE  held'[u] \in Values
  BY <1>3 DEF Moving
<1> QED
  BY <1>1, <1>2, <1>3 DEF Moving

\* A thread locks a mutex that is free and unlocks its own.
LEMMA LockSteps ==
    ASSUME Inv, NEW t \in Threads, NEW r \in Queues, owner'[r] # owner[r],
           \/ Lock(t) \/ Unlock(t) \/ Wait(t) \/ LockOther(t)
           \/ UnlockOther(t)
    PROVE  /\ t \in {owner[r], owner'[r]}
           /\ owner[r] \in {t, None} /\ owner'[r] \in {t, None}
<1>1. owner \in [Queues -> Threads \cup {None}]
  BY DEF Inv, TypeOK
<1>2. pc[t] \in InQueue => owner[call[t].q] = t
  BY DEF Inv, Locking
<1>3. pc[t] \in InOther => owner[call[t].other] = t
  BY DEF Inv, Locking
<1> USE <1>1, <1>2, <1>3 DEF SetOwner, InQueue, InOther
<1>4. CASE Lock(t)
  BY <1>4 DEF Lock
<1>5. CASE Unlock(t) \/ Wait(t)
  BY <1>5 DEF Unlock, Wait, At
<1>6. CASE LockOther(t)
  BY <1>6 DEF LockOther
<1>7. CASE UnlockOther(t)
  BY <1>7 DEF UnlockOther
<1> QED
  BY <1>4, <1>5, <1>6, <1>7

\* Replacing the front of a sequence changes its first value and nothing else.
LEMMA FrontReplaced ==
    ASSUME NEW S, NEW d \in Seq(S), d # << >>, NEW v \in S
    PROVE  /\ [d EXCEPT ![1] = v] # << >>
           /\ Head([d EXCEPT ![1] = v]) = v
           /\ Tail([d EXCEPT ![1] = v]) = Tail(d)
           /\ [[d EXCEPT ![1] = v] EXCEPT ![1] = Head(d)] = d
<1> DEFINE m == [d EXCEPT ![1] = v]
<1>1. 1 \in 1 .. Len(d) /\ Len(d) \in Nat /\ Head(d) = d[1] /\ Head(d) \in S
  OBVIOUS
<1>2. m \in Seq(S) /\ Len(m) = Len(d)
  BY <1>1, ExceptSeq
<1>3. \A j \in 1 .. Len(d) : m[j] = IF j = 1 THEN v ELSE d[j]
  BY <1>1, ExceptSeq
<1>4. m # << >> /\ Head(m) = v
  <2> HIDE DEF m
  <2> QED
    BY <1>1, <1>2, <1>3
<1>5. Tail(m) = Tail(d)
  <2>1. /\ Tail(m) \in Seq(S) /\ Len(Tail(m)) = Len(m) - 1
        /\ \A i \in 1 .. Len(Tail(m)) : Tail(m)[i] = m[i + 1]
    BY <1>2, <1>4, HeadTailProperties
  <2>2. /\ Tail(d) \in Seq(S) /\ Len(Tail(d)) = Len(d) - 1
        /\ \A i \in 1 .. Len(Tail(d)) : Tail(d)[i] = d[i + 1]
    BY HeadTailProperties
  <2> HIDE DEF m
  <2>3. \A i \in 1 .. Len(Tail(m)) : Tail(m)[i] = Tail(d)[i]
    BY <1>1, <1>2, <1>3, <2>1, <2>2
  <2> QED
    BY <1>2, <2>1, <2>2, <2>3, SeqEqual
<1>6. [m EXCEPT ![1] = Head(d)] = d
  <2> HIDE DEF m
  <2>1. /\ [m EXCEPT ![1] = Head(d)] \in Seq(S)
        /\ Len([m EXCEPT ![1] = Head(d)]) = Len(m)
        /\ \A j \in 1 .. Len(m) :
              [m EXCEPT ![1] = Head(d)][j] = IF j = 1 THEN Head(d) ELSE m[j]
    BY <1>1, <1>2, ExceptSeq
  <2>2. \A j \in 1 .. Len(m) : [m EXCEPT ![1] = Head(d)][j] = d[j]
    BY <1>1, <1>2, <1>3, <2>1
  <2> QED
    BY <1>2, <2>1, <2>2, SeqEqual
<1> QED
  BY <1>4, <1>5, <1>6

\* A moved-out front is seen by nobody but the thread that has moved it.
LEMMA MovingNext == Inv /\ [Next]_vars => Moving'
<1> SUFFICES ASSUME Inv, [Next]_vars PROVE Moving'
  OBVIOUS
<1>t. TypeOK /\ Running /\ Locking /\ Moving
  BY DEF Inv
<1>n. None \notin Threads
  BY TSQueueAssumption
<1>f. /\ pc \in [Threads -> Labels]
      /\ owner \in [Queues -> Threads \cup {None}]
      /\ DOMAIN data = Queues /\ DOMAIN held = Threads /\ DOMAIN call = Threads
      /\ data = [q \in Queues |-> data[q]]
      /\ held = [u \in Threads |-> held[u]]
      /\ call = [u \in Threads |-> call[u]]
  BY <1>t DEF TypeOK
<1>q. ASSUME NEW t \in Threads, pc[t] \in InQueue
      PROVE  call[t].q \in Queues /\ owner[call[t].q] = t
  BY <1>q, <1>t, InOperation DEF Locking, InQueue
<1>p. \A u \in Threads : pc[u] = "pop" => call[u].q \in Queues
  BY <1>q DEF InQueue
<1>o. ASSUME NEW t \in Threads, NEW r \in Queues, owner[r] = t
      PROVE  \/ pc[t] \in InQueue /\ call[t].q = r
             \/ pc[t] \in InOther /\ call[t].other = r
  BY <1>o, <1>t, <1>n DEF Locking
<1>h. ASSUME NEW t \in Threads, call[t].op = "Push"
      PROVE  held[t] \in Values
  BY <1>h, <1>t DEF Moving
\* Steps that leave the data alone, outside the pop.
<1>s. ASSUME NEW t \in Threads, pc[t] # "pop", pc'[t] # "pop",
             \A u \in Threads \ {t} : pc'[u] = "pop" <=> pc[u] = "pop",
             UNCHANGED <<data, call, held>>,
             \A r \in Queues : owner[r] # t /\ owner'[r] # t =>
                                  owner'[r] = owner[r],
             \A r \in Queues : owner'[r] = t => owner[r] \in {t, None}
      PROVE  Moving'
  <2>1. ASSUME NEW r \in Queues, t \in {owner[r], owner'[r]}
        PROVE  data'[r] \in Seq(Values)
    BY <2>1, <1>s, <1>t, <1>n DEF Moving
  <2> QED
    BY <1>s, <1>t, <1>f, <1>p, <1>h, <2>1, MovingFrame
<1>1. ASSUME NEW t \in Threads, NEW v \in Values, NEW c \in Calls[t],
             Call(t, c, v)
      PROVE  Moving'
  <2>1. /\ pc[t] = "idle" /\ pc'[t] # "pop"
        /\ \A u \in Threads \ {t} :
              pc'[u] = pc[u] /\ call'[u] = call[u] /\ held'[u] = held[u]
        /\ UNCHANGED <<data, owner>>
        /\ call'[t].op = "Push" => held'[t] \in Values
    BY <1>1, <1>f DEF Call, Goto, Hold
  <2>2. \A r \in Queues : owner[r] # t
    BY <2>1, <1>o DEF InQueue, InOther
  <2> QED
    BY <2>1, <2>2, <1>t, <1>f, <1>p, MovingFrame
<1>2. ASSUME NEW t \in Threads,
             \/ Lock(t) \/ Unlock(t) \/ Wait(t) \/ LockOther(t)
             \/ UnlockOther(t)
      PROVE  Moving'
  <2>1. /\ pc[t] # "pop" /\ pc'[t] # "pop"
        /\ \A u \in Threads \ {t} : pc'[u] = pc[u]
        /\ UNCHANGED <<data, call, held>>
    BY <1>2, <1>f
    DEF Lock, Unlock, Wait, LockOther, UnlockOther, Goto, At
  <2> QED
    BY <1>2, <2>1, <1>s, LockSteps
<1>3. ASSUME NEW t \in Threads, Notify(t)
      PROVE  Moving'
  <2>1. CASE waiting[call[t].q] = {}
    BY <1>3, <2>1, <1>f, <1>s DEF Notify, Goto, At
  <2>2. ASSUME NEW w \in waiting[call[t].q],
               pc' = [pc EXCEPT ![t] = "unlock", ![w] = "lock"]
        PROVE  Moving'
    <3>1. call[t].q \in Queues
      BY <1>3, <1>q DEF Notify, At, InQueue
    <3>2. w \in Threads /\ pc[w] = "waiting" /\ pc[t] = "notify"
      BY <1>3, <2>2, <3>1 DEF Inv, TypeOK, Sleeping, Notify, At
    <3>3. /\ pc'[t] = "unlock"
          /\ \A u \in Threads : pc'[u] = "pop" <=> pc[u] = "pop"
      BY <2>2, <3>2, <1>f
    <3> QED
      BY <1>3, <3>2, <3>3, <1>s DEF Notify
  <2> QED
    BY <1>3, <2>1, <2>2 DEF Notify
<1>4. ASSUME NEW t \in Threads,
             TryPopEmpty(t) \/ SpuriousWakeup(t) \/ Empty(t) \/ Size(t)
      PROVE  Moving'
  BY <1>4, <1>f, <1>s DEF TryPopEmpty, SpuriousWakeup, Empty, Size, Goto, At
<1>5. ASSUME NEW t \in Threads, PushValue(t)
      PROVE  Moving'
  <2>1. /\ pc[t] = "locked" /\ call[t].op = "Push"
        /\ call[t].q \in Queues /\ owner[call[t].q] = t
    BY <1>5, <1>q DEF PushValue, At, InQueue
  <2>2. /\ pc'[t] = "notify" /\ \A u \in Threads \ {t} : pc'[u] = pc[u]
        /\ data'[call[t].q] = Append(data[call[t].q], held[t])
        /\ \A r \in Queues \ {call[t].q} : data'[r] = data[r]
        /\ UNCHANGED <<owner, call, held>>
    BY <1>5, <2>1, <1>f DEF PushValue, Goto, SetData
  <2>3. held[t] \in Values /\ data[call[t].q] \in Seq(Values)
    BY <2>1, <1>h, WholeData
  <2>4. Append(data[call[t].q], held[t]) \in Seq(Values)
    BY <2>3
  <2>5. ASSUME NEW r \in Queues
        PROVE  /\ owner[r] = t => data'[r] \in Seq(Values)
               /\ owner[r] # t => data'[r] = data[r]
    BY <2>1, <2>2, <2>4, <1>o DEF InOther
  <2>6. pc'[t] # "pop" /\ \A u \in Threads \ {t} : pc'[u] = pc[u]
    BY <2>2
  <2>7. UNCHANGED <<owner, call, held>>
    BY <2>2
  <2> QED
    BY <2>3, <2>5, <2>6, <2>7, <1>t, <1>f, <1>p, MovingFrame
<1>6. ASSUME NEW t \in Threads, MoveFront(t)
      PROVE  Moving'
  <2> DEFINE d == data[call[t].q]
  <2>1. /\ pc[t] = "locked" /\ call[t].op \in {"TryPop", "WaitAndPop"}
        /\ call[t].q \in Queues /\ owner[call[t].q] = t
        /\ d # << >>
    BY <1>6, <1>q DEF MoveFront, At, InQueue
  <2>2. /\ pc'[t] = "pop" /\ \A u \in Threads \ {t} : pc'[u] = pc[u]
        /\ held'[t] = Head(d) /\ \A u \in Threads \ {t} : held'[u] = held[u]
        /\ data'[call[t].q] = [d EXCEPT ![1] = Moved]
        /\ \A r \in Queues \ {call[t].q} : data'[r] = data[r]
        /\ UNCHANGED <<owner, call>>
    BY <1>6, <2>1, <1>f DEF MoveFront, Goto, SetData, Hold
  <2>3. /\ d \in Seq(Values) /\ Head(d) \in Values /\ Tail(d) \in Seq(Values)
        /\ d \in Seq(Values \cup {Moved})
    BY <2>1, WholeData, SeqMonotonic
  <2>4. /\ [d EXCEPT ![1] = Moved] # << >>
        /\ Tail([d EXCEPT ![1] = Moved]) = Tail(d)
    BY <2>1, <2>3, FrontReplaced
  <2>5. \A r \in Queues : owner[r] = t => r = call[t].q
    BY <2>1, <1>o DEF InOther
  <2>6. /\ held'[t] \in Values /\ data'[call'[t].q] # << >>
        /\ Tail(data'[call'[t].q]) \in Seq(Values)
    BY <2>1, <2>2, <2>3, <2>4
  <2>7. /\ \A r \in Queues : owner[r] # t => data'[r] = data[r]
        /\ \A u \in Threads \ {t} : pc'[u] = pc[u] /\ held'[u] = held[u]
        /\ pc'[t] = "pop" /\ call'[t].op # "Push"
        /\ UNCHANGED <<owner, call>>
    BY <2>1, <2>2
  <2> HIDE DEF d
  <2> QED
    BY <2>5, <2>6, <2>7, <1>t, <1>f, <1>p, MovingFrame
<1>7. ASSUME NEW t \in Threads, Pop(t)
      PROVE  Moving'
  <2>1. /\ pc[t] = "pop" /\ call[t].op \in {"TryPop", "WaitAndPop"}
        /\ call[t].q \in Queues /\ owner[call[t].q] = t
    BY <1>7, <1>q, <1>t DEF Pop, InQueue, Running
  <2>2. /\ pc'[t] = "unlock" /\ \A u \in Threads \ {t} : pc'[u] = pc[u]
        /\ data'[call[t].q] = Tail(data[call[t].q])
        /\ \A r \in Queues \ {call[t].q} : data'[r] = data[r]
        /\ UNCHANGED <<owner, call, held>>
    BY <1>7, <2>1, <1>f DEF Pop, Goto, SetData
  <2>3. Tail(data[call[t].q]) \in Seq(Values)
    BY <2>1, <1>t DEF Moving
  <2>4. ASSUME NEW r \in Queues
        PROVE  /\ owner[r] = t => data'[r] \in Seq(Values)
               /\ owner[r] # t => data'[r] = data[r]
    BY <2>1, <2>2, <2>3, <1>o DEF InOther
  <2>5. pc'[t] # "pop" /\ \A u \in Threads \ {t} : pc'[u] = pc[u]
    BY <2>2
  <2>6. UNCHANGED <<owner, call, held>>
    BY <2>2
  <2> QED
    BY <2>1, <2>4, <2>5, <2>6, <1>t, <1>f, <1>p, MovingFrame
<1>8. ASSUME NEW t \in Threads, SwapTmp(t) \/ SwapLhs(t) \/ SwapRhs(t)
      PROVE  Moving'
  <2>1. /\ pc[t] \in {"swapTmp", "swapLhs", "swapRhs"}
        /\ call[t].op = "TSSwap"
        /\ call[t].q \in Queues /\ owner[call[t].q] = t
        /\ call[t].other \in Queues /\ owner[call[t].other] = t
        /\ call[t].other # call[t].q
    BY <1>8, <1>q, <1>t, InOperation
    DEF SwapTmp, SwapLhs, SwapRhs, InQueue, InOther, Running, Locking
  <2>2. /\ pc'[t] # "pop" /\ \A u \in Threads \ {t} : pc'[u] = pc[u]
        /\ UNCHANGED <<owner, call, held>>
    BY <1>8, <1>f DEF SwapTmp, SwapLhs, SwapRhs, Goto
  <2>3. \A r \in Queues : owner[r] = t => r \in {call[t].q, call[t].other}
    BY <2>1, <1>o
  <2>4. /\ data[call[t].q] \in Seq(Values)
        /\ data[call[t].other] \in Seq(Values)
        /\ tmp[t] \in Seq(Values) /\ << >> \in Seq(Values)
    BY <2>1, <1>t, WholeData DEF TypeOK
  <2>5. ASSUME NEW r \in Queues
        PROVE  /\ owner[r] = t => data'[r] \in Seq(Values)
               /\ owner[r] # t => data'[r] = data[r]
    <3>1. CASE SwapTmp(t)
      BY <3>1, <2>1, <2>3, <2>4, <1>f DEF SwapTmp, SetData
    <3>2. CASE SwapLhs(t)
      BY <3>2, <2>1, <2>3, <2>4, <1>f DEF SwapLhs
    <3>3. CASE SwapRhs(t)
      BY <3>3, <2>1, <2>3, <2>4, <1>f DEF SwapRhs, SetData
    <3> QED
      BY <1>8, <3>1, <3>2, <3>3
  <2> QED
    BY <2>1, <2>2, <2>5, <1>t, <1>f, <1>p, MovingFrame
<1>9. CASE UNCHANGED vars
  BY <1>9, <1>t DEF vars, Moving
<1> QED
  BY <1>1, <1>2, <1>3, <1>4, <1>5, <1>6, <1>7, <1>8, <1>9 DEF Next, Step

\* The invariant holds in every reachable state.
THEOREM Invariance == Spec => []Inv
<1>1. Inv /\ [Next]_vars => Inv'
  BY TypeOKNext, RunningNext, LockingNext, SleepingNext, MovingNext DEF Inv
<1> QED
  BY InvInit, <1>1, PTL DEF Spec

\* The queues, their mutexes and the threads keep their types: no pop returns
\* the moved-out front, and no queue has one outside the lock
\* (ts_queue.hpp:38-97).
THEOREM TypeCorrect == Spec => []TypeOK
<1>1. Inv => TypeOK
  BY DEF Inv
<1> QED
  BY Invariance, <1>1, PTL

-----------------------------------------------------------------------------
(* No wake-up is lost.                                                     *)

\* There are finitely many threads, so those on their way can be counted, and
\* one more or less counts for one.
LEMMA WayCount ==
    ASSUME NEW W \in SUBSET Threads, NEW V \in SUBSET Threads, NEW t
    PROVE  /\ Cardinality(W) \in Nat
           /\ W \subseteq V => Cardinality(W) <= Cardinality(V)
           /\ W \subseteq V /\ t \in V \ W => Cardinality(W) + 1 <= Cardinality(V)
           /\ W \ {t} \subseteq V => Cardinality(W) - 1 <= Cardinality(V)
<1>1. IsFiniteSet(W) /\ IsFiniteSet(V)
  BY TSQueueAssumption, FS_Subset
<1>2. Cardinality(W) \in Nat /\ Cardinality(V) \in Nat
  BY <1>1, FS_CardinalityType
<1>3. W \subseteq V => Cardinality(W) <= Cardinality(V)
  BY <1>1, FS_Subset
<1>4. ASSUME W \subseteq V, t \in V \ W
      PROVE  Cardinality(W) + 1 <= Cardinality(V)
  <2>1. IsFiniteSet(W \cup {t}) /\ Cardinality(W \cup {t}) = Cardinality(W) + 1
    BY <1>1, <1>4, FS_AddElement
  <2>2. W \cup {t} \in SUBSET V
    BY <1>4
  <2>3. Cardinality(W \cup {t}) <= Cardinality(V)
    BY <1>1, <2>2, FS_Subset
  <2> QED
    BY <2>1, <2>3
<1>5. ASSUME W \ {t} \subseteq V
      PROVE  Cardinality(W) - 1 <= Cardinality(V)
  <2>1. /\ IsFiniteSet(W \ {t})
        /\ Cardinality(W \ {t}) \in {Cardinality(W), Cardinality(W) - 1}
    BY <1>1, FS_RemoveElement
  <2>2. W \ {t} \in SUBSET V
    BY <1>5
  <2>3. Cardinality(W \ {t}) <= Cardinality(V)
    BY <1>1, <2>2, FS_Subset
  <2> QED
    BY <1>2, <2>1, <2>3
<1> QED
  BY <1>2, <1>3, <1>4, <1>5

\* notify_one replaces the thread that notifies by the one it wakes.
LEMMA WayHandover ==
    ASSUME NEW W \in SUBSET Threads, NEW V \in SUBSET Threads, NEW t, NEW w,
           w \notin W, w \in V, W \ {t} \subseteq V
    PROVE  Cardinality(W) <= Cardinality(V)
<1> DEFINE U == W \ {t}
<1>1. U \in SUBSET Threads /\ U \subseteq V /\ w \in V \ U
  OBVIOUS
<1>2. Cardinality(W) - 1 <= Cardinality(U)
  BY <1>1, WayCount
<1>3. Cardinality(U) + 1 <= Cardinality(V)
  BY <1>1, WayCount
<1>4. Cardinality(W) \in Nat /\ Cardinality(U) \in Nat /\ Cardinality(V) \in Nat
  BY <1>1, WayCount
<1> HIDE DEF U
<1> QED
  BY <1>2, <1>3, <1>4

\* Each step leaves as many threads on their way to a queue as it has values, or
\* nobody asleep beside them.
LEMMA WakeupNext == Inv /\ NoLostWakeup /\ [Next]_vars => NoLostWakeup'
<1> SUFFICES ASSUME Inv, NoLostWakeup, [Next]_vars, NEW q \in Queues
             PROVE  waiting'[q] # {} =>
                       Len(data'[q]) <= Cardinality(OnTheWay(q)')
  BY DEF NoLostWakeup
<1> DEFINE Goal == waiting'[q] # {} =>
                      Len(data'[q]) <= Cardinality(OnTheWay(q)')
<1>t. TypeOK /\ Running /\ Sleeping
  BY DEF Inv
<1>f. /\ pc \in [Threads -> Labels]
      /\ data = [r \in Queues |-> data[r]]
      /\ waiting = [r \in Queues |-> waiting[r]]
      /\ call = [u \in Threads |-> call[u]]
      /\ Len(data[q]) \in Nat
  BY <1>t DEF TypeOK
<1>w. waiting[q] # {} => Len(data[q]) <= Cardinality(OnTheWay(q))
  BY DEF NoLostWakeup
<1>c. OnTheWay(q) \in SUBSET Threads /\ OnTheWay(q)' \in SUBSET Threads
  BY DEF OnTheWay
<1>q. ASSUME NEW t \in Threads, pc[t] # "idle"
      PROVE  call[t].q \in Queues
  BY <1>q, InOperation
\* Steps after which the queue is no longer and its takers are no fewer.
<1>k. ASSUME waiting'[q] # {} => waiting[q] # {}, data'[q] = data[q],
             OnTheWay(q) \subseteq OnTheWay(q)'
      PROVE  Goal
  <2>1. Cardinality(OnTheWay(q)) <= Cardinality(OnTheWay(q)')
    BY <1>c, <1>k, WayCount
  <2>2. Cardinality(OnTheWay(q)) \in Nat /\ Cardinality(OnTheWay(q)') \in Nat
    BY <1>c, WayCount
  <2> QED
    BY <1>f, <1>w, <1>k, <2>1, <2>2
\* A step of one thread that is not on its way there.
<1>o. ASSUME NEW t \in Threads, t \notin OnTheWay(q),
             \A u \in Threads \ {t} : pc'[u] = pc[u] /\ call'[u] = call[u]
      PROVE  OnTheWay(q) \subseteq OnTheWay(q)'
  BY <1>o DEF OnTheWay, At
<1>1. ASSUME NEW t \in Threads, NEW v, NEW c \in Calls[t], Call(t, c, v)
      PROVE  Goal
  <2>1. /\ t \notin OnTheWay(q)
        /\ \A u \in Threads \ {t} : pc'[u] = pc[u] /\ call'[u] = call[u]
    BY <1>1, <1>f DEF Call, Goto, OnTheWay, At
  <2> QED
    BY <1>1, <1>k, <1>o, <2>1 DEF Call
<1>2. ASSUME NEW t \in Threads, Lock(t)
      PROVE  Goal
  <2>1. OnTheWay(q) \subseteq OnTheWay(q)'
    BY <1>2, <1>f DEF Lock, Goto, OnTheWay, At
  <2> QED
    BY <1>2, <1>k, <2>1 DEF Lock
<1>3. ASSUME NEW t \in Threads,
             \/ Unlock(t) \/ TryPopEmpty(t) \/ Empty(t) \/ Size(t)
             \/ LockOther(t) \/ UnlockOther(t)
      PROVE  Goal
  <2> USE DEF Unlock, TryPopEmpty, Empty, Size, LockOther, UnlockOther
  <2>1. t \notin OnTheWay(q)
    BY <1>3 DEF OnTheWay, At
  <2>2. \A u \in Threads \ {t} : pc'[u] = pc[u] /\ call'[u] = call[u]
    BY <1>3, <1>f DEF Goto
  <2>3. UNCHANGED <<data, waiting>>
    BY <1>3
  <2> QED
    BY <1>k, <1>o, <2>1, <2>2, <2>3
<1>4. ASSUME NEW t \in Threads, PushValue(t)
      PROVE  Goal
  <2>1. /\ t \notin OnTheWay(q)
        /\ \A u \in Threads \ {t} : pc'[u] = pc[u]
        /\ pc'[t] = "notify" /\ call[t].op = "Push"
        /\ UNCHANGED <<call, waiting>>
    BY <1>4, <1>f DEF PushValue, Goto, OnTheWay, At
  <2>2. OnTheWay(q) \subseteq OnTheWay(q)'
    BY <2>1, <1>o
  <2>3. CASE call[t].q # q
    <3>1. data'[q] = data[q]
      BY <1>4, <1>f, <2>3 DEF PushValue, SetData
    <3> QED
      BY <1>k, <2>1, <2>2, <3>1
  <2>4. CASE call[t].q = q
    <3>1. t \in OnTheWay(q)'
      BY <2>1, <2>4 DEF OnTheWay, At
    <3>2. Cardinality(OnTheWay(q)) + 1 <= Cardinality(OnTheWay(q)')
      BY <1>c, <2>1, <2>2, <3>1, WayCount
    <3>3. Cardinality(OnTheWay(q)) \in Nat /\ Cardinality(OnTheWay(q)') \in Nat
      BY <1>c, WayCount
    <3>4. data'[q] = Append(data[q], held[t])
      BY <1>4, <1>f, <2>4 DEF PushValue, SetData
    <3>5. Len(data'[q]) = Len(data[q]) + 1
      BY <1>t, <3>4 DEF TypeOK
    <3> QED
      BY <1>f, <1>w, <2>1, <3>2, <3>3, <3>5
  <2> QED
    BY <2>3, <2>4
<1>5. ASSUME NEW t \in Threads, Notify(t)
      PROVE  Goal
  <2>1. /\ At(t, "Push", "notify") /\ call[t].q \in Queues
        /\ UNCHANGED <<data, call>>
    BY <1>5, <1>q DEF Notify, At
  <2>2. CASE waiting[call[t].q] = {} /\ Goto(t, "unlock") /\ UNCHANGED waiting
    <3>1. CASE call[t].q = q
      BY <2>2, <3>1
    <3>2. CASE call[t].q # q
      <4>1. OnTheWay(q) \subseteq OnTheWay(q)'
        BY <1>f, <2>1, <2>2, <3>2 DEF OnTheWay, At, Goto
      <4> QED
        BY <1>k, <2>1, <2>2, <4>1
    <3> QED
      BY <3>1, <3>2
  <2>3. ASSUME NEW w \in waiting[call[t].q],
               waiting' = [waiting EXCEPT ![call[t].q] = @ \ {w}],
               pc' = [pc EXCEPT ![t] = "unlock", ![w] = "lock"]
        PROVE  Goal
    <3>1. /\ w \in Threads /\ pc[w] = "waiting" /\ call[w].q = call[t].q
          /\ call[w].op = "WaitAndPop" /\ w # t
      BY <1>t, <2>1, <2>3 DEF TypeOK, Sleeping, Running, At
    <3>2. pc'[w] = "lock" /\ \A u \in Threads \ {t, w} : pc'[u] = pc[u]
      BY <1>f, <2>3, <3>1
    <3>3. w \notin OnTheWay(q)
      BY <3>1 DEF OnTheWay, At
    <3>4. CASE call[t].q # q
      <4>1. OnTheWay(q) \subseteq OnTheWay(q)'
        BY <2>1, <3>1, <3>2, <3>4 DEF OnTheWay, At
      <4>2. waiting'[q] = waiting[q]
        BY <1>f, <2>3, <3>4
      <4> QED
        BY <1>k, <2>1, <4>1, <4>2
    <3>5. CASE call[t].q = q
      <4>1. OnTheWay(q) \ {t} \subseteq OnTheWay(q)' /\ w \in OnTheWay(q)'
        BY <2>1, <3>1, <3>2, <3>3, <3>5 DEF OnTheWay, At
      <4>2. Cardinality(OnTheWay(q)) <= Cardinality(OnTheWay(q)')
        BY <1>c, <3>3, <4>1, WayHandover
      <4>3. Cardinality(OnTheWay(q)) \in Nat /\ Cardinality(OnTheWay(q)') \in Nat
        BY <1>c, WayCount
      <4>4. waiting[q] # {}
        BY <2>3, <3>5
      <4> QED
        BY <1>f, <1>w, <2>1, <4>2, <4>3, <4>4
    <3> QED
      BY <3>4, <3>5
  <2> QED
    BY <1>5, <2>2, <2>3 DEF Notify
<1>6. ASSUME NEW t \in Threads, Wait(t)
      PROVE  Goal
  <2>1. /\ call[t].q \in Queues /\ data[call[t].q] = << >>
        /\ pc[t] = "locked" /\ \A u \in Threads \ {t} : pc'[u] = pc[u]
        /\ UNCHANGED <<data, call>>
    BY <1>6, <1>f, <1>q DEF Wait, At, Goto
  <2>2. CASE call[t].q = q
    <3>1. Len(data'[q]) = 0 /\ Cardinality(OnTheWay(q)') \in Nat
      BY <1>c, <2>1, <2>2, WayCount
    <3> QED
      BY <3>1
  <2>3. CASE call[t].q # q
    <3>1. t \notin OnTheWay(q)
      BY <2>3 DEF OnTheWay
    <3>2. waiting'[q] = waiting[q]
      BY <1>6, <1>f, <2>3 DEF Wait
    <3> QED
      BY <1>k, <1>o, <2>1, <3>1, <3>2
  <2> QED
    BY <2>2, <2>3
<1>7. ASSUME NEW t \in Threads, SpuriousWakeup(t)
      PROVE  Goal
  <2>1. t \notin OnTheWay(q)
    BY <1>7 DEF SpuriousWakeup, OnTheWay, At
  <2>2. /\ \A u \in Threads \ {t} : pc'[u] = pc[u]
        /\ waiting'[q] \subseteq waiting[q]
        /\ UNCHANGED <<data, call>>
    BY <1>7, <1>f DEF SpuriousWakeup, Goto
  <2> QED
    BY <1>k, <1>o, <2>1, <2>2
<1>8. ASSUME NEW t \in Threads, MoveFront(t)
      PROVE  Goal
  <2>1. OnTheWay(q) \subseteq OnTheWay(q)'
    BY <1>8, <1>f DEF MoveFront, Goto, OnTheWay, At
  <2>2. Len(data'[q]) = Len(data[q])
    <3>1. CASE call[t].q # q
      BY <1>8, <1>f, <3>1 DEF MoveFront, SetData
    <3>2. CASE call[t].q = q
      <4>1. data'[q] = [data[q] EXCEPT ![1] = Moved] /\ data[q] # << >>
        BY <1>8, <1>f, <3>2 DEF MoveFront, SetData
      <4>2. data[q] \in Seq(Values \cup {Moved}) /\ 1 \in 1 .. Len(data[q])
        BY <1>t, <4>1 DEF TypeOK
      <4> QED
        BY <4>1, <4>2, ExceptSeq
    <3> QED
      BY <3>1, <3>2
  <2>3. Cardinality(OnTheWay(q)) <= Cardinality(OnTheWay(q)')
    BY <1>c, <2>1, WayCount
  <2>4. Cardinality(OnTheWay(q)) \in Nat /\ Cardinality(OnTheWay(q)') \in Nat
    BY <1>c, WayCount
  <2>5. UNCHANGED waiting
    BY <1>8 DEF MoveFront
  <2> QED
    BY <1>f, <1>w, <2>2, <2>3, <2>4, <2>5
<1>9. ASSUME NEW t \in Threads, Pop(t)
      PROVE  Goal
  <2>1. /\ pc[t] = "pop" /\ \A u \in Threads \ {t} : pc'[u] = pc[u]
        /\ UNCHANGED <<call, waiting>>
    BY <1>9, <1>f DEF Pop, Goto
  <2>2. CASE call[t].q # q
    <3>1. t \notin OnTheWay(q) /\ data'[q] = data[q]
      BY <1>9, <1>f, <2>2 DEF OnTheWay, Pop, SetData
    <3> QED
      BY <1>k, <1>o, <2>1, <3>1
  <2>3. CASE call[t].q = q
    <3>1. data'[q] = Tail(data[q])
      BY <1>9, <1>f, <2>3 DEF Pop, SetData
    <3>2. data[q] # << >> /\ data[q] \in Seq(Values \cup {Moved})
      BY <1>t, <2>1, <2>3 DEF TypeOK, Inv, Moving
    <3>3. Len(data'[q]) = Len(data[q]) - 1
      BY <3>1, <3>2
    <3>4. OnTheWay(q) \ {t} \subseteq OnTheWay(q)'
      BY <2>1 DEF OnTheWay, At
    <3>5. Cardinality(OnTheWay(q)) - 1 <= Cardinality(OnTheWay(q)')
      BY <1>c, <3>4, WayCount
    <3>6. Cardinality(OnTheWay(q)) \in Nat /\ Cardinality(OnTheWay(q)') \in Nat
      BY <1>c, WayCount
    <3> QED
      BY <1>f, <1>w, <2>1, <3>3, <3>5, <3>6
  <2> QED
    BY <2>2, <2>3
<1>10. ASSUME NEW t \in Threads, SwapTmp(t) \/ SwapLhs(t) \/ SwapRhs(t)
       PROVE  Goal
  <2>1. /\ call[t].op = "TSSwap" /\ call[t] \in Calls[t]
        /\ call[t].q \in Queues /\ call[t].other \in Queues
    BY <1>10, <1>t, InOperation DEF SwapTmp, SwapLhs, SwapRhs, Running, InOther
  <2>2. /\ \A u \in Threads \ {t} : pc'[u] = pc[u]
        /\ UNCHANGED <<call, waiting>>
    BY <1>10, <1>f DEF SwapTmp, SwapLhs, SwapRhs, Goto
  <2>3. CASE q \in {call[t].q, call[t].other}
    <3>1. ASSUME NEW u \in waiting[q] PROVE FALSE
      <4>1. u \in Threads /\ call[u].q = q /\ pc[u] = "waiting"
        BY <1>t, <3>1 DEF TypeOK, Sleeping
      <4>2. call[u].op = "WaitAndPop" /\ call[u] \in Calls[u]
        BY <1>t, <4>1 DEF Running
      <4> QED
        BY <2>1, <2>3, <4>1, <4>2, WaitedQueuesNotSwapped
    <3> QED
      BY <2>2, <3>1
  <2>4. CASE q \notin {call[t].q, call[t].other}
    <3>1. data'[q] = data[q]
      BY <1>10, <1>f, <2>4 DEF SwapTmp, SwapLhs, SwapRhs, SetData
    <3>2. t \notin OnTheWay(q)
      BY <2>4 DEF OnTheWay
    <3> QED
      BY <1>k, <1>o, <2>2, <3>1, <3>2
  <2> QED
    BY <2>3, <2>4
<1>11. CASE UNCHANGED vars
  <2>1. OnTheWay(q)' = OnTheWay(q) /\ UNCHANGED <<data, waiting>>
    BY <1>11 DEF vars, OnTheWay, At
  <2> QED
    BY <1>k, <2>1
<1> QED
  BY <1>1, <1>2, <1>3, <1>4, <1>5, <1>6, <1>7, <1>8, <1>9, <1>10, <1>11
  DEF Next, Step

\* No thread sleeps in WaitAndPop beside values nobody is going to take, as long
\* as no queue is swapped that a thread waits on (ts_queue.hpp:60-77).
THEOREM WakeupsNotLost == Spec => []NoLostWakeup
<1>1. Init => NoLostWakeup
  BY DEF Init, NoLostWakeup
<1> QED
  BY Invariance, WakeupNext, <1>1, PTL DEF Spec

-----------------------------------------------------------------------------
(* No deadlock.  A thread that holds a mutex is past its first lock and not *)
(* asleep, so it can go on: every chain of waiting threads has length one.  *)

\* Whoever holds a mutex can go on.
LEMMA OwnerGoesOn ==
  ASSUME Inv, NEW q \in Queues, owner[q] # None
  PROVE  owner[q] \in Threads /\ CanGo(owner[q])
<1>1. owner[q] \in Threads
  BY DEF Inv, TypeOK
<1>2. pc[owner[q]] \in InQueue \cup InOther
  BY DEF Inv, Locking
<1> QED
  BY <1>1, <1>2 DEF CanGo, InQueue, InOther

\* However many threads swap however many pairs of queues, in whatever order
\* they name them, the threads never wait for each other in a circle: when a
\* thread stands at a mutex, the thread that holds it can go on
\* (scoped_lock, ts_queue.hpp:42).
THEOREM DeadlockFree == Spec => []NoDeadlock
<1>1. Inv => NoDeadlock
  <2> SUFFICES ASSUME Inv, NEW t \in Threads, pc[t] \notin {"idle", "waiting"}
               PROVE  \E u \in Threads : CanGo(u)
    BY DEF NoDeadlock
  <2>1. CASE CanGo(t)
    BY <2>1
  <2>2. CASE ~CanGo(t)
    <3>1. pc[t] = "lock" /\ owner[call[t].q] # None
      BY <2>2 DEF CanGo
    <3>2. call[t] \in Operations
      BY <3>1, TSQueueAssumption DEF Inv, Running
    <3>3. call[t].q \in Queues
      BY <3>2 DEF Operations
    <3> QED
      BY <3>1, <3>3, OwnerGoesOn
  <2> QED
    BY <2>1, <2>2
<1> QED
  BY Invariance, <1>1, PTL

-----------------------------------------------------------------------------
(* The queues implement FifoQueues.                                        *)

\* The contents of a queue are its data, unless its owner is in the middle of a
\* pop or a swap.
LEMMA ContentsPlain ==
    ASSUME NEW q \in Queues,
           owner[q] = None \/ pc[owner[q]] \notin {"pop", "swapLhs", "swapRhs"}
    PROVE  Contents(q) = data[q]
  BY DEF Contents

\* What a thread does to the queues it has locked does not change what the
\* others have.
LEMMA ContentsFrame ==
    ASSUME Inv, NEW t \in Threads, NEW q \in Queues,
           owner[q] # t, owner'[q] = owner[q],
           \A u \in Threads \ {t} :
              /\ pc[u] \in InQueue => pc'[u] = pc[u]
              /\ call'[u] = call[u] /\ tmp'[u] = tmp[u] /\ held'[u] = held[u],
           \A r \in Queues : owner[r] # t => data'[r] = data[r]
    PROVE  Contents(q)' = Contents(q)
<1>1. CASE owner[q] = None
  BY <1>1 DEF Contents
<1>2. CASE owner[q] # None
  <2> DEFINE u == owner[q]
  <2>1. u \in Threads \ {t} /\ pc[u] \in InQueue
    BY <1>2 DEF Inv, TypeOK, Locking, InQueue, InOther
  <2>2. /\ pc'[u] = pc[u] /\ call'[u] = call[u] /\ tmp'[u] = tmp[u]
        /\ held'[u] = held[u] /\ data'[q] = data[q]
    BY <2>1
  <2>3. data'[call[u].q] = data[call[u].q]
    <3>1. call[u].q \in Queues /\ owner[call[u].q] = u
      BY <2>1, InOperation DEF Inv, Locking, InQueue
    <3> QED
      BY <2>1, <3>1
  <2> QED
    BY <2>2, <2>3 DEF Contents
<1> QED
  BY <1>1, <1>2

\* A step that changes no contents and lets no call take effect is a stutter.
LEMMA Stutter ==
    ASSUME \A q \in Queues : Contents(q)' = Contents(q),
           \A u \in Threads : pc'[u] \in Pending <=> pc[u] \in Pending,
           UNCHANGED <<call, result>>
    PROVE  UNCHANGED Abstract!vars
<1>1. [q \in Queues |-> Contents(q)]' = [q \in Queues |-> Contents(q)]
  OBVIOUS
<1>2. [u \in Threads |-> pc[u] \in Pending]' = [u \in Threads |-> pc[u] \in Pending]
  OBVIOUS
<1> QED
  BY <1>1, <1>2 DEF Abstract!vars

\* What is still to do after a step of one thread.
LEMMA TodoStep ==
    ASSUME NEW t \in Threads, NEW b, (pc'[t] \in Pending) = b,
           \A u \in Threads \ {t} : pc'[u] = pc[u]
    PROVE  [u \in Threads |-> pc[u] \in Pending]'
             = [[u \in Threads |-> pc[u] \in Pending] EXCEPT ![t] = b]
<1> DEFINE T == [u \in Threads |-> pc[u] \in Pending]
           T1 == [u \in Threads |-> pc'[u] \in Pending]
<1>1. T1[t] = b
  <2>1. T1[t] = (pc'[t] \in Pending)
    BY Zenon
  <2> HIDE DEF T1
  <2> QED
    BY <2>1, Zenon
<1>2. \A u \in Threads \ {t} : T1[u] = T[u]
  BY Zenon
<1>3. T1 = [u \in Threads |-> T1[u]] /\ T = [u \in Threads |-> T[u]]
  BY Zenon
<1> HIDE DEF T, T1
<1>4. T1 = [T EXCEPT ![t] = b]
  BY <1>1, <1>2, <1>3
<1> QED
  BY <1>4, Zenon DEF T, T1

\* A step that takes a call out of its pending labels is where it takes effect.
LEMMA TakesEffect ==
    ASSUME NEW t \in Threads, NEW ops, call[t].op \in ops,
           pc[t] \in Pending, pc'[t] \notin Pending,
           \A u \in Threads \ {t} : pc'[u] = pc[u],
           UNCHANGED call
    PROVE  Abstract!Effect(t, ops)
<1>1. (pc'[t] \in Pending) = FALSE
  OBVIOUS
<1>2. [u \in Threads |-> pc[u] \in Pending]'
        = [[u \in Threads |-> pc[u] \in Pending] EXCEPT ![t] = FALSE]
  BY <1>1, TodoStep, Zenon
<1>3. [u \in Threads |-> pc[u] \in Pending][t]
  OBVIOUS
<1> QED
  BY <1>2, <1>3 DEF Abstract!Effect

\* Steps outside a pop and a swap do not change any contents: they leave the data
\* alone, and a mutex they take or give back uncovers the data as they are.
LEMMA ContentsKept ==
    ASSUME Inv, NEW t \in Threads,
           pc[t] \notin {"pop", "swapLhs", "swapRhs"},
           pc'[t] \notin {"pop", "swapLhs", "swapRhs"},
           \A u \in Threads \ {t} : pc[u] \in InQueue => pc'[u] = pc[u],
           UNCHANGED <<data, call, held, tmp>>,
           \A r \in Queues : owner'[r] # owner[r] =>
              /\ t \in {owner[r], owner'[r]}
              /\ owner[r] \in {t, None} /\ owner'[r] \in {t, None},
           NEW q \in Queues
    PROVE  Contents(q)' = Contents(q)
<1>1. CASE t \in {owner[q], owner'[q]}
  <2>1. owner[q] \in {t, None} /\ owner'[q] \in {t, None}
    BY <1>1
  <2>2. Contents(q) = data[q]
    BY <2>1, ContentsPlain
  <2>3. Contents(q)' = data'[q]
    BY <2>1 DEF Contents
  <2> QED
    BY <2>2, <2>3
<1>2. CASE t \notin {owner[q], owner'[q]}
  BY <1>2, ContentsFrame
<1> QED
  BY <1>1, <1>2

\* When the contents of one queue change, the queues are as before but for it.
LEMMA OneQueue ==
    ASSUME NEW q \in Queues, NEW e, Contents(q)' = e,
           \A r \in Queues \ {q} : Contents(r)' = Contents(r)
    PROVE  [r \in Queues |-> Contents(r)]'
             = [[r \in Queues |-> Contents(r)] EXCEPT ![q] = e]
  OBVIOUS

\* Every step of a thread is a step of the abstract queues or a stutter.
LEMMA StepSimulation ==
    Inv /\ Inv' /\ [Next]_vars => [Abstract!Next]_(Abstract!vars)
<1> SUFFICES ASSUME Inv, Inv', [Next]_vars
             PROVE  Abstract!Next \/ UNCHANGED Abstract!vars
  OBVIOUS
<1> DEFINE Goal == Abstract!Next \/ UNCHANGED Abstract!vars
<1>t. TypeOK /\ Running /\ Locking /\ Moving
  BY DEF Inv
<1>n. None \notin Threads
  BY TSQueueAssumption
<1>f. /\ pc \in [Threads -> Labels]
      /\ owner \in [Queues -> Threads \cup {None}]
      /\ data = [q \in Queues |-> data[q]]
      /\ held = [u \in Threads |-> held[u]]
      /\ tmp = [u \in Threads |-> tmp[u]]
      /\ call = [u \in Threads |-> call[u]]
  BY <1>t DEF TypeOK
<1>q. ASSUME NEW t \in Threads, pc[t] \in InQueue
      PROVE  call[t].q \in Queues /\ owner[call[t].q] = t
  BY <1>q, <1>t, InOperation DEF Locking, InQueue
<1>o. ASSUME NEW t \in Threads, NEW r \in Queues, owner[r] = t
      PROVE  \/ pc[t] \in InQueue /\ call[t].q = r
             \/ pc[t] \in InOther /\ call[t].other = r
  BY <1>o, <1>t, <1>n DEF Locking
<1>1. ASSUME NEW t \in Threads, NEW v, NEW c \in Calls[t], Call(t, c, v)
      PROVE  Goal
  <2>1. /\ pc[t] = "idle" /\ pc'[t] = IF c.other = c.q THEN "idle" ELSE "lock"
        /\ \A u \in Threads \ {t} :
              pc'[u] = pc[u] /\ call'[u] = call[u] /\ held'[u] = held[u]
        /\ UNCHANGED <<data, owner, tmp, result>>
        /\ call' = [call EXCEPT ![t] = c]
    BY <1>1, <1>f DEF Call, Goto, Hold
  <2>2. \A r \in Queues : owner[r] # t
    BY <2>1, <1>o DEF InQueue, InOther
  <2>3. \A r \in Queues : Contents(r)' = Contents(r)
    BY <2>1, <2>2, ContentsFrame
  <2>4. [r \in Queues |-> Contents(r)]' = [r \in Queues |-> Contents(r)]
    BY <2>3
  <2>5. [u \in Threads |-> pc[u] \in Pending]'
          = [[u \in Threads |-> pc[u] \in Pending] EXCEPT ![t] = c.other # c.q]
    <3>1. (pc'[t] \in Pending) = (c.other # c.q)
      BY <2>1 DEF Pending
    <3> QED
      BY <2>1, <3>1, TodoStep, Zenon
  <2>6. ~[u \in Threads |-> pc[u] \in Pending][t]
    BY <2>1 DEF Pending
  <2>7. c \in Operations
    BY TSQueueAssumption
  <2>8. Abstract!Invoke(t, c)
    BY <2>1, <2>4, <2>5, <2>6 DEF Abstract!Invoke
  <2> QED
    BY <2>7, <2>8 DEF Abstract!Next
<1>2. ASSUME NEW t \in Threads,
             \/ Lock(t) \/ Unlock(t) \/ Wait(t) \/ LockOther(t)
             \/ UnlockOther(t)
      PROVE  Goal
  <2> USE DEF Lock, Unlock, Wait, LockOther, UnlockOther
  <2>1. /\ pc[t] \notin {"pop", "swapLhs", "swapRhs"}
        /\ pc'[t] \notin {"pop", "swapLhs", "swapRhs"}
        /\ pc'[t] \in Pending <=> pc[t] \in Pending
    BY <1>2, <1>f DEF Goto, At, Pending
  <2>2. \A u \in Threads \ {t} : pc'[u] = pc[u]
    BY <1>2, <1>f DEF Goto
  <2>3. UNCHANGED <<data, call, held, tmp, result>>
    BY <1>2
  <2> HIDE DEF Lock, Unlock, Wait, LockOther, UnlockOther
  <2>4. \A r \in Queues : Contents(r)' = Contents(r)
    BY <1>2, <2>1, <2>2, <2>3, LockSteps, ContentsKept
  <2> QED
    BY <2>1, <2>2, <2>3, <2>4, Stutter
<1>3. ASSUME NEW t \in Threads, Notify(t) \/ SpuriousWakeup(t)
      PROVE  Goal
  <2>1. /\ UNCHANGED <<data, owner, call, held, tmp, result>>
        /\ pc[t] \in {"notify", "waiting"}
    BY <1>3 DEF Notify, SpuriousWakeup, At
  <2> DEFINE Kept ==
        /\ pc'[t] \notin {"pop", "swapLhs", "swapRhs"}
        /\ \A u \in Threads : /\ pc'[u] \in Pending <=> pc[u] \in Pending
                              /\ u # t /\ pc[u] \in InQueue => pc'[u] = pc[u]
  <2>2. Kept
    <3>1. CASE Goto(t, "unlock") /\ pc[t] = "notify"
      BY <3>1, <1>f DEF Goto, Pending
    <3>2. CASE Goto(t, "lock") /\ pc[t] = "waiting"
      BY <3>2, <1>f DEF Goto, Pending
    <3>3. ASSUME pc[t] = "notify", NEW w \in waiting[call[t].q],
                 pc' = [pc EXCEPT ![t] = "unlock", ![w] = "lock"]
          PROVE  Kept
      <4>1. w \in Threads /\ pc[w] = "waiting"
        BY <3>3, <1>q DEF Inv, TypeOK, Sleeping, InQueue
      <4> QED
        BY <3>3, <4>1, <1>f DEF Pending, InQueue
    <3> QED
      BY <1>3, <3>1, <3>2, <3>3 DEF Notify, SpuriousWakeup, At
  <2>3. \A r \in Queues : Contents(r)' = Contents(r)
    BY <2>1, <2>2, ContentsKept
  <2> QED
    BY <2>1, <2>2, <2>3, Stutter
<1>4. ASSUME NEW t \in Threads, TryPopEmpty(t) \/ Empty(t) \/ Size(t)
      PROVE  Goal
  <2> USE DEF TryPopEmpty, Empty, Size
  <2>1. /\ pc[t] = "locked" /\ pc'[t] = "unlock"
        /\ \A u \in Threads \ {t} : pc'[u] = pc[u]
        /\ UNCHANGED <<data, owner, call, held, tmp>>
    BY <1>4, <1>f DEF Goto, At
  <2>2. call[t].q \in Queues /\ owner[call[t].q] = t
    BY <2>1, <1>q DEF InQueue
  <2>3. \A r \in Queues : Contents(r)' = Contents(r)
    BY <2>1, ContentsKept
  <2>4. [r \in Queues |-> Contents(r)]' = [r \in Queues |-> Contents(r)]
    BY <2>3
  <2>5. [r \in Queues |-> Contents(r)][call[t].q] = data[call[t].q]
    BY <2>1, <2>2, ContentsPlain
  <2>6. \A ops : call[t].op \in ops => Abstract!Effect(t, ops)
    BY <2>1, TakesEffect DEF Pending
  <2>7. CASE TryPopEmpty(t)
    <3>1. Abstract!Effect(t, {"TryPop"})
      BY <2>6, <2>7 DEF At
    <3>2. Abstract!Miss(t)
      BY <2>4, <2>5, <2>7, <3>1 DEF Abstract!Miss, Abstract!Return, Return
    <3> QED
      BY <3>2 DEF Abstract!Next
  <2>8. CASE Empty(t)
    <3>1. Abstract!Effect(t, {"Empty"})
      BY <2>6, <2>8 DEF At
    <3>2. Abstract!Measure(t)
      BY <2>4, <2>5, <2>8, <3>1 DEF Abstract!Measure, Abstract!Return, Return
    <3> QED
      BY <3>2 DEF Abstract!Next
  <2>9. CASE Size(t)
    <3>1. Abstract!Effect(t, {"Size"})
      BY <2>6, <2>9 DEF At
    <3>2. Abstract!Measure(t)
      BY <2>4, <2>5, <2>9, <3>1 DEF Abstract!Measure, Abstract!Return, Return
    <3> QED
      BY <3>2 DEF Abstract!Next
  <2> QED
    BY <1>4, <2>7, <2>8, <2>9
<1>5. ASSUME NEW t \in Threads, PushValue(t)
      PROVE  Goal
  <2>0. PICK q \in Queues : q = call[t].q
    BY <1>5, <1>q DEF PushValue, At, InQueue
  <2>1. pc[t] = "locked" /\ call[t].op = "Push" /\ owner[q] = t
    BY <1>5, <2>0, <1>q DEF PushValue, At, InQueue
  <2>2. /\ pc'[t] = "notify" /\ \A u \in Threads \ {t} : pc'[u] = pc[u]
        /\ data'[q] = Append(data[q], held[t])
        /\ \A r \in Queues \ {q} : data'[r] = data[r]
        /\ UNCHANGED <<owner, call, held, tmp, result>>
    BY <1>5, <2>0, <2>1, <1>f DEF PushValue, Goto, SetData
  <2>3. held[t] \in Values
    BY <2>1, <1>t DEF Moving
  <2>4. \A r \in Queues \ {q} : owner[r] # t
    BY <2>0, <2>1, <1>o DEF InOther
  <2>5. \A r \in Queues \ {q} : Contents(r)' = Contents(r)
    BY <2>1, <2>2, <2>4, ContentsFrame
  <2>6. Contents(q) = data[q]
    BY <2>1, ContentsPlain
  <2>7. Contents(q)' = Append(Contents(q), held[t])
    BY <2>1, <2>2, <2>6 DEF Contents
  <2>8. [r \in Queues |-> Contents(r)]' =
          [[r \in Queues |-> Contents(r)] EXCEPT
             ![q] = Append([r \in Queues |-> Contents(r)][q], held[t])]
    BY <2>5, <2>7, OneQueue
  <2>9. Abstract!Effect(t, {"Push"})
    BY <2>1, <2>2, TakesEffect DEF Pending
  <2>10. Abstract!Enqueue(t, held[t])
    BY <2>0, <2>2, <2>8, <2>9 DEF Abstract!Enqueue
  <2> QED
    BY <2>3, <2>10 DEF Abstract!Next
<1>6. ASSUME NEW t \in Threads, MoveFront(t)
      PROVE  Goal
  <2>0. PICK q \in Queues : q = call[t].q
    BY <1>6, <1>q DEF MoveFront, At, InQueue
  <2>1. pc[t] = "locked" /\ owner[q] = t /\ data[q] # << >>
    BY <1>6, <2>0, <1>q DEF MoveFront, At, InQueue
  <2>2. /\ pc'[t] = "pop" /\ \A u \in Threads \ {t} : pc'[u] = pc[u]
        /\ held'[t] = Head(data[q])
        /\ \A u \in Threads \ {t} : held'[u] = held[u]
        /\ data'[q] = [data[q] EXCEPT ![1] = Moved]
        /\ \A r \in Queues \ {q} : data'[r] = data[r]
        /\ UNCHANGED <<owner, call, tmp, result>>
    BY <1>6, <2>0, <2>1, <1>f DEF MoveFront, Goto, SetData, Hold
  <2>3. \A r \in Queues \ {q} : owner[r] # t
    BY <2>0, <2>1, <1>o DEF InOther
  <2>4. \A r \in Queues \ {q} : Contents(r)' = Contents(r)
    BY <2>1, <2>2, <2>3, ContentsFrame
  <2>5. Contents(q) = data[q]
    BY <2>1, ContentsPlain
  <2>6. Contents(q)' = [data'[q] EXCEPT ![1] = held'[t]]
    BY <2>1, <2>2, <1>n DEF Contents
  <2>7. Contents(q)' = data[q]
    <3>1. data[q] \in Seq(Values \cup {Moved})
      BY <1>t, <2>1 DEF TypeOK
    <3>2. [[data[q] EXCEPT ![1] = Moved] EXCEPT ![1] = Head(data[q])] = data[q]
      BY <2>1, <3>1, FrontReplaced
    <3> QED
      BY <2>2, <2>6, <3>2
  <2> QED
    BY <2>1, <2>2, <2>4, <2>5, <2>7, Stutter DEF Pending
<1>7. ASSUME NEW t \in Threads, Pop(t)
      PROVE  Goal
  <2>0. PICK q \in Queues : q = call[t].q
    BY <1>7, <1>q DEF Pop, InQueue
  <2>1. /\ pc[t] = "pop" /\ call[t].op \in {"TryPop", "WaitAndPop"}
        /\ owner[q] = t /\ data[q] # << >> /\ held[t] \in Values
        /\ data[q] \in Seq(Values \cup {Moved})
    BY <1>7, <2>0, <1>q, <1>t DEF Pop, InQueue, Running, Moving, TypeOK
  <2>2. /\ pc'[t] = "unlock" /\ \A u \in Threads \ {t} : pc'[u] = pc[u]
        /\ data'[q] = Tail(data[q])
        /\ \A r \in Queues \ {q} : data'[r] = data[r]
        /\ result' = [result EXCEPT ![t] = held[t]]
        /\ UNCHANGED <<owner, call, held, tmp>>
    BY <1>7, <2>0, <2>1, <1>f DEF Pop, Goto, SetData, Return
  <2>3. \A r \in Queues \ {q} : owner[r] # t
    BY <2>0, <2>1, <1>o DEF InOther
  <2>4. \A r \in Queues \ {q} : Contents(r)' = Contents(r)
    BY <2>1, <2>2, <2>3, ContentsFrame
  <2>5. Contents(q) = [data[q] EXCEPT ![1] = held[t]]
    BY <2>1, <1>n DEF Contents
  <2>6. /\ Contents(q) # << >> /\ Head(Contents(q)) = held[t]
        /\ Tail(Contents(q)) = Tail(data[q])
    BY <2>1, <2>5, FrontReplaced
  <2>7. Contents(q)' = Tail(Contents(q))
    BY <2>1, <2>2, <2>6 DEF Contents
  <2>8. [r \in Queues |-> Contents(r)][q] = Contents(q)
    BY <2>1
  <2>9. [r \in Queues |-> Contents(r)]' =
          [[r \in Queues |-> Contents(r)] EXCEPT
             ![q] = Tail([r \in Queues |-> Contents(r)][q])]
    BY <2>4, <2>7, <2>8, OneQueue
  <2>10. Abstract!Effect(t, {"TryPop", "WaitAndPop"})
    BY <2>1, <2>2, TakesEffect DEF Pending
  <2>11. Abstract!Dequeue(t)
    BY <2>0, <2>2, <2>6, <2>8, <2>9, <2>10
    DEF Abstract!Dequeue, Abstract!Return
  <2> QED
    BY <2>11 DEF Abstract!Next
<1>8. ASSUME NEW t \in Threads, SwapTmp(t) \/ SwapLhs(t) \/ SwapRhs(t)
      PROVE  Goal
  <2>0. PICK q \in Queues, o \in Queues :
          /\ q = call[t].q /\ o = call[t].other
          /\ call[t].op = "TSSwap" /\ q # o
    BY <1>8, <1>t, InOperation DEF SwapTmp, SwapLhs, SwapRhs, InOther, Running
  <2>1. q # o /\ owner[q] = t /\ owner[o] = t
    BY <1>8, <2>0, <1>t
    DEF SwapTmp, SwapLhs, SwapRhs, InQueue, InOther, Locking
  <2>2. /\ \A u \in Threads \ {t} : pc'[u] = pc[u]
        /\ \A u \in Threads \ {t} : tmp'[u] = tmp[u]
        /\ UNCHANGED <<owner, call, held, result>>
    BY <1>8, <1>f DEF SwapTmp, SwapLhs, SwapRhs, Goto
  <2>3. \A r \in Queues \ {q, o} : owner[r] # t /\ data'[r] = data[r]
    BY <1>8, <2>0, <1>o, <1>f DEF SwapTmp, SwapLhs, SwapRhs, SetData
  <2>4. \A r \in Queues \ {q, o} : Contents(r)' = Contents(r)
    BY <2>1, <2>2, <2>3, ContentsFrame
  <2>5. CASE SwapTmp(t)
    <3>1. /\ pc[t] = "swapTmp" /\ pc'[t] = "swapLhs"
          /\ tmp'[t] = data[q] /\ data'[o] = data[o]
      BY <2>0, <2>5, <1>f DEF SwapTmp, Goto, SetData
    <3>2. Contents(q)' = Contents(q) /\ Contents(o)' = Contents(o)
      BY <2>0, <2>1, <2>2, <3>1, <1>n DEF Contents
    <3> QED
      BY <2>2, <2>4, <3>1, <3>2, Stutter DEF Pending
  <2>6. CASE SwapLhs(t)
    <3>1. /\ pc[t] = "swapLhs" /\ pc'[t] = "swapRhs"
          /\ tmp'[t] = tmp[t] /\ data'[q] = data[o]
      BY <2>0, <2>6, <1>f DEF SwapLhs, Goto
    <3>2. Contents(q)' = Contents(q) /\ Contents(o)' = Contents(o)
      BY <2>0, <2>1, <2>2, <3>1, <1>n DEF Contents
    <3> QED
      BY <2>2, <2>4, <3>1, <3>2, Stutter DEF Pending
  <2>7. CASE SwapRhs(t)
    <3>1. /\ pc[t] = "swapRhs" /\ pc'[t] = "unlockOther"
          /\ data'[q] = data[q] /\ data'[o] = tmp[t]
      BY <2>0, <2>7, <1>f DEF SwapRhs, Goto, SetData
    <3>2. Contents(q)' = Contents(o) /\ Contents(o)' = Contents(q)
      BY <2>0, <2>1, <2>2, <3>1, <1>n DEF Contents
    <3>3. [r \in Queues |-> Contents(r)]' =
            [[r \in Queues |-> Contents(r)] EXCEPT
               ![q] = [r \in Queues |-> Contents(r)][o],
               ![o] = [r \in Queues |-> Contents(r)][q]]
      BY <2>1, <2>4, <3>2
    <3>4. Abstract!Effect(t, {"TSSwap"})
      BY <2>0, <2>2, <3>1, TakesEffect DEF Pending
    <3>5. Abstract!Exchange(t)
      BY <2>0, <2>2, <3>3, <3>4 DEF Abstract!Exchange
    <3> QED
      BY <3>5 DEF Abstract!Next
  <2> QED
    BY <1>8, <2>5, <2>6, <2>7
<1>9. CASE UNCHANGED vars
  <2>1. \A r \in Queues : Contents(r)' = Contents(r)
    BY <1>9 DEF vars, Contents
  <2> QED
    BY <1>9, <2>1, Stutter DEF vars
<1> QED
  BY <1>1, <1>2, <1>3, <1>4, <1>5, <1>6, <1>7, <1>8, <1>9 DEF Next, Step

\* TSQueue is linearizable: whatever the threads do and however their steps
\* interleave, each operation takes effect at one instant as FifoQueues has it
\* (ts_queue.hpp:38-97).
THEOREM QueuesAreFifo == Spec => ImplementsFifoQueues
<1>1. Init => Abstract!Init
  <2> SUFFICES ASSUME Init PROVE Abstract!Init
    OBVIOUS
  <2>1. [q \in Queues |-> Contents(q)] = [q \in Queues |-> << >>]
    BY DEF Init, Contents
  <2>2. [t \in Threads |-> pc[t] \in Pending] = [t \in Threads |-> FALSE]
    <3>1. \A t \in Threads : (pc[t] \in Pending) = FALSE
      BY DEF Init, Pending
    <3> QED
      BY <3>1, Zenon
  <2> QED
    BY <2>1, <2>2 DEF Init, Abstract!Init
<1>2. []Inv /\ [][Next]_vars => [][Abstract!Next]_(Abstract!vars)
  BY StepSimulation, PTL
<1> QED
  BY Invariance, <1>1, <1>2, PTL DEF Spec, ImplementsFifoQueues, Abstract!Spec
=============================================================================
