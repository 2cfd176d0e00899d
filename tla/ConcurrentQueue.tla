--------------------------- MODULE ConcurrentQueue ---------------------------
(***************************************************************************)
(* Common/Utils/include/ConcurrentQueue.h: a std::queue guarded by a mutex *)
(* and a condition variable, shared by any number of producers (push) and  *)
(* consumers (tryPop, waitAndPop with and without a time-out).             *)
(*                                                                         *)
(* One action per stretch of code between two points where another thread  *)
(* can be seen to run: taking the lock, each access of m_queue under it,   *)
(* giving the lock up (RAII), and the calls into the condition variable.   *)
(* The broadcast of push happens after the unlock, as in the code.         *)
(***************************************************************************)
EXTENDS Naturals, Sequences, FiniteSets

CONSTANTS Producers,    \* threads that call push
          Consumers,    \* threads that call tryPop or waitAndPop
          Elements,     \* what is queued; an element popped may come back
          NoElement,    \* the consumer's variable before it is assigned
          NoThread      \* m_mutex is free

Threads == Producers \cup Consumers

ASSUME ThreadsAssumption ==
    /\ Producers \cap Consumers = {}
    /\ NoThread \notin Threads
    /\ NoElement \notin Elements

VARIABLES m_queue,      \* the std::queue
          m_mutex,      \* the thread that holds the mutex, or NoThread
          pc,           \* where each thread is
          op,           \* op[c]: the pop operation consumer c is in
          data,         \* data[p]: the parameter of producer p's push
          poppedValue   \* poppedValue[c]: the reference parameter of the pops

vars == <<m_queue, m_mutex, pc, op, data, poppedValue>>

PopOps == {"tryPop", "waitAndPop", "waitAndPopTimeout"}

\* push: lock, insert under it, broadcast after it.
ProducerLabels == {"idle", "pushLock", "pushing", "notify"}
\* A pop: lock, test m_queue.empty(), then pop, give up, or wait. "returned"
\* is a pop that succeeded and whose caller still uses the element.
ConsumerLabels == {"idle", "popLock", "test", "pop", "blocking", "waiting",
                   "woken", "timedOut", "giveUp", "returned"}

\* Labels at which the thread is inside the critical section of m_mutex.
CriticalLabels == {"pushing", "test", "pop", "blocking", "giveUp"}

Waiters == {c \in Consumers : pc[c] = "waiting"}

InUse == {m_queue[i] : i \in 1..Len(m_queue)}
            \cup {data[p] : p \in Producers}
            \cup {poppedValue[c] : c \in Consumers}

Init == /\ m_queue = <<>>
        /\ m_mutex = NoThread
        /\ pc = [t \in Threads |-> "idle"]
        /\ op = [c \in Consumers |-> "tryPop"]
        /\ data = [p \in Producers |-> NoElement]
        /\ poppedValue = [c \in Consumers |-> NoElement]

Goto(t, from, to) == /\ pc[t] = from
                     /\ pc' = [pc EXCEPT ![t] = to]

Acquire(t) == m_mutex = NoThread /\ m_mutex' = t
Release == m_mutex' = NoThread
-----------------------------------------------------------------------------
\* Mutant of PushCall: the parameter is not kept.
PushCall_DropsData(p, e) ==
    /\ Goto(p, "idle", "pushLock")
    /\ e \notin InUse
    /\ UNCHANGED <<m_queue, m_mutex, op, data, poppedValue>>

PushCall(p, e) == /\ Goto(p, "idle", "pushLock")
                  /\ e \notin InUse
                  /\ data' = [data EXCEPT ![p] = e]
                  /\ UNCHANGED <<m_queue, m_mutex, op, poppedValue>>

PushLock(p) == /\ Goto(p, "pushLock", "pushing")
               /\ Acquire(p)
               /\ UNCHANGED <<m_queue, op, data, poppedValue>>

\* Mutant of PushInsert: no broadcast follows.
PushInsert_NoNotify(p) ==
    /\ Goto(p, "pushing", "idle")
    /\ m_queue' = Append(m_queue, data[p])
    /\ data' = [data EXCEPT ![p] = NoElement]
    /\ Release
    /\ UNCHANGED <<op, poppedValue>>

\* m_queue.push(data); lock.unlock()
PushInsert(p) == /\ Goto(p, "pushing", "notify")
                 /\ m_queue' = Append(m_queue, data[p])
                 /\ data' = [data EXCEPT ![p] = NoElement]
                 /\ Release
                 /\ UNCHANGED <<op, poppedValue>>

\* Mutant of PushBroadcast: only a push onto an empty queue wakes anybody.
PushBroadcast_OnlyFirst(p) ==
    /\ pc[p] = "notify"
    /\ pc' = [t \in Threads |-> IF t = p THEN "idle"
                                ELSE IF t \in Waiters /\ Len(m_queue) <= 1
                                     THEN "woken" ELSE pc[t]]
    /\ UNCHANGED <<m_queue, m_mutex, op, data, poppedValue>>

\* pal_thread_conditional_broadcast(m_condVar), with the mutex already free
PushBroadcast(p) ==
    /\ pc[p] = "notify"
    /\ pc' = [t \in Threads |-> IF t = p THEN "idle"
                                ELSE IF t \in Waiters THEN "woken" ELSE pc[t]]
    /\ UNCHANGED <<m_queue, m_mutex, op, data, poppedValue>>
-----------------------------------------------------------------------------
PopCall(c, o) == /\ Goto(c, "idle", "popLock")
                 /\ op' = [op EXCEPT ![c] = o]
                 /\ UNCHANGED <<m_queue, m_mutex, data, poppedValue>>

\* Mutant of PopLock: enters without waiting for the mutex.
PopLock_NoLock(c) == /\ Goto(c, "popLock", "test")
                     /\ m_mutex' = c
                     /\ UNCHANGED <<m_queue, op, data, poppedValue>>

PopLock(c) == /\ Goto(c, "popLock", "test")
              /\ Acquire(c)
              /\ UNCHANGED <<m_queue, op, data, poppedValue>>

\* if/while (m_queue.empty())
TestEmpty(c) ==
    /\ \/ m_queue # <<>> /\ Goto(c, "test", "pop")
       \/ m_queue = <<>> /\ op[c] = "tryPop" /\ Goto(c, "test", "giveUp")
       \/ m_queue = <<>> /\ op[c] # "tryPop" /\ Goto(c, "test", "blocking")
    /\ UNCHANGED <<m_queue, m_mutex, op, data, poppedValue>>

\* Mutant of PopFront: takes the newest element.
PopFront_Back(c) ==
    /\ Goto(c, "pop", "returned")
    /\ poppedValue' = [poppedValue EXCEPT ![c] = m_queue[Len(m_queue)]]
    /\ m_queue' = SubSeq(m_queue, 1, Len(m_queue) - 1)
    /\ Release
    /\ UNCHANGED <<op, data>>

\* poppedValue = m_queue.front(); m_queue.pop(); return true (unlocks)
PopFront(c) == /\ Goto(c, "pop", "returned")
               /\ poppedValue' = [poppedValue EXCEPT ![c] = Head(m_queue)]
               /\ m_queue' = Tail(m_queue)
               /\ Release
               /\ UNCHANGED <<op, data>>

\* return false (unlocks): tryPop found nothing, or the time-out expired
PopFail(c) == /\ Goto(c, "giveUp", "idle")
              /\ Release
              /\ UNCHANGED <<m_queue, op, data, poppedValue>>

\* pal_thread_conditional_wait: frees the mutex and blocks in one step
CondWait(c) == /\ Goto(c, "blocking", "waiting")
               /\ Release
               /\ UNCHANGED <<m_queue, op, data, poppedValue>>

\* The operating system may end the wait without a broadcast.
SpuriousWakeup(c) == /\ Goto(c, "waiting", "woken")
                     /\ UNCHANGED <<m_queue, m_mutex, op, data, poppedValue>>

TimeoutExpires(c) == /\ op[c] = "waitAndPopTimeout"
                     /\ Goto(c, "waiting", "timedOut")
                     /\ UNCHANGED <<m_queue, m_mutex, op, data, poppedValue>>

\* The wait takes the mutex again before it returns. Woken, the loop tests
\* the queue once more; timed out, the function returns false without a test.
Reacquire(c) == /\ \/ Goto(c, "woken", "test")
                   \/ Goto(c, "timedOut", "giveUp")
                /\ Acquire(c)
                /\ UNCHANGED <<m_queue, op, data, poppedValue>>

\* The caller is done with the element it popped.
Dispose(c) == /\ Goto(c, "returned", "idle")
              /\ poppedValue' = [poppedValue EXCEPT ![c] = NoElement]
              /\ UNCHANGED <<m_queue, m_mutex, op, data>>
-----------------------------------------------------------------------------
ProducerStep(p) == PushLock(p) \/ PushInsert(p) \/ PushBroadcast(p)

ConsumerStep(c) == \/ PopLock(c) \/ TestEmpty(c) \/ PopFront(c) \/ PopFail(c)
                   \/ CondWait(c) \/ Reacquire(c) \/ Dispose(c)

Next == \/ \E p \in Producers : \/ \E e \in Elements : PushCall(p, e)
                                \/ ProducerStep(p)
        \/ \E c \in Consumers : \/ \E o \in PopOps : PopCall(c, o)
                                \/ ConsumerStep(c)
                                \/ SpuriousWakeup(c)
                                \/ TimeoutExpires(c)

Spec == Init /\ [][Next]_vars

(* A thread that is inside an operation keeps running, and the mutex does   *)
(* not starve a thread that competes for it. No thread has to begin an      *)
(* operation and no wait has to end by itself.                              *)
Fairness ==
    /\ \A p \in Producers : WF_vars(ProducerStep(p)) /\ SF_vars(PushLock(p))
    /\ \A c \in Consumers : /\ WF_vars(ConsumerStep(c))
                            /\ SF_vars(PopLock(c) \/ Reacquire(c))

FairSpec == Spec /\ Fairness
-----------------------------------------------------------------------------
(* Every variable stays in its type.                                        *)
TypeOK == /\ m_queue \in Seq(Elements)
          /\ m_mutex \in Threads \cup {NoThread}
          /\ pc \in [Threads -> ProducerLabels \cup ConsumerLabels]
          /\ \A p \in Producers : pc[p] \in ProducerLabels
          /\ \A c \in Consumers : pc[c] \in ConsumerLabels
          /\ op \in [Consumers -> PopOps]
          /\ data \in [Producers -> Elements \cup {NoElement}]
          /\ \A p \in Producers :
                 pc[p] \in {"pushLock", "pushing"} => data[p] \in Elements
          /\ poppedValue \in [Consumers -> Elements \cup {NoElement}]

(* The mutex is held exactly by the thread inside the critical section: no  *)
(* two threads ever touch the std::queue at the same time.                  *)
MutualExclusion == \A t \in Threads : pc[t] \in CriticalLabels <=> m_mutex = t

(* What a thread learnt about the queue under the lock still holds when it  *)
(* acts on it: front() is never called on an empty queue and nobody goes to *)
(* sleep on a queue that has an element.                                    *)
TestStillValid == \A c \in Consumers :
    /\ pc[c] = "pop" => m_queue # <<>>
    /\ pc[c] = "blocking" => m_queue = <<>>

(* push broadcasts after it has unlocked; nevertheless no wake-up is lost:  *)
(* whenever an element is queued while a consumer sleeps, a producer is     *)
(* still on its way to the broadcast.                                       *)
NoLostWakeup ==
    m_queue # <<>> /\ Waiters # {} => \E p \in Producers : pc[p] = "notify"

(* The queue is a FIFO whose operations are atomic, whatever the            *)
(* interleaving of their lock, wait and broadcast steps.                    *)
Fifo == INSTANCE FifoQueue WITH fifo <- m_queue, got <- poppedValue
LinearizableFifo == Fifo!Spec

(* An element does not stay at the head of the queue while a consumer       *)
(* sleeps in the waitAndPop without time-out: somebody is woken and takes   *)
(* it. (A timed wait may end without looking at the queue again.)           *)
AtHead(e) == m_queue # <<>> /\ Head(m_queue) = e
SleepersServed == \A e \in Elements :
    (AtHead(e) /\ \E c \in Waiters : op[c] = "waitAndPop") ~> ~AtHead(e)
=============================================================================
