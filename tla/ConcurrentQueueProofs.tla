------------------------ MODULE ConcurrentQueueProofs ------------------------
(***************************************************************************)
(* Proofs about ConcurrentQueue for any number of producers, consumers and *)
(* elements: what its runs check on two of each holds for all of them.     *)
(*                                                                         *)
(* The safety properties depend on one another - an element popped is an   *)
(* element only because the queue was not empty, which holds only because  *)
(* of the mutex - so they are proved together, as one inductive invariant. *)
(***************************************************************************)
EXTENDS ConcurrentQueue, TLAPS

(* The critical sections and what was learnt in them.                       *)
Exclusion == MutualExclusion /\ TestStillValid

IInv == TypeOK /\ Exclusion
-----------------------------------------------------------------------------
(* The initial state satisfies the inductive invariant.                     *)
LEMMA InitInv == Init => IInv
BY ThreadsAssumption
   DEF Init, IInv, Exclusion, TypeOK, MutualExclusion, TestStillValid, Threads,
       ProducerLabels, ConsumerLabels, PopOps, CriticalLabels

(* Every step, of any thread, keeps the types. PopFront needs that the      *)
(* queue it pops from is not empty.                                         *)
LEMMA TypeStep == IInv /\ [Next]_vars => TypeOK'
<1> SUFFICES ASSUME IInv, [Next]_vars
             PROVE  TypeOK'
  OBVIOUS
<1> USE ThreadsAssumption DEF IInv, TypeOK, Goto, Acquire, Release, Threads,
                              ProducerLabels, ConsumerLabels, PopOps
<1>1. ASSUME NEW p \in Producers, NEW e \in Elements, PushCall(p, e)
      PROVE  TypeOK'
  BY <1>1 DEF PushCall
<1>2. ASSUME NEW p \in Producers, PushLock(p)
      PROVE  TypeOK'
  BY <1>2 DEF PushLock
<1>3. ASSUME NEW p \in Producers, PushInsert(p)
      PROVE  TypeOK'
  BY <1>3 DEF PushInsert
<1>4. ASSUME NEW p \in Producers, PushBroadcast(p)
      PROVE  TypeOK'
  BY <1>4 DEF PushBroadcast, Waiters
<1>5. ASSUME NEW c \in Consumers, NEW o \in PopOps, PopCall(c, o)
      PROVE  TypeOK'
  BY <1>5 DEF PopCall
<1>6. ASSUME NEW c \in Consumers, PopLock(c)
      PROVE  TypeOK'
  BY <1>6 DEF PopLock
<1>7. ASSUME NEW c \in Consumers, TestEmpty(c)
      PROVE  TypeOK'
  BY <1>7 DEF TestEmpty
<1>8. ASSUME NEW c \in Consumers, PopFront(c)
      PROVE  TypeOK'
  <2>1. m_queue # <<>>
    BY <1>8 DEF PopFront, Exclusion, TestStillValid
  <2>2. Head(m_queue) \in Elements /\ Tail(m_queue) \in Seq(Elements)
    BY <2>1
  <2> QED BY <1>8, <2>2 DEF PopFront
<1>9. ASSUME NEW c \in Consumers, PopFail(c)
      PROVE  TypeOK'
  BY <1>9 DEF PopFail
<1>10. ASSUME NEW c \in Consumers, CondWait(c)
       PROVE  TypeOK'
  BY <1>10 DEF CondWait
<1>11. ASSUME NEW c \in Consumers, SpuriousWakeup(c)
       PROVE  TypeOK'
  BY <1>11 DEF SpuriousWakeup
<1>12. ASSUME NEW c \in Consumers, TimeoutExpires(c)
       PROVE  TypeOK'
  BY <1>12 DEF TimeoutExpires
<1>13. ASSUME NEW c \in Consumers, Reacquire(c)
       PROVE  TypeOK'
  BY <1>13 DEF Reacquire
<1>14. ASSUME NEW c \in Consumers, Dispose(c)
       PROVE  TypeOK'
  BY <1>14 DEF Dispose
<1>15. CASE UNCHANGED vars
  BY <1>15 DEF vars
<1> QED
  BY <1>1, <1>2, <1>3, <1>4, <1>5, <1>6, <1>7, <1>8, <1>9, <1>10, <1>11, <1>12,
     <1>13, <1>14, <1>15 DEF Next, ProducerStep, ConsumerStep

(* A thread enters the critical section only when it takes the free mutex   *)
(* and gives it up when it leaves, and the queue changes only under it.     *)
LEMMA ExclusionStep == IInv /\ [Next]_vars => Exclusion'
<1> SUFFICES ASSUME IInv, [Next]_vars
             PROVE  Exclusion'
  OBVIOUS
<1> USE ThreadsAssumption DEF IInv, TypeOK, Exclusion, MutualExclusion,
        TestStillValid, CriticalLabels, Goto, Acquire, Release, Threads,
        ProducerLabels, ConsumerLabels
<1>1. ASSUME NEW p \in Producers, NEW e \in Elements, PushCall(p, e)
      PROVE  Exclusion'
  BY <1>1 DEF PushCall
<1>2. ASSUME NEW p \in Producers, PushLock(p)
      PROVE  Exclusion'
  BY <1>2 DEF PushLock
<1>3. ASSUME NEW p \in Producers, PushInsert(p)
      PROVE  Exclusion'
  <2>1. MutualExclusion'
    BY <1>3 DEF PushInsert
  <2>2. \A c \in Consumers : pc[c] \notin CriticalLabels /\ pc'[c] = pc[c]
    BY <1>3 DEF PushInsert
  <2> QED BY <2>1, <2>2
<1>4. ASSUME NEW p \in Producers, PushBroadcast(p)
      PROVE  Exclusion'
  BY <1>4 DEF PushBroadcast, Waiters
<1>5. ASSUME NEW c \in Consumers, NEW o \in PopOps, PopCall(c, o)
      PROVE  Exclusion'
  BY <1>5 DEF PopCall
<1>6. ASSUME NEW c \in Consumers, PopLock(c)
      PROVE  Exclusion'
  BY <1>6 DEF PopLock
<1>7. ASSUME NEW c \in Consumers, TestEmpty(c)
      PROVE  Exclusion'
  BY <1>7 DEF TestEmpty
<1>8. ASSUME NEW c \in Consumers, PopFront(c)
      PROVE  Exclusion'
  <2>1. MutualExclusion'
    BY <1>8 DEF PopFront
  <2>2. \A d \in Consumers : pc'[d] \notin {"pop", "blocking"}
    BY <1>8 DEF PopFront
  <2> QED BY <2>1, <2>2
<1>9. ASSUME NEW c \in Consumers, PopFail(c)
      PROVE  Exclusion'
  BY <1>9 DEF PopFail
<1>10. ASSUME NEW c \in Consumers, CondWait(c)
       PROVE  Exclusion'
  BY <1>10 DEF CondWait
<1>11. ASSUME NEW c \in Consumers, SpuriousWakeup(c)
       PROVE  Exclusion'
  BY <1>11 DEF SpuriousWakeup
<1>12. ASSUME NEW c \in Consumers, TimeoutExpires(c)
       PROVE  Exclusion'
  BY <1>12 DEF TimeoutExpires
<1>13. ASSUME NEW c \in Consumers, Reacquire(c)
       PROVE  Exclusion'
  BY <1>13 DEF Reacquire
<1>14. ASSUME NEW c \in Consumers, Dispose(c)
       PROVE  Exclusion'
  BY <1>14 DEF Dispose
<1>15. CASE UNCHANGED vars
  BY <1>15 DEF vars
<1> QED
  BY <1>1, <1>2, <1>3, <1>4, <1>5, <1>6, <1>7, <1>8, <1>9, <1>10, <1>11, <1>12,
     <1>13, <1>14, <1>15 DEF Next, ProducerStep, ConsumerStep

(* The inductive invariant holds in every reachable state.                  *)
THEOREM Invariance == Spec => []IInv
<1>1. IInv /\ [Next]_vars => IInv'
  BY TypeStep, ExclusionStep DEF IInv
<1> QED BY InitInv, <1>1, PTL DEF Spec

(* Every variable keeps its type: no pop ever hands out anything but an     *)
(* element that was pushed.                                                 *)
THEOREM TypeCorrect == Spec => []TypeOK
<1>1. IInv => TypeOK
  BY DEF IInv
<1> QED BY Invariance, <1>1, PTL

(* No two threads are inside the critical section at a time.                *)
THEOREM Exclusive == Spec => []MutualExclusion
<1>1. IInv => MutualExclusion
  BY DEF IInv, Exclusion
<1> QED BY Invariance, <1>1, PTL

(* front() is never called on an empty queue and nobody goes to sleep on a  *)
(* queue that has an element.                                               *)
THEOREM TestsStayValid == Spec => []TestStillValid
<1>1. IInv => TestStillValid
  BY DEF IInv, Exclusion
<1> QED BY Invariance, <1>1, PTL
-----------------------------------------------------------------------------
(* A consumer falls asleep only on an empty queue, a queue becomes non-     *)
(* empty only by a push, and the pusher stays at "notify" until it has      *)
(* woken all sleepers.                                                      *)
LEMMA WakeupStep == IInv /\ NoLostWakeup /\ [Next]_vars => NoLostWakeup'
<1> SUFFICES ASSUME IInv, NoLostWakeup, [Next]_vars
             PROVE  NoLostWakeup'
  OBVIOUS
<1> USE ThreadsAssumption DEF IInv, TypeOK, NoLostWakeup, Waiters, Goto, Acquire,
                              Release, Threads
<1>1. ASSUME NEW p \in Producers, NEW e \in Elements, PushCall(p, e)
      PROVE  NoLostWakeup'
  BY <1>1 DEF PushCall
<1>2. ASSUME NEW p \in Producers, PushLock(p)
      PROVE  NoLostWakeup'
  BY <1>2 DEF PushLock
<1>3. ASSUME NEW p \in Producers, PushInsert(p)
      PROVE  NoLostWakeup'
  <2>1. pc'[p] = "notify"
    BY <1>3 DEF PushInsert
  <2> QED BY <2>1
<1>4. ASSUME NEW p \in Producers, PushBroadcast(p)
      PROVE  NoLostWakeup'
  <2>1. \A c \in Consumers : pc'[c] # "waiting"
    BY <1>4 DEF PushBroadcast
  <2> QED BY <2>1
<1>5. ASSUME NEW c \in Consumers, NEW o \in PopOps, PopCall(c, o)
      PROVE  NoLostWakeup'
  BY <1>5 DEF PopCall
<1>6. ASSUME NEW c \in Consumers, PopLock(c)
      PROVE  NoLostWakeup'
  BY <1>6 DEF PopLock
<1>7. ASSUME NEW c \in Consumers, TestEmpty(c)
      PROVE  NoLostWakeup'
  BY <1>7 DEF TestEmpty
<1>8. ASSUME NEW c \in Consumers, PopFront(c)
      PROVE  NoLostWakeup'
  <2>1. m_queue # <<>>
    BY <1>8 DEF PopFront, Exclusion, TestStillValid
  <2>2. \A t \in Threads : pc'[t] # "returned" => pc'[t] = pc[t]
    BY <1>8 DEF PopFront
  <2>3. \A q \in Producers : pc[q] = "notify" => pc'[q] = "notify"
    BY <1>8 DEF PopFront
  <2> QED BY <2>1, <2>2, <2>3
<1>9. ASSUME NEW c \in Consumers, PopFail(c)
      PROVE  NoLostWakeup'
  BY <1>9 DEF PopFail
<1>10. ASSUME NEW c \in Consumers, CondWait(c)
       PROVE  NoLostWakeup'
  BY <1>10 DEF CondWait, Exclusion, TestStillValid
<1>11. ASSUME NEW c \in Consumers, SpuriousWakeup(c)
       PROVE  NoLostWakeup'
  BY <1>11 DEF SpuriousWakeup
<1>12. ASSUME NEW c \in Consumers, TimeoutExpires(c)
       PROVE  NoLostWakeup'
  BY <1>12 DEF TimeoutExpires
<1>13. ASSUME NEW c \in Consumers, Reacquire(c)
       PROVE  NoLostWakeup'
  BY <1>13 DEF Reacquire
<1>14. ASSUME NEW c \in Consumers, Dispose(c)
       PROVE  NoLostWakeup'
  BY <1>14 DEF Dispose
<1>15. CASE UNCHANGED vars
  BY <1>15 DEF vars
<1> QED
  BY <1>1, <1>2, <1>3, <1>4, <1>5, <1>6, <1>7, <1>8, <1>9, <1>10, <1>11, <1>12,
     <1>13, <1>14, <1>15 DEF Next, ProducerStep, ConsumerStep

(* The broadcast after the unlock loses no wake-up, for any number of       *)
(* producers and consumers.                                                 *)
THEOREM WakeupsKept == Spec => []NoLostWakeup
<1>1. Init => NoLostWakeup
  BY DEF Init, NoLostWakeup
<1> QED BY Invariance, <1>1, WakeupStep, PTL DEF Spec
-----------------------------------------------------------------------------
(* Who owns an element: the push it was given to, then the queue, then the  *)
(* consumer that popped it, never two of them. It is what makes the queue a *)
(* FIFO of elements that are handed over and not copied.                    *)
Ownership ==
    /\ \A p \in Producers : pc[p] \in {"pushLock", "pushing"} =>
          /\ \A i \in 1..Len(m_queue) : m_queue[i] # data[p]
          /\ \A c \in Consumers : poppedValue[c] # data[p]
          /\ \A q \in Producers \ {p} : data[q] # data[p]
    /\ \A c \in Consumers : pc[c] = "returned" <=> poppedValue[c] # NoElement

(* Elements enter a push only when nobody has them and then move on.        *)
LEMMA OwnershipStep == IInv /\ Ownership /\ [Next]_vars => Ownership'
<1> SUFFICES ASSUME IInv, Ownership, [Next]_vars
             PROVE  Ownership'
  OBVIOUS
<1> USE ThreadsAssumption DEF IInv, TypeOK, Ownership, Goto, Acquire, Release,
                              Threads, ProducerLabels, ConsumerLabels
<1>1. ASSUME NEW p \in Producers, NEW e \in Elements, PushCall(p, e)
      PROVE  Ownership'
  BY <1>1 DEF PushCall, InUse
<1>2. ASSUME NEW p \in Producers, PushLock(p)
      PROVE  Ownership'
  BY <1>2 DEF PushLock
<1>3. ASSUME NEW p \in Producers, PushInsert(p)
      PROVE  Ownership'
  <2>1. ASSUME NEW q \in Producers, pc'[q] \in {"pushLock", "pushing"}
        PROVE  /\ q # p /\ pc[q] \in {"pushLock", "pushing"}
               /\ data'[q] = data[q] /\ data[q] # data[p]
    BY <1>3, <2>1 DEF PushInsert
  <2>2. \A i \in 1..Len(m_queue') :
            m_queue'[i] = data[p] \/ \E j \in 1..Len(m_queue) : m_queue'[i] = m_queue[j]
    BY <1>3 DEF PushInsert
  <2>3. \A q \in Producers : data'[q] = data[q] \/ data'[q] = NoElement
    BY <1>3 DEF PushInsert
  <2>4. poppedValue' = poppedValue /\ \A c \in Consumers : pc'[c] = pc[c]
    BY <1>3 DEF PushInsert
  <2>5. ASSUME NEW q \in Producers, pc'[q] \in {"pushLock", "pushing"}
        PROVE  /\ \A i \in 1..Len(m_queue') : m_queue'[i] # data'[q]
               /\ \A c \in Consumers : poppedValue'[c] # data'[q]
               /\ \A r \in Producers \ {q} : data'[r] # data'[q]
    <3>1. pc[q] \in {"pushLock", "pushing"} /\ data'[q] = data[q]
          /\ data[q] # data[p] /\ data[q] # NoElement
      BY <2>1, <2>5
    <3> QED BY <3>1, <2>2, <2>3, <2>4
  <2> QED BY <2>4, <2>5
<1>4. ASSUME NEW p \in Producers, PushBroadcast(p)
      PROVE  Ownership'
  BY <1>4 DEF PushBroadcast, Waiters
<1>5. ASSUME NEW c \in Consumers, NEW o \in PopOps, PopCall(c, o)
      PROVE  Ownership'
  BY <1>5 DEF PopCall
<1>6. ASSUME NEW c \in Consumers, PopLock(c)
      PROVE  Ownership'
  BY <1>6 DEF PopLock
<1>7. ASSUME NEW c \in Consumers, TestEmpty(c)
      PROVE  Ownership'
  BY <1>7 DEF TestEmpty
<1>8. ASSUME NEW c \in Consumers, PopFront(c)
      PROVE  Ownership'
  <2>1. m_queue # <<>>
    BY <1>8 DEF PopFront, Exclusion, TestStillValid
  <2>2. Head(m_queue) = m_queue[1] /\ Head(m_queue) \in Elements
    BY <2>1
  <2>3. \A i \in 1..Len(m_queue') : i + 1 \in 1..Len(m_queue) /\ m_queue'[i] = m_queue[i + 1]
    BY <1>8, <2>1 DEF PopFront
  <2>4. \A q \in Producers : pc'[q] = pc[q] /\ data'[q] = data[q]
    BY <1>8 DEF PopFront
  <2>5. /\ poppedValue'[c] = m_queue[1] /\ pc'[c] = "returned"
        /\ \A d \in Consumers \ {c} : poppedValue'[d] = poppedValue[d] /\ pc'[d] = pc[d]
    BY <1>8, <2>2 DEF PopFront
  <2>6. ASSUME NEW q \in Producers, pc'[q] \in {"pushLock", "pushing"}
        PROVE  /\ \A i \in 1..Len(m_queue') : m_queue'[i] # data'[q]
               /\ \A d \in Consumers : poppedValue'[d] # data'[q]
               /\ \A r \in Producers \ {q} : data'[r] # data'[q]
    <3>1. 1 \in 1..Len(m_queue)
      BY <2>1
    <3> QED BY <2>3, <2>4, <2>5, <2>6, <3>1
  <2>7. \A d \in Consumers : pc'[d] = "returned" <=> poppedValue'[d] # NoElement
    BY <2>2, <2>5
  <2> QED BY <2>6, <2>7
<1>9. ASSUME NEW c \in Consumers, PopFail(c)
      PROVE  Ownership'
  BY <1>9 DEF PopFail
<1>10. ASSUME NEW c \in Consumers, CondWait(c)
       PROVE  Ownership'
  BY <1>10 DEF CondWait
<1>11. ASSUME NEW c \in Consumers, SpuriousWakeup(c)
       PROVE  Ownership'
  BY <1>11 DEF SpuriousWakeup
<1>12. ASSUME NEW c \in Consumers, TimeoutExpires(c)
       PROVE  Ownership'
  BY <1>12 DEF TimeoutExpires
<1>13. ASSUME NEW c \in Consumers, Reacquire(c)
       PROVE  Ownership'
  BY <1>13 DEF Reacquire
<1>14. ASSUME NEW c \in Consumers, Dispose(c)
       PROVE  Ownership'
  BY <1>14 DEF Dispose
<1>15. CASE UNCHANGED vars
  BY <1>15 DEF vars
<1> QED
  BY <1>1, <1>2, <1>3, <1>4, <1>5, <1>6, <1>7, <1>8, <1>9, <1>10, <1>11, <1>12,
     <1>13, <1>14, <1>15 DEF Next, ProducerStep, ConsumerStep

(* A push takes effect when the element is inserted, a pop when it is       *)
(* removed; every other step leaves the FIFO as it is.                      *)
LEMMA RefinementStep ==
    IInv /\ Ownership /\ [Next]_vars => [Fifo!Next]_(Fifo!fifoVars)
<1> SUFFICES ASSUME IInv, Ownership, [Next]_vars
             PROVE  Fifo!Next \/ UNCHANGED <<m_queue, poppedValue>>
  BY DEF Fifo!fifoVars
<1>1. ASSUME NEW p \in Producers, PushInsert(p)
      PROVE  Fifo!Push(data[p])
  <2>1. data[p] \notin Fifo!Owned
    BY <1>1 DEF PushInsert, Goto, IInv, TypeOK, Ownership, Fifo!Owned
  <2> QED BY <1>1, <2>1 DEF PushInsert, Fifo!Push
<1>2. ASSUME NEW c \in Consumers, PopFront(c)
      PROVE  Fifo!Pop(c)
  BY <1>2 DEF PopFront, Goto, IInv, Exclusion, TestStillValid, Ownership, Fifo!Pop
<1>3. ASSUME NEW c \in Consumers, Dispose(c)
      PROVE  Fifo!Dispose(c)
  BY <1>3 DEF Dispose, Goto, IInv, TypeOK, Ownership, Fifo!Dispose
<1>4. \A p \in Producers : PushInsert(p) => data[p] \in Elements
  BY DEF PushInsert, Goto, IInv, TypeOK
<1> QED
  BY <1>1, <1>2, <1>3, <1>4
     DEF Next, ProducerStep, ConsumerStep, Fifo!Next, PushCall, PushLock,
         PushBroadcast, PopCall, PopLock, TestEmpty, PopFail, CondWait,
         SpuriousWakeup, TimeoutExpires, Reacquire, vars

(* The queue is linearizable: with any number of threads it behaves as a    *)
(* FIFO whose operations are atomic.                                        *)
THEOREM Linearizable == Spec => LinearizableFifo
<1>1. Init => Ownership /\ Fifo!Init
  BY DEF Init, Ownership, Threads, ProducerLabels, Fifo!Init
<1> QED
  BY Invariance, <1>1, OwnershipStep, RefinementStep, PTL
     DEF Spec, LinearizableFifo, Fifo!Spec
=============================================================================
