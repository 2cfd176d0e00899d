-------------------------- MODULE JTCMonitorProofs --------------------------
(* Proofs about the monitor for any number of threads, any depth of nested  *)
(* locks and any number of notifications.                                   *)
EXTENDS JTCMonitor, TLAPS

(* Where a thread is says which of the mutexes it has.                      *)
Held == \A t \in MonThreads :
    /\ m_internal = t <=> monPc[t] = "lockCS"
    /\ m_lock = t <=> monPc[t] \in {"inside", "waitNotify", "waitReset", "waitUnlock"}
    /\ m_owner = t <=> monPc[t] \in {"lockCS", "inside", "waitNotify"}

(* The counter is the owner's depth, and a thread that has given it up will *)
(* ask for the depth it had.                                                *)
Deep ==
    /\ mutexCount = 0 <=> m_owner = NoOwner
    /\ \A t \in MonThreads :
        /\ monPc[t] \in {"inside", "waitNotify"} => mutexCount = depth[t]
        /\ monPc[t] = "lockCS" => mutexCount = want[t]
        /\ monPc[t] \in {"idle", "unlockNotify"} => depth[t] = 0
        /\ monPc[t] \in {"waitReset", "waiting", "woken", "waitUnlock", "lockTest",
                         "lockBlocked", "lockCS"} =>
              want[t] = IF depth[t] = 0 THEN 1 ELSE depth[t]

MonInv == MonTypeOK /\ Held /\ Deep /\ NotifiesAreSent
-----------------------------------------------------------------------------
(* Every step keeps every variable in its type.                             *)
LEMMA MonTypeStep == MonInv /\ [MonNext]_monVars => MonTypeOK'
<1> SUFFICES ASSUME MonInv, [MonNext]_monVars
             PROVE  MonTypeOK'
  OBVIOUS
<1> USE MonAssumption
    DEF MonInv, MonTypeOK, MonLabels, MonGoto, mutexVars, history
<1>1. CASE UNCHANGED monVars
  BY <1>1 DEF monVars
<1>2. ASSUME NEW t \in MonThreads, AcquireMonitor(t)
      PROVE  MonTypeOK'
  BY <1>2 DEF AcquireMonitor, ClaimMutex, MutexIsTaken, RetryLock, EnterMonitor
<1>3. ASSUME NEW t \in MonThreads, SignalOne(t)
      PROVE  MonTypeOK'
  <2>1. nnotify[t] \in 1..MaxNotify /\ owed[t] = nnotify[t]
    BY <1>3 DEF SignalOne, NotifiesAreSent
  <2>2. monPc' \in [MonThreads -> MonLabels]
    BY <1>3 DEF SignalOne, Waiting
  <2>3. nnotify' \in [MonThreads -> -1..MaxNotify] /\ owed' \in [MonThreads -> -1..MaxNotify]
    BY <1>3, <2>1 DEF SignalOne
  <2> QED
    BY <1>3, <2>2, <2>3 DEF SignalOne
<1>4. ASSUME NEW t \in MonThreads, Broadcast(t) \/ UnlockReturns(t)
      PROVE  MonTypeOK'
  BY <1>4 DEF Broadcast, UnlockReturns
<1>5. ASSUME NEW t \in MonThreads, ResetForWait(t)
      PROVE  MonTypeOK'
  <2>1. mutexCount \in 1..MaxDepth
    BY <1>5 DEF ResetForWait, Held, Deep
  <2> QED
    BY <1>5, <2>1 DEF ResetForWait
<1>6. ASSUME NEW t \in MonThreads,
             SleepInWait(t) \/ LeaveCondWait(t) \/ CondHelper(t) \/ CallLock(t)
      PROVE  MonTypeOK'
  BY <1>6 DEF SleepInWait, LeaveCondWait, CondHelper, CallLock
<1>7. ASSUME NEW t \in MonThreads, LockAgain(t) \/ UnlockNested(t)
      PROVE  MonTypeOK'
  <2>1. mutexCount = depth[t] /\ depth[t] \in 0..MaxDepth
    BY <1>7 DEF LockAgain, UnlockNested, Deep
  <2> QED
    BY <1>7, <2>1 DEF LockAgain, UnlockNested
<1>8. ASSUME NEW t \in MonThreads, Notify(t)
      PROVE  MonTypeOK'
  <2>1. owed[t] = m_nnotify
    BY <1>8 DEF Notify, NotifiesAreSent
  <2> QED
    BY <1>8, <2>1 DEF Notify
<1>9. ASSUME NEW t \in MonThreads,
             NotifyAll(t) \/ UnlockMonitor(t) \/ CallWait(t) \/ WaitExpires(t)
      PROVE  MonTypeOK'
  BY <1>9 DEF NotifyAll, UnlockMonitor, CallWait, WaitExpires
<1> QED
  BY <1>1, <1>2, <1>3, <1>4, <1>5, <1>6, <1>7, <1>8, <1>9
  DEF MonNext, GiveUp, CallMonitor
-----------------------------------------------------------------------------
(* Every step keeps the mutexes with the threads that should have them.     *)
LEMMA HeldStep == MonInv /\ [MonNext]_monVars => Held' /\ Deep'
<1> SUFFICES ASSUME MonInv, [MonNext]_monVars
             PROVE  Held' /\ Deep'
  OBVIOUS
<1>0. MonTypeOK /\ Held /\ Deep
  BY DEF MonInv
<1> USE <1>0, MonAssumption
    DEF MonTypeOK, MonLabels, MonGoto, mutexVars, history, Held, Deep
<1>1. CASE UNCHANGED monVars
  BY <1>1 DEF monVars
<1>2. ASSUME NEW t \in MonThreads, ClaimMutex(t)
      PROVE  Held' /\ Deep'
  BY <1>2 DEF ClaimMutex
<1>3. ASSUME NEW t \in MonThreads, MutexIsTaken(t) \/ RetryLock(t)
      PROVE  Held' /\ Deep'
  BY <1>3 DEF MutexIsTaken, RetryLock
<1>4. ASSUME NEW t \in MonThreads, EnterMonitor(t)
      PROVE  Held' /\ Deep'
  BY <1>4 DEF EnterMonitor
<1>5. ASSUME NEW t \in MonThreads, SignalOne(t) \/ Broadcast(t) \/ UnlockReturns(t)
      PROVE  Held' /\ Deep'
  BY <1>5 DEF SignalOne, Broadcast, UnlockReturns, Waiting
<1>6. ASSUME NEW t \in MonThreads, ResetForWait(t)
      PROVE  Held' /\ Deep'
  BY <1>6 DEF ResetForWait
<1>7. ASSUME NEW t \in MonThreads,
             SleepInWait(t) \/ LeaveCondWait(t) \/ CondHelper(t)
      PROVE  Held' /\ Deep'
  BY <1>7 DEF SleepInWait, LeaveCondWait, CondHelper
<1>8. ASSUME NEW t \in MonThreads, LockAgain(t) \/ UnlockNested(t)
      PROVE  Held' /\ Deep'
  BY <1>8 DEF LockAgain, UnlockNested
<1>9. ASSUME NEW t \in MonThreads, UnlockMonitor(t)
      PROVE  Held' /\ Deep'
  BY <1>9 DEF UnlockMonitor
<1>10. ASSUME NEW t \in MonThreads,
              \/ CallLock(t) \/ Notify(t) \/ NotifyAll(t)
              \/ CallWait(t) \/ WaitExpires(t)
       PROVE  Held' /\ Deep'
  BY <1>10 DEF CallLock, Notify, NotifyAll, CallWait, WaitExpires
<1> QED
  BY <1>1, <1>2, <1>3, <1>4, <1>5, <1>6, <1>7, <1>8, <1>9, <1>10
  DEF MonNext, AcquireMonitor, GiveUp, CallMonitor
-----------------------------------------------------------------------------
(* Every step keeps the account of the notifications.                       *)
LEMMA OwedStep == MonInv /\ [MonNext]_monVars => NotifiesAreSent'
<1> SUFFICES ASSUME MonInv, [MonNext]_monVars
             PROVE  NotifiesAreSent'
  OBVIOUS
<1>0. MonTypeOK /\ Held /\ NotifiesAreSent
  BY DEF MonInv
<1> USE <1>0, MonAssumption
    DEF MonTypeOK, MonLabels, MonGoto, mutexVars, history, NotifiesAreSent
<1>1. CASE UNCHANGED monVars
  BY <1>1 DEF monVars
<1>2. ASSUME NEW t \in MonThreads,
             \/ ClaimMutex(t) \/ MutexIsTaken(t) \/ RetryLock(t) \/ CallLock(t)
             \/ ResetForWait(t) \/ SleepInWait(t) \/ LeaveCondWait(t)
             \/ CondHelper(t) \/ WaitExpires(t) \/ LockAgain(t) \/ UnlockNested(t)
             \/ UnlockReturns(t)
      PROVE  NotifiesAreSent'
  BY <1>2 DEF ClaimMutex, MutexIsTaken, RetryLock, CallLock, ResetForWait,
     SleepInWait, LeaveCondWait, CondHelper, WaitExpires, LockAgain,
     UnlockNested, UnlockReturns
<1>3. ASSUME NEW t \in MonThreads, EnterMonitor(t)
      PROVE  NotifiesAreSent'
  <2>1. \A u \in MonThreads : monPc[u] # "inside"
    BY <1>3 DEF EnterMonitor, Held
  <2> QED
    BY <1>3, <2>1 DEF EnterMonitor
<1>4. ASSUME NEW t \in MonThreads, Notify(t) \/ NotifyAll(t)
      PROVE  NotifiesAreSent'
  <2>1. \A u \in MonThreads : monPc[u] = "inside" => u = t
    BY <1>4 DEF Notify, NotifyAll, Held
  <2> QED
    BY <1>4, <2>1 DEF Notify, NotifyAll
<1>5. ASSUME NEW t \in MonThreads, SignalOne(t)
      PROVE  NotifiesAreSent'
  BY <1>5 DEF SignalOne, Waiting
<1>6. ASSUME NEW t \in MonThreads, Broadcast(t)
      PROVE  NotifiesAreSent'
  BY <1>6 DEF Broadcast
<1>7. ASSUME NEW t \in MonThreads, UnlockMonitor(t) \/ CallWait(t)
      PROVE  NotifiesAreSent'
  BY <1>7 DEF UnlockMonitor, CallWait
<1> QED
  BY <1>1, <1>2, <1>3, <1>4, <1>5, <1>6, <1>7
  DEF MonNext, AcquireMonitor, GiveUp, CallMonitor
-----------------------------------------------------------------------------
(* The invariant of the monitor.                                            *)
THEOREM MonInvariant == MonSpec => []MonInv
<1>1. MonInit => MonInv
  <2> SUFFICES ASSUME MonInit PROVE MonInv
    OBVIOUS
  <2>1. MonTypeOK
    BY MonAssumption DEF MonInit, MonTypeOK, MonLabels
  <2>2. Held /\ Deep /\ NotifiesAreSent
    BY MonAssumption DEF MonInit, Held, Deep, NotifiesAreSent
  <2> QED
    BY <2>1, <2>2 DEF MonInv
<1>2. MonInv /\ [MonNext]_monVars => MonInv'
  BY MonTypeStep, HeldStep, OwedStep DEF MonInv
<1> QED
  BY <1>1, <1>2, PTL DEF MonSpec

(* Every variable of the monitor keeps its type, at any depth.              *)
THEOREM MonTypeCorrect == MonSpec => []MonTypeOK
  BY MonInvariant, PTL DEF MonInv

(* The thread in the critical section owns the monitor, the pthread mutex   *)
(* and the counter, and after a wait the counter is what it was before.     *)
THEOREM MonitorIsHeld == MonSpec => []MonitorHeld
<1>1. MonInv => MonitorHeld
  BY DEF MonInv, Held, Deep, MonitorHeld
<1> QED
  BY <1>1, MonInvariant, PTL

(* No notification that was asked for is lost.                              *)
THEOREM NotificationsKept == MonSpec => []NotifiesAreSent
  BY MonInvariant, PTL DEF MonInv

(* The two mutexes inside the monitor never wait for each other.            *)
THEOREM LocksOrdered == MonSpec => []LockOrder
<1>1. MonInv => LockOrder
  BY MonAssumption DEF MonInv, MonTypeOK, Held, LockOrder
<1> QED
  BY <1>1, MonInvariant, PTL
=============================================================================
