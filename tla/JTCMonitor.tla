----------------------------- MODULE JTCMonitor -----------------------------
(* JTCMonitor: a recursive mutex and a condition variable with the Mesa     *)
(* rule that notify and notifyAll are only counted while the monitor is     *)
(* held and signalled when it is given up, by unlock or by wait. The mutex  *)
(* is itself two pthread mutexes: m_internal, which guards its counter, and *)
(* m_lock, which its owner holds and on which the others wait.              *)
EXTENDS Integers, FiniteSets

CONSTANTS
    MonThreads,
    NoOwner,        \* the null thread id
    MaxDepth,       \* bound: how often one thread locks the monitor
    MaxNotify       \* bound: calls of notify in one critical section

ASSUME MonAssumption == /\ NoOwner \notin MonThreads
                        /\ MaxDepth \in Nat \ {0}
                        /\ MaxNotify \in Nat \ {0}

VARIABLES
    m_internal,     \* who holds JTCRecursiveMutex::m_internal over a step
    m_lock,         \* who holds the pthread mutex JTCRecursiveMutex::m_lock
    mutexCount,     \* JTCRecursiveMutex::m_count
    m_owner,
    m_nnotify,      \* notifications asked for, -1: a broadcast
    want,           \* the argument of each thread's lock_internal
    nnotify,        \* the notifications each thread has yet to signal
    monPc,
    depth,          \* history: how often each thread has locked the monitor
    owed            \* history: what each thread asked for and nobody signalled

mutexVars == <<m_internal, m_lock, mutexCount, m_owner>>
history == <<depth, owed>>
monVars == <<mutexVars, m_nnotify, want, nnotify, monPc, history>>

(* "lockTest" is about to take m_internal, "lockCS" holds it and waits for  *)
(* m_lock, "lockBlocked" waits for m_lock only to try again. "inside" is    *)
(* the caller's critical section. "unlockNotify" and "waitNotify" signal;   *)
(* "waitReset" has given up the counter and not yet m_lock, "waiting" is in *)
(* pthread_cond_wait, "woken" needs m_lock to leave it, "waitUnlock" is in  *)
(* the destructor of JTCCondHelper.                                         *)
MonLabels == {"idle", "lockTest", "lockCS", "lockBlocked", "inside",
              "unlockNotify", "waitNotify", "waitReset", "waiting", "woken",
              "waitUnlock"}

MonInit == /\ m_internal = NoOwner
           /\ m_lock = NoOwner
           /\ mutexCount = 0
           /\ m_owner = NoOwner
           /\ m_nnotify = 0
           /\ want = [t \in MonThreads |-> 1]
           /\ nnotify = [t \in MonThreads |-> 0]
           /\ monPc = [t \in MonThreads |-> "idle"]
           /\ depth = [t \in MonThreads |-> 0]
           /\ owed = [t \in MonThreads |-> 0]

MonGoto(t, from, to) == monPc[t] = from /\ monPc' = [monPc EXCEPT ![t] = to]
-----------------------------------------------------------------------------
\* JTCMonitor::lock on a monitor the caller does not hold.
CallLock(t) == /\ MonGoto(t, "idle", "lockTest")
               /\ want' = [want EXCEPT ![t] = 1]
               /\ UNCHANGED <<mutexVars, m_nnotify, nnotify, history>>

\* lock_internal finds the counter zero and claims it, m_internal still held.
ClaimMutex(t) == /\ MonGoto(t, "lockTest", "lockCS")
                 /\ m_internal = NoOwner /\ mutexCount = 0
                 /\ m_internal' = t
                 /\ mutexCount' = want[t]
                 /\ m_owner' = t
                 /\ UNCHANGED <<m_lock, m_nnotify, want, nnotify, history>>

\* lock_internal finds another owner.
MutexIsTaken(t) == /\ MonGoto(t, "lockTest", "lockBlocked")
                   /\ m_internal = NoOwner /\ mutexCount # 0
                   /\ UNCHANGED <<mutexVars, m_nnotify, want, nnotify, history>>

\* pthread_mutex_lock and pthread_mutex_unlock of m_lock, then once more.
RetryLock(t) == /\ MonGoto(t, "lockBlocked", "lockTest")
                /\ m_lock = NoOwner
                /\ UNCHANGED <<mutexVars, m_nnotify, want, nnotify, history>>

(* m_lock is free: lock_internal returns. The pending notifications are     *)
(* forgotten, by lock after the first acquisition and by wait at its end.   *)
EnterMonitor(t) == /\ MonGoto(t, "lockCS", "inside")
                   /\ m_lock = NoOwner
                   /\ m_lock' = t
                   /\ m_internal' = NoOwner
                   /\ m_nnotify' = 0
                   /\ depth' = [depth EXCEPT ![t] = IF @ = 0 THEN 1 ELSE @]
                   /\ UNCHANGED <<mutexCount, m_owner, want, nnotify, owed>>
-----------------------------------------------------------------------------
LockAgain(t) == /\ monPc[t] = "inside" /\ depth[t] < MaxDepth
                /\ m_internal = NoOwner
                /\ mutexCount' = mutexCount + 1
                /\ depth' = [depth EXCEPT ![t] = @ + 1]
                /\ UNCHANGED <<m_internal, m_lock, m_owner, m_nnotify, want,
                               nnotify, monPc, owed>>

\* Mutant of Notify: a notify after notifyAll counts on from the broadcast.
Notify_OverBroadcast(t) ==
    /\ monPc[t] = "inside" /\ m_nnotify < MaxNotify
    /\ m_nnotify' = m_nnotify + 1
    /\ owed' = [owed EXCEPT ![t] = IF @ = -1 THEN -1 ELSE @ + 1]
    /\ UNCHANGED <<mutexVars, want, nnotify, monPc, depth>>

Notify(t) == /\ monPc[t] = "inside" /\ m_nnotify < MaxNotify
             /\ m_nnotify' = IF m_nnotify = -1 THEN -1 ELSE m_nnotify + 1
             /\ owed' = [owed EXCEPT ![t] = IF @ = -1 THEN -1 ELSE @ + 1]
             /\ UNCHANGED <<mutexVars, want, nnotify, monPc, depth>>

NotifyAll(t) == /\ monPc[t] = "inside"
                /\ m_nnotify' = -1
                /\ owed' = [owed EXCEPT ![t] = -1]
                /\ UNCHANGED <<mutexVars, want, nnotify, monPc, depth>>

\* --m_count is not zero: the inner unlock of a nested lock signals nothing.
UnlockNested(t) == /\ monPc[t] = "inside" /\ mutexCount > 1
                   /\ m_internal = NoOwner
                   /\ mutexCount' = mutexCount - 1
                   /\ depth' = [depth EXCEPT ![t] = @ - 1]
                   /\ UNCHANGED <<m_internal, m_lock, m_owner, m_nnotify, want,
                                  nnotify, monPc, owed>>

\* The pending notifications are read before the mutex is given up.
UnlockMonitor(t) == /\ MonGoto(t, "inside", "unlockNotify")
                    /\ mutexCount = 1
                    /\ m_internal = NoOwner
                    /\ mutexCount' = 0
                    /\ m_owner' = NoOwner
                    /\ m_lock' = NoOwner
                    /\ nnotify' = [nnotify EXCEPT ![t] = m_nnotify]
                    /\ depth' = [depth EXCEPT ![t] = 0]
                    /\ UNCHANGED <<m_internal, m_nnotify, want, owed>>

CallWait(t) == /\ MonGoto(t, "inside", "waitNotify")
               /\ nnotify' = [nnotify EXCEPT ![t] = m_nnotify]
               /\ UNCHANGED <<mutexVars, m_nnotify, want, history>>
-----------------------------------------------------------------------------
Waiting == {t \in MonThreads : monPc[t] = "waiting"}

\* Mutant of SignalOne: the loop is entered for a broadcast, too.
SignalOne_AlsoBroadcast(t) ==
    /\ monPc[t] \in {"unlockNotify", "waitNotify"} /\ nnotify[t] # 0
    /\ nnotify' = [nnotify EXCEPT ![t] = @ - 1]
    /\ owed' = [owed EXCEPT ![t] = @ - 1]
    /\ \/ Waiting = {} /\ UNCHANGED monPc
       \/ \E u \in Waiting : monPc' = [monPc EXCEPT ![u] = "woken"]
    /\ UNCHANGED <<mutexVars, m_nnotify, want, depth>>

\* One round of notify_internal's loop.
SignalOne(t) ==
    /\ monPc[t] \in {"unlockNotify", "waitNotify"} /\ nnotify[t] > 0
    /\ nnotify' = [nnotify EXCEPT ![t] = @ - 1]
    /\ owed' = [owed EXCEPT ![t] = @ - 1]
    /\ \/ Waiting = {} /\ UNCHANGED monPc
       \/ \E u \in Waiting : monPc' = [monPc EXCEPT ![u] = "woken"]
    /\ UNCHANGED <<mutexVars, m_nnotify, want, depth>>

Broadcast(t) ==
    /\ monPc[t] \in {"unlockNotify", "waitNotify"} /\ nnotify[t] = -1
    /\ nnotify' = [nnotify EXCEPT ![t] = 0]
    /\ owed' = [owed EXCEPT ![t] = 0]
    /\ monPc' = [u \in MonThreads |->
                   IF monPc[u] = "waiting" THEN "woken" ELSE monPc[u]]
    /\ UNCHANGED <<mutexVars, m_nnotify, want, depth>>

UnlockReturns(t) == /\ MonGoto(t, "unlockNotify", "idle")
                    /\ nnotify[t] = 0
                    /\ UNCHANGED <<mutexVars, m_nnotify, want, nnotify, history>>

\* Mutant of ResetForWait: the counter is given back one level deep only.
ResetForWait_OneLevel(t) ==
    /\ MonGoto(t, "waitNotify", "waitReset")
    /\ nnotify[t] = 0 /\ m_internal = NoOwner
    /\ want' = [want EXCEPT ![t] = 1]
    /\ mutexCount' = 0
    /\ m_owner' = NoOwner
    /\ UNCHANGED <<m_internal, m_lock, m_nnotify, nnotify, history>>

\* reset_for_condvar, m_lock is still held.
ResetForWait(t) == /\ MonGoto(t, "waitNotify", "waitReset")
                   /\ nnotify[t] = 0 /\ m_internal = NoOwner
                   /\ want' = [want EXCEPT ![t] = mutexCount]
                   /\ mutexCount' = 0
                   /\ m_owner' = NoOwner
                   /\ UNCHANGED <<m_internal, m_lock, m_nnotify, nnotify, history>>

\* pthread_cond_wait: m_lock is released and the thread sleeps, in one step.
SleepInWait(t) == /\ MonGoto(t, "waitReset", "waiting")
                  /\ m_lock' = NoOwner
                  /\ UNCHANGED <<m_internal, mutexCount, m_owner, m_nnotify,
                                 want, nnotify, history>>

\* wait(timeout) gives up, or the condition variable wakes without a signal.
WaitExpires(t) == /\ MonGoto(t, "waiting", "woken")
                  /\ UNCHANGED <<mutexVars, m_nnotify, want, nnotify, history>>

LeaveCondWait(t) == /\ MonGoto(t, "woken", "waitUnlock")
                    /\ m_lock = NoOwner
                    /\ m_lock' = t
                    /\ UNCHANGED <<m_internal, mutexCount, m_owner, m_nnotify,
                                   want, nnotify, history>>

\* Mutant of CondHelper: the destructor locks the mutex with m_lock held.
CondHelper_LocksFirst(t) ==
    /\ MonGoto(t, "waitUnlock", "lockTest")
    /\ UNCHANGED <<mutexVars, m_nnotify, want, nnotify, history>>

\* ~JTCCondHelper: m_lock is released and the mutex locked "rationally".
CondHelper(t) == /\ MonGoto(t, "waitUnlock", "lockTest")
                 /\ m_lock' = NoOwner
                 /\ UNCHANGED <<m_internal, mutexCount, m_owner, m_nnotify,
                                want, nnotify, history>>
-----------------------------------------------------------------------------
AcquireMonitor(t) == ClaimMutex(t) \/ MutexIsTaken(t) \/ RetryLock(t) \/ EnterMonitor(t)

GiveUp(t) == \/ SignalOne(t) \/ Broadcast(t) \/ UnlockReturns(t)
             \/ ResetForWait(t) \/ SleepInWait(t)
             \/ LeaveCondWait(t) \/ CondHelper(t)

CallMonitor(t) == \/ CallLock(t) \/ LockAgain(t) \/ Notify(t) \/ NotifyAll(t)
                  \/ UnlockNested(t) \/ UnlockMonitor(t) \/ CallWait(t)
                  \/ WaitExpires(t)

MonNext == \E t \in MonThreads : AcquireMonitor(t) \/ GiveUp(t) \/ CallMonitor(t)

MonSpec == MonInit /\ [][MonNext]_monVars
-----------------------------------------------------------------------------
(* Every variable stays in its type.                                        *)
MonTypeOK ==
    /\ m_internal \in MonThreads \cup {NoOwner}
    /\ m_lock \in MonThreads \cup {NoOwner}
    /\ m_owner \in MonThreads \cup {NoOwner}
    /\ mutexCount \in 0..MaxDepth
    /\ m_nnotify \in -1..MaxNotify
    /\ want \in [MonThreads -> 1..MaxDepth]
    /\ nnotify \in [MonThreads -> -1..MaxNotify]
    /\ monPc \in [MonThreads -> MonLabels]
    /\ depth \in [MonThreads -> 0..MaxDepth]
    /\ owed \in [MonThreads -> -1..MaxNotify]

(* A thread in its critical section owns the monitor alone, as deep as it   *)
(* locked it, also after a wait gave it up at any depth in between: the     *)
(* counter, the owner and the pthread mutex agree although they are taken   *)
(* and released in different steps by lock, unlock and the wait.            *)
MonitorHeld == \A t \in MonThreads :
    monPc[t] \in {"inside", "waitNotify"} =>
        /\ m_owner = t /\ m_lock = t
        /\ mutexCount = depth[t]

(* Every notify and notifyAll is signalled before its unlock returns or its *)
(* wait begins: what was asked for is never lost with the reset of          *)
(* m_nnotify by the next thread that enters.                                *)
NotifiesAreSent == \A t \in MonThreads :
    /\ monPc[t] = "inside" => owed[t] = m_nnotify
    /\ monPc[t] \in {"unlockNotify", "waitNotify"} => owed[t] = nnotify[t]
    /\ monPc[t] \notin {"inside", "unlockNotify", "waitNotify"} => owed[t] = 0

(* The two pthread mutexes inside never keep each other's holders waiting:  *)
(* lock takes m_internal and then m_lock, the end of wait has m_lock and    *)
(* then needs m_internal, and yet whoever has m_internal waits for nobody,  *)
(* or for a thread that gives m_lock back without asking for m_internal.    *)
LockOrder ==
    /\ m_internal # NoOwner => monPc[m_internal] = "lockCS"
    /\ (m_internal # NoOwner /\ m_lock # NoOwner) =>
         monPc[m_lock] \in {"waitReset", "waitUnlock"}
=============================================================================
