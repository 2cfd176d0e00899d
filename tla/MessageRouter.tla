---------------------------- MODULE MessageRouter ----------------------------
(***************************************************************************)
(* CV3/Modules/MessageRouter: the thread that takes reply packets from a   *)
(* queue and calls every registered MessageListener with each of them.     *)
(*                                                                         *)
(* Three kinds of threads meet here. The router thread runs                *)
(* routerThreadMain. Notifiers (the reader threads of the connections)     *)
(* call receivedNGPPacket. Controllers (application threads) call          *)
(* startThread, stopThread, registerListener, deregisterListener and, one  *)
(* of them at last, the destructor. m_messageQueue is a ConcurrentQueue,   *)
(* whose operations are atomic (LinearizableFifo in ConcurrentQueue.tla).  *)
(*                                                                         *)
(* m_listeners is a std::set without a lock. Its iteration order is the    *)
(* order of the listeners' addresses, so a listener is a natural number.   *)
(***************************************************************************)
EXTENDS Naturals, Sequences

CONSTANTS Notifiers,        \* threads that call receivedNGPPacket
          Controllers,      \* threads that start, stop and destroy the router
          Router,           \* the router thread
          Packets,          \* reply packets; one that was deleted may return
          Listeners,        \* addresses of MessageListeners
          InitStayAlive,    \* what the constructor may leave in m_stayAlive
          ControllerCalls,  \* the methods controllers call
          Registration,     \* when (de)registerListener is called
          NoThread, NoPacket,
          End               \* m_listeners.end()

Clients == Notifiers \cup Controllers
Threads == Clients \cup {Router}
Methods == {"start", "stop", "stopAndJoin", "destroy"}
(* quiescent: by an application thread, while the router is not calling     *)
(* listeners. othersInCallback: by a listener that is being called, about   *)
(* another one. selfInCallback: by a listener that is being called, about   *)
(* itself. concurrent: by an application thread at any time.                *)
Occasions == {"quiescent", "othersInCallback", "selfInCallback", "concurrent"}

ASSUME ThreadsAssumption ==
    /\ Router \notin Clients
    /\ Notifiers \cap Controllers = {}
    /\ NoThread \notin Threads
ASSUME DataAssumption ==
    /\ NoPacket \notin Packets
    /\ Listeners \subseteq Nat
    /\ End \notin Nat
ASSUME UseAssumption ==
    /\ InitStayAlive \subseteq BOOLEAN
    /\ ControllerCalls \subseteq Methods
    /\ Registration \subseteq Occasions

VARIABLES m_messageQueue,   \* packets waiting for the router thread
          m_listeners,      \* the registered listeners
          m_stayAlive,      \* true while the router thread should keep running
          m_routeMutex,     \* the thread that holds it, or NoThread
          routerPc,         \* where the router thread is
          res,              \* the packet checkQueue popped, or NoPacket
          it,               \* checkQueue's iterator over m_listeners
          itValid,          \* the set has not been changed under the iterator
          pc,               \* where each client is
          call,             \* call[c]: the method controller c is in
          lifetime          \* of the MessageRouter object

queueVars == <<m_messageQueue, res>>
iterVars == <<it, itValid>>
clientVars == <<pc, call>>
vars == <<m_messageQueue, m_listeners, m_stayAlive, m_routeMutex, routerPc,
          res, it, itValid, pc, call, lifetime>>

RouterLabels == {"new", "top", "check", "pop", "dispatch", "callback",
                 "lock", "guard", "waiting", "woken", "exited"}
ClientLabels == {"idle", "push", "notifyLock", "signal", "startLock", "starting",
                 "stopLock", "stopping", "stopSignal", "join"}

\* The iterator that points to the first listener of S, or end().
FirstOf(S, i) == IF S = {} THEN i = End
                 ELSE i \in S /\ \A l \in S : i <= l

InUse == {m_messageQueue[i] : i \in 1..Len(m_messageQueue)} \cup {res}
ThreadActive == routerPc \notin {"new", "exited"}
Dispatching == routerPc \in {"dispatch", "callback"}

(* m_stayAlive is not assigned in the constructor.                          *)
Init == /\ m_messageQueue = <<>>
        /\ m_listeners = {}
        /\ m_stayAlive \in InitStayAlive
        /\ m_routeMutex = NoThread
        /\ routerPc = "new"
        /\ res = NoPacket
        /\ it = End
        /\ itValid = TRUE
        /\ pc = [c \in Clients |-> "idle"]
        /\ call = [c \in Controllers |-> "start"]
        /\ lifetime = "alive"

Acquire(t) == m_routeMutex = NoThread /\ m_routeMutex' = t
Release == m_routeMutex' = NoThread

\* A client goes on. What it does with an object that has been destroyed is
\* undefined and not followed.
Goto(c, from, to) == /\ lifetime # "destroyed"
                     /\ pc[c] = from
                     /\ pc' = [pc EXCEPT ![c] = to]
RouterGoto(from, to) == routerPc = from /\ routerPc' = to

\* pal_thread_conditional_signal: wakes the router thread if it waits, and is
\* forgotten if it does not.
Signal == routerPc' = IF routerPc = "waiting" THEN "woken" ELSE routerPc
-----------------------------------------------------------------------------
(* The router thread *)

\* while (m_stayAlive), read without the mutex
ReadStayAlive ==
    /\ \/ m_stayAlive /\ RouterGoto("top", "check")
       \/ ~m_stayAlive /\ RouterGoto("top", "exited")
    /\ UNCHANGED <<queueVars, m_listeners, m_stayAlive, m_routeMutex, iterVars,
                   clientVars, lifetime>>

\* checkQueue: if (empty()) return, and while (!empty())
CheckEmpty ==
    /\ \/ m_messageQueue = <<>> /\ RouterGoto("check", "lock")
       \/ m_messageQueue # <<>> /\ RouterGoto("check", "pop")
    /\ UNCHANGED <<queueVars, m_listeners, m_stayAlive, m_routeMutex, iterVars,
                   clientVars, lifetime>>

\* tryPop(res), it = m_listeners.begin()
TryPop ==
    /\ RouterGoto("pop", "dispatch")
    /\ m_messageQueue # <<>>
    /\ res' = Head(m_messageQueue)
    /\ m_messageQueue' = Tail(m_messageQueue)
    /\ it' \in Listeners \cup {End}
    /\ FirstOf(m_listeners, it')
    /\ itValid' = TRUE
    /\ UNCHANGED <<m_listeners, m_stayAlive, m_routeMutex, clientVars, lifetime>>

\* (*it)->processSystemMessage(*res)
CallListener ==
    /\ RouterGoto("dispatch", "callback")
    /\ it # End
    /\ UNCHANGED <<queueVars, m_listeners, m_stayAlive, m_routeMutex, iterVars,
                   clientVars, lifetime>>

\* The listener returns; ++it. With the node under the iterator erased, or
\* the tree changed by another thread, the increment may lead anywhere.
AdvanceIterator ==
    /\ RouterGoto("callback", "dispatch")
    /\ it' \in Listeners \cup {End}
    /\ itValid => FirstOf({l \in m_listeners : it < l}, it')
    /\ UNCHANGED <<queueVars, m_listeners, m_stayAlive, m_routeMutex, itValid,
                   clientVars, lifetime>>

\* Mutant of DeletePacket: the loop is left before the last listener.
DeletePacket_Early ==
    /\ RouterGoto("dispatch", "check")
    /\ res' = NoPacket
    /\ UNCHANGED <<m_messageQueue, m_listeners, m_stayAlive, m_routeMutex,
                   iterVars, clientVars, lifetime>>

\* delete res, back to while (!empty())
DeletePacket ==
    /\ RouterGoto("dispatch", "check")
    /\ it = End
    /\ res' = NoPacket
    /\ UNCHANGED <<m_messageQueue, m_listeners, m_stayAlive, m_routeMutex,
                   iterVars, clientVars, lifetime>>

\* routerThreadWait: Lock lock(m_routeMutex)
WaitLock ==
    /\ RouterGoto("lock", "guard")
    /\ Acquire(Router)
    /\ UNCHANGED <<queueVars, m_listeners, m_stayAlive, iterVars, clientVars,
                   lifetime>>

\* Mutant of WaitGuard: waits without looking at the flag.
WaitGuard_NoTest ==
    /\ RouterGoto("guard", "waiting")
    /\ Release
    /\ UNCHANGED <<queueVars, m_listeners, m_stayAlive, iterVars, clientVars,
                   lifetime>>

\* if (m_stayAlive) wait, which frees the mutex; else return, which does too
WaitGuard ==
    /\ \/ m_stayAlive /\ RouterGoto("guard", "waiting")
       \/ ~m_stayAlive /\ RouterGoto("guard", "top")
    /\ Release
    /\ UNCHANGED <<queueVars, m_listeners, m_stayAlive, iterVars, clientVars,
                   lifetime>>

SpuriousWakeup ==
    /\ RouterGoto("waiting", "woken")
    /\ UNCHANGED <<queueVars, m_listeners, m_stayAlive, m_routeMutex, iterVars,
                   clientVars, lifetime>>

\* The wait takes the mutex again; routerThreadWait returns and frees it.
Wakeup ==
    /\ RouterGoto("woken", "top")
    /\ m_routeMutex = NoThread
    /\ UNCHANGED <<queueVars, m_listeners, m_stayAlive, m_routeMutex, iterVars,
                   clientVars, lifetime>>
-----------------------------------------------------------------------------
(* receivedNGPPacket, on a notifier.                                        *)

\* The server handler has looked the receiver up. The registry has it until
\* the destructor deregisters it, and nothing keeps it from being destroyed
\* between here and the call.
ReceiverFound(n) ==
    /\ lifetime = "alive"
    /\ Goto(n, "idle", "push")
    /\ UNCHANGED <<queueVars, m_listeners, m_stayAlive, m_routeMutex, routerPc,
                   iterVars, call, lifetime>>

\* Mutant of PushPacket: queues the wrong pointer.
PushPacket_Wrong(n, p) ==
    /\ Goto(n, "push", "notifyLock")
    /\ p \notin InUse
    /\ m_messageQueue' = Append(m_messageQueue, NoPacket)
    /\ UNCHANGED <<m_listeners, m_stayAlive, m_routeMutex, routerPc, res,
                   iterVars, call, lifetime>>

PushPacket(n, p) ==
    /\ Goto(n, "push", "notifyLock")
    /\ p \notin InUse
    /\ m_messageQueue' = Append(m_messageQueue, p)
    /\ UNCHANGED <<m_listeners, m_stayAlive, m_routeMutex, routerPc, res,
                   iterVars, call, lifetime>>

\* Mutant of NotifyLock: signals without taking the mutex.
NotifyLock_Unlocked(n) ==
    /\ Goto(n, "notifyLock", "idle")
    /\ Signal
    /\ UNCHANGED <<queueVars, m_listeners, m_stayAlive, m_routeMutex, iterVars,
                   call, lifetime>>

\* routerThreadNotify: Lock lock(m_routeMutex)
NotifyLock(n) ==
    /\ Goto(n, "notifyLock", "signal")
    /\ Acquire(n)
    /\ UNCHANGED <<queueVars, m_listeners, m_stayAlive, routerPc, iterVars,
                   call, lifetime>>

NotifySignal(n) ==
    /\ Goto(n, "signal", "idle")
    /\ Signal
    /\ Release
    /\ UNCHANGED <<queueVars, m_listeners, m_stayAlive, iterVars, call,
                   lifetime>>
-----------------------------------------------------------------------------
(* Controllers *)

Begin(c, method, label) ==
    /\ lifetime = "alive"
    /\ method \in ControllerCalls
    /\ Goto(c, "idle", label)
    /\ call' = [call EXCEPT ![c] = method]

StartCall(c) ==
    /\ Begin(c, "start", "startLock")
    /\ UNCHANGED <<queueVars, m_listeners, m_stayAlive, m_routeMutex, routerPc,
                   iterVars, lifetime>>

StopCall(c) ==
    /\ Begin(c, "stop", "stopLock") \/ Begin(c, "stopAndJoin", "stopLock")
    /\ UNCHANGED <<queueVars, m_listeners, m_stayAlive, m_routeMutex, routerPc,
                   iterVars, lifetime>>

\* ~MessageRouter, up to stopThread(true): deregisters the receiver, so that
\* it is not looked up any more. Whoever has looked it up goes on.
DestroyCall(c) ==
    /\ Begin(c, "destroy", "stopLock")
    /\ lifetime' = "dying"
    /\ UNCHANGED <<queueVars, m_listeners, m_stayAlive, m_routeMutex, routerPc,
                   iterVars>>

StartLock(c) ==
    /\ Goto(c, "startLock", "starting")
    /\ Acquire(c)
    /\ UNCHANGED <<queueVars, m_listeners, m_stayAlive, routerPc, iterVars,
                   call, lifetime>>

\* if (!m_stayAlive) { m_stayAlive = true; pal_thread_start_thread }. A thread
\* that has been started before makes JTCThread::start throw, after the
\* assignment; the exception leaves startThread and the lock is released.
StartBody(c) ==
    /\ Goto(c, "starting", "idle")
    /\ m_stayAlive' = TRUE
    /\ routerPc' = IF ~m_stayAlive /\ routerPc = "new" THEN "top" ELSE routerPc
    /\ Release
    /\ UNCHANGED <<queueVars, m_listeners, iterVars, call, lifetime>>

StopLock(c) ==
    /\ Goto(c, "stopLock", "stopping")
    /\ Acquire(c)
    /\ UNCHANGED <<queueVars, m_listeners, m_stayAlive, routerPc, iterVars,
                   call, lifetime>>

\* Mutant of StopClear: the flag is not cleared.
StopClear_Forgets(c) ==
    /\ Goto(c, "stopping", "stopSignal")
    /\ UNCHANGED <<queueVars, m_listeners, m_stayAlive, m_routeMutex, routerPc,
                   iterVars, call, lifetime>>

StopClear(c) ==
    /\ Goto(c, "stopping", "stopSignal")
    /\ m_stayAlive' = FALSE
    /\ UNCHANGED <<queueVars, m_listeners, m_routeMutex, routerPc, iterVars,
                   call, lifetime>>

\* signal; then unlock and return, or unlock and join
StopSignal(c) ==
    /\ Goto(c, "stopSignal", IF call[c] = "stop" THEN "idle" ELSE "join")
    /\ Signal
    /\ Release
    /\ UNCHANGED <<queueVars, m_listeners, m_stayAlive, iterVars, call,
                   lifetime>>

\* pal_thread_join returns when the thread is not running: it has exited, or
\* it was never started. The destructor then destroys the thread, the
\* condition variable, the mutex and the queue (not the packets left in it).
Join(c) ==
    /\ Goto(c, "join", "idle")
    /\ ~ThreadActive
    /\ lifetime' = IF call[c] = "destroy" THEN "destroyed" ELSE lifetime
    /\ UNCHANGED <<queueVars, m_listeners, m_stayAlive, m_routeMutex, routerPc,
                   iterVars, call>>

\* The listeners after a registerListener or deregisterListener of l.
ChangeListeners(l) == m_listeners' \in {m_listeners \cup {l}, m_listeners \ {l}}

ListenersFromController(c, l) ==
    /\ lifetime = "alive"
    /\ pc[c] = "idle"
    /\ \/ "quiescent" \in Registration /\ ~Dispatching
       \/ "concurrent" \in Registration
    /\ ChangeListeners(l)
    /\ itValid' = (itValid /\ ~Dispatching)
    /\ UNCHANGED <<queueVars, m_stayAlive, m_routeMutex, routerPc, it,
                   clientVars, lifetime>>

\* A listener that is being called changes the set: only erasing the element
\* under the iterator invalidates it.
ListenersFromCallback(l) ==
    /\ (IF l = it THEN "selfInCallback" ELSE "othersInCallback") \in Registration
    /\ routerPc = "callback"
    /\ ChangeListeners(l)
    /\ itValid' = (itValid /\ it \in m_listeners')
    /\ UNCHANGED <<queueVars, m_stayAlive, m_routeMutex, routerPc, it,
                   clientVars, lifetime>>
-----------------------------------------------------------------------------
RouterStep == \/ ReadStayAlive \/ CheckEmpty \/ TryPop \/ CallListener
              \/ AdvanceIterator \/ DeletePacket \/ WaitLock \/ WaitGuard
              \/ Wakeup

NotifierStep(n) == \/ \E p \in Packets : PushPacket(n, p)
                   \/ NotifyLock(n) \/ NotifySignal(n)

ControllerStep(c) == \/ StartLock(c) \/ StartBody(c) \/ StopLock(c)
                     \/ StopClear(c) \/ StopSignal(c) \/ Join(c)

Next == \/ RouterStep
        \/ SpuriousWakeup
        \/ \E l \in Listeners : ListenersFromCallback(l)
        \/ \E n \in Notifiers : ReceiverFound(n) \/ NotifierStep(n)
        \/ \E c \in Controllers : \/ StartCall(c) \/ StopCall(c)
                                  \/ DestroyCall(c)
                                  \/ ControllerStep(c)
                                  \/ \E l \in Listeners :
                                        ListenersFromController(c, l)

Spec == Init /\ [][Next]_vars

(* A thread inside a method keeps running, listeners return, and the mutex  *)
(* does not starve anybody. No call has to be made, and no wait has to end  *)
(* without a signal.                                                        *)
Fairness ==
    /\ WF_vars(RouterStep) /\ SF_vars(WaitLock \/ Wakeup)
    /\ \A n \in Notifiers : WF_vars(NotifierStep(n)) /\ SF_vars(NotifyLock(n))
    /\ \A c \in Controllers : /\ WF_vars(ControllerStep(c))
                              /\ SF_vars(StartLock(c) \/ StopLock(c))

FairSpec == Spec /\ Fairness
-----------------------------------------------------------------------------
(* Every variable stays in its type.                                        *)
TypeOK ==
    /\ m_messageQueue \in Seq(Packets)
    /\ m_listeners \subseteq Listeners
    /\ m_stayAlive \in BOOLEAN
    /\ m_routeMutex \in Threads \cup {NoThread}
    /\ routerPc \in RouterLabels
    /\ res \in Packets \cup {NoPacket}
    /\ it \in Listeners \cup {End}
    /\ itValid \in BOOLEAN
    /\ pc \in [Clients -> ClientLabels]
    /\ call \in [Controllers -> Methods]
    /\ lifetime \in {"alive", "dying", "destroyed"}

(* The router thread never sleeps through a stop: when it waits for a       *)
(* signal although m_stayAlive is false, the thread that cleared the flag   *)
(* still holds the mutex and is about to signal.                            *)
NoMissedStop ==
    routerPc = "waiting" /\ ~m_stayAlive
        => \E c \in Controllers : pc[c] = "stopSignal" /\ m_routeMutex = c

(* While listeners are called the iterator is one that may be incremented.  *)
(* MessageRouter.cpp:52-53 has the listeners deregister themselves on a     *)
(* message, that is from inside the loop.                                   *)
IteratorStaysValid == Dispatching => itValid

(* Listeners the loop still has to call with the packet in res.             *)
StillToCall == IF Dispatching /\ it # End
               THEN {l \in m_listeners : \/ it < l
                                         \/ it = l /\ routerPc = "dispatch"}
               ELSE {}

(* Packets are delivered in order of arrival; every listener that stays     *)
(* registered is called once with each of them, also when listeners that    *)
(* are being called register and deregister others; no listener is called   *)
(* once it has been deregistered; and a packet is deleted after its last    *)
(* listener and before the next packet's first one.                         *)
Fanout == INSTANCE PacketFanout
            WITH pending <- (IF res = NoPacket THEN <<>> ELSE <<res>>)
                                \o m_messageQueue,
                 delivering <- Dispatching,
                 owed <- StillToCall,
                 registered <- m_listeners
DeliversInOrder == Fanout!Spec

Queued(p) == \E i \in 1..Len(m_messageQueue) : m_messageQueue[i] = p

(* A packet can be left in the queue only in one place: between the router  *)
(* thread's last look at the queue and its taking of the mutex for the      *)
(* wait. Whenever a notifier that has pushed is about to signal and the     *)
(* router thread is anywhere else, be it between its test of the flag and   *)
(* the wait or already woken for another packet, the whole queue is routed, *)
(* with the packets that earlier signals have left behind, unless the       *)
(* thread is stopped.                                                       *)
SignalDrainsQueue == \A n \in Notifiers, p \in Packets :
    (/\ pc[n] \in {"notifyLock", "signal"}
     /\ Queued(p) /\ m_stayAlive
     /\ ThreadActive /\ routerPc # "lock") ~> (~Queued(p) \/ ~m_stayAlive)

(* The destructor returns: the router thread always notices that it is to   *)
(* stop, whatever it was doing when the destructor was called.              *)
DestructorReturns == (lifetime = "dying") ~> (lifetime = "destroyed")

(* The thread "will process any incoming messages and route them to the     *)
(* correct receiver" (MessageRouter.h:127-128).                             *)
RoutesEveryPacket == \A p \in Packets :
    (Queued(p) /\ m_stayAlive) ~> (~Queued(p) \/ ~m_stayAlive)

(* stopThread(true) blocks "until the thread has died" (MessageRouter.h:    *)
(* 139-140), also when it stops a running thread that other threads start   *)
(* and stop as well, which MessageRouter.cpp:151-153 says the mutex makes   *)
(* safe.                                                                    *)
StopReturns == \A c \in Controllers :
    (pc[c] = "stopSignal" /\ call[c] = "stopAndJoin" /\ ThreadActive)
        ~> pc[c] = "idle"
=============================================================================
