------------------------- MODULE MessageRouterProofs -------------------------
(***************************************************************************)
(* Proofs about MessageRouter for any number of notifiers, controllers,    *)
(* packets and listeners, whatever value the constructor leaves in         *)
(* m_stayAlive and, up to the theorem on stops, whoever registers          *)
(* listeners at whatever time.                                             *)
(***************************************************************************)
EXTENDS MessageRouter, TLAPS

\* Labels at which a client is inside the critical section of m_routeMutex.
CriticalLabels == {"signal", "starting", "stopping", "stopSignal"}

(* m_routeMutex is held exactly by the thread inside its critical section.  *)
MutexHeld ==
    /\ \A c \in Clients : pc[c] \in CriticalLabels <=> m_routeMutex = c
    /\ routerPc = "guard" <=> m_routeMutex = Router
-----------------------------------------------------------------------------
(* Every step keeps every variable in its type.                             *)
LEMMA TypeStep == TypeOK /\ [Next]_vars => TypeOK'
<1> SUFFICES ASSUME TypeOK, [Next]_vars
             PROVE  TypeOK'
  OBVIOUS
<1> USE ThreadsAssumption, UseAssumption
    DEF TypeOK, Goto, RouterGoto, Acquire, Release, Signal, Begin, Clients,
        Threads, Methods, RouterLabels, ClientLabels, queueVars, iterVars,
        clientVars
<1>1. CASE ReadStayAlive
  BY <1>1 DEF ReadStayAlive
<1>2. CASE CheckEmpty
  BY <1>2 DEF CheckEmpty
<1>3. CASE TryPop
  BY <1>3 DEF TryPop
<1>4. CASE CallListener
  BY <1>4 DEF CallListener
<1>5. CASE AdvanceIterator
  BY <1>5 DEF AdvanceIterator
<1>6. CASE DeletePacket
  BY <1>6 DEF DeletePacket
<1>7. CASE WaitLock
  BY <1>7 DEF WaitLock
<1>8. CASE WaitGuard
  BY <1>8 DEF WaitGuard
<1>9. CASE Wakeup
  BY <1>9 DEF Wakeup
<1>10. CASE SpuriousWakeup
  BY <1>10 DEF SpuriousWakeup
<1>11. ASSUME NEW l \in Listeners, ListenersFromCallback(l)
       PROVE  TypeOK'
  BY <1>11 DEF ListenersFromCallback, ChangeListeners
<1>12. ASSUME NEW n \in Notifiers, NEW p \in Packets, PushPacket(n, p)
       PROVE  TypeOK'
  BY <1>12 DEF PushPacket
<1>13. ASSUME NEW n \in Notifiers, NotifyLock(n)
       PROVE  TypeOK'
  BY <1>13 DEF NotifyLock
<1>14. ASSUME NEW n \in Notifiers, NotifySignal(n)
       PROVE  TypeOK'
  BY <1>14 DEF NotifySignal
<1>15. ASSUME NEW c \in Controllers, StartCall(c)
       PROVE  TypeOK'
  BY <1>15 DEF StartCall
<1>16. ASSUME NEW c \in Controllers, StopCall(c)
       PROVE  TypeOK'
  BY <1>16 DEF StopCall
<1>17. ASSUME NEW c \in Controllers, DestroyCall(c)
       PROVE  TypeOK'
  BY <1>17 DEF DestroyCall
<1>18. ASSUME NEW c \in Controllers, StartLock(c)
       PROVE  TypeOK'
  BY <1>18 DEF StartLock
<1>19. ASSUME NEW c \in Controllers, StartBody(c)
       PROVE  TypeOK'
  BY <1>19 DEF StartBody
<1>20. ASSUME NEW c \in Controllers, StopLock(c)
       PROVE  TypeOK'
  BY <1>20 DEF StopLock
<1>21. ASSUME NEW c \in Controllers, StopClear(c)
       PROVE  TypeOK'
  BY <1>21 DEF StopClear
<1>22. ASSUME NEW c \in Controllers, StopSignal(c)
       PROVE  TypeOK'
  BY <1>22 DEF StopSignal
<1>23. ASSUME NEW c \in Controllers, Join(c)
       PROVE  TypeOK'
  BY <1>23 DEF Join
<1>24. ASSUME NEW c \in Controllers, NEW l \in Listeners, ListenersFromController(c, l)
       PROVE  TypeOK'
  BY <1>24 DEF ListenersFromController, ChangeListeners
<1>25. CASE UNCHANGED vars
  BY <1>25 DEF vars
<1>26. ASSUME NEW n \in Notifiers, ReceiverFound(n)
       PROVE  TypeOK'
  BY <1>26 DEF ReceiverFound
<1> QED
  BY <1>1, <1>2, <1>3, <1>4, <1>5, <1>6, <1>7, <1>8, <1>9, <1>10, <1>11,
     <1>12, <1>13, <1>14, <1>15, <1>16, <1>17, <1>18, <1>19, <1>20, <1>21,
     <1>22, <1>23, <1>24, <1>25, <1>26
     DEF Next, RouterStep, NotifierStep, ControllerStep

(* Every variable keeps its type.                                           *)
THEOREM TypeCorrect == Spec => []TypeOK
<1>1. Init => TypeOK
  BY ThreadsAssumption, UseAssumption
     DEF Init, TypeOK, Clients, Threads, Methods, RouterLabels, ClientLabels
<1> QED BY <1>1, TypeStep, PTL DEF Spec
-----------------------------------------------------------------------------
(* The mutex is taken only when it is free and freed only by its holder.    *)
LEMMA MutexStep == TypeOK /\ MutexHeld /\ [Next]_vars => MutexHeld'
<1> SUFFICES ASSUME TypeOK, MutexHeld, [Next]_vars
             PROVE  MutexHeld'
  OBVIOUS
<1> USE ThreadsAssumption
    DEF TypeOK, MutexHeld, CriticalLabels, Goto, RouterGoto, Acquire, Release,
        Signal, Begin, Clients, Threads, RouterLabels, ClientLabels,
        queueVars, iterVars, clientVars
<1>1. CASE ReadStayAlive
  BY <1>1 DEF ReadStayAlive
<1>2. CASE CheckEmpty
  BY <1>2 DEF CheckEmpty
<1>3. CASE TryPop
  BY <1>3 DEF TryPop
<1>4. CASE CallListener
  BY <1>4 DEF CallListener
<1>5. CASE AdvanceIterator
  BY <1>5 DEF AdvanceIterator
<1>6. CASE DeletePacket
  BY <1>6 DEF DeletePacket
<1>7. CASE WaitLock
  BY <1>7 DEF WaitLock
<1>8. CASE WaitGuard
  BY <1>8 DEF WaitGuard
<1>9. CASE Wakeup
  BY <1>9 DEF Wakeup
<1>10. CASE SpuriousWakeup
  BY <1>10 DEF SpuriousWakeup
<1>11. ASSUME NEW l \in Listeners, ListenersFromCallback(l)
       PROVE  MutexHeld'
  BY <1>11 DEF ListenersFromCallback
<1>12. ASSUME NEW n \in Notifiers, NEW p \in Packets, PushPacket(n, p)
       PROVE  MutexHeld'
  BY <1>12 DEF PushPacket
<1>13. ASSUME NEW n \in Notifiers, NotifyLock(n)
       PROVE  MutexHeld'
  BY <1>13 DEF NotifyLock
<1>14. ASSUME NEW n \in Notifiers, NotifySignal(n)
       PROVE  MutexHeld'
  BY <1>14 DEF NotifySignal
<1>15. ASSUME NEW c \in Controllers, StartCall(c)
       PROVE  MutexHeld'
  BY <1>15 DEF StartCall
<1>16. ASSUME NEW c \in Controllers, StopCall(c)
       PROVE  MutexHeld'
  BY <1>16 DEF StopCall
<1>17. ASSUME NEW c \in Controllers, DestroyCall(c)
       PROVE  MutexHeld'
  BY <1>17 DEF DestroyCall
<1>18. ASSUME NEW c \in Controllers, StartLock(c)
       PROVE  MutexHeld'
  BY <1>18 DEF StartLock
<1>19. ASSUME NEW c \in Controllers, StartBody(c)
       PROVE  MutexHeld'
  BY <1>19 DEF StartBody
<1>20. ASSUME NEW c \in Controllers, StopLock(c)
       PROVE  MutexHeld'
  BY <1>20 DEF StopLock
<1>21. ASSUME NEW c \in Controllers, StopClear(c)
       PROVE  MutexHeld'
  BY <1>21 DEF StopClear
<1>22. ASSUME NEW c \in Controllers, StopSignal(c)
       PROVE  MutexHeld'
  BY <1>22 DEF StopSignal
<1>23. ASSUME NEW c \in Controllers, Join(c)
       PROVE  MutexHeld'
  BY <1>23 DEF Join
<1>24. ASSUME NEW c \in Controllers, NEW l \in Listeners, ListenersFromController(c, l)
       PROVE  MutexHeld'
  BY <1>24 DEF ListenersFromController
<1>25. CASE UNCHANGED vars
  BY <1>25 DEF vars
<1>26. ASSUME NEW n \in Notifiers, ReceiverFound(n)
       PROVE  MutexHeld'
  BY <1>26 DEF ReceiverFound
<1> QED
  BY <1>1, <1>2, <1>3, <1>4, <1>5, <1>6, <1>7, <1>8, <1>9, <1>10, <1>11,
     <1>12, <1>13, <1>14, <1>15, <1>16, <1>17, <1>18, <1>19, <1>20, <1>21,
     <1>22, <1>23, <1>24, <1>25, <1>26
     DEF Next, RouterStep, NotifierStep, ControllerStep

(* At any time the router's mutex has exactly one holder or none.           *)
THEOREM Exclusive == Spec => []MutexHeld
<1>1. Init => MutexHeld
  BY ThreadsAssumption DEF Init, MutexHeld, CriticalLabels, Clients, Threads
<1> QED BY TypeCorrect, <1>1, MutexStep, PTL DEF Spec
-----------------------------------------------------------------------------
(* The router thread tests m_stayAlive under the mutex and gives the mutex  *)
(* up only by waiting; whoever clears the flag signals before he does.      *)
LEMMA StopStep == TypeOK /\ MutexHeld /\ NoMissedStop /\ [Next]_vars => NoMissedStop'
<1> SUFFICES ASSUME TypeOK, MutexHeld, NoMissedStop, [Next]_vars
             PROVE  NoMissedStop'
  OBVIOUS
<1> USE ThreadsAssumption
    DEF TypeOK, MutexHeld, CriticalLabels, NoMissedStop, Goto, RouterGoto,
        Acquire, Release, Signal, Begin, Clients, Threads, queueVars, iterVars,
        clientVars
<1>1. CASE ReadStayAlive
  BY <1>1 DEF ReadStayAlive
<1>2. CASE CheckEmpty
  BY <1>2 DEF CheckEmpty
<1>3. CASE TryPop
  BY <1>3 DEF TryPop
<1>4. CASE CallListener
  BY <1>4 DEF CallListener
<1>5. CASE AdvanceIterator
  BY <1>5 DEF AdvanceIterator
<1>6. CASE DeletePacket
  BY <1>6 DEF DeletePacket
<1>7. CASE WaitLock
  BY <1>7 DEF WaitLock
<1>8. CASE WaitGuard
  BY <1>8 DEF WaitGuard
<1>9. CASE Wakeup
  BY <1>9 DEF Wakeup
<1>10. CASE SpuriousWakeup
  BY <1>10 DEF SpuriousWakeup
<1>11. ASSUME NEW l \in Listeners, ListenersFromCallback(l)
       PROVE  NoMissedStop'
  BY <1>11 DEF ListenersFromCallback
<1>12. ASSUME NEW n \in Notifiers, NEW p \in Packets, PushPacket(n, p)
       PROVE  NoMissedStop'
  BY <1>12 DEF PushPacket
<1>13. ASSUME NEW n \in Notifiers, NotifyLock(n)
       PROVE  NoMissedStop'
  BY <1>13 DEF NotifyLock
<1>14. ASSUME NEW n \in Notifiers, NotifySignal(n)
       PROVE  NoMissedStop'
  BY <1>14 DEF NotifySignal
<1>15. ASSUME NEW c \in Controllers, StartCall(c)
       PROVE  NoMissedStop'
  BY <1>15 DEF StartCall
<1>16. ASSUME NEW c \in Controllers, StopCall(c)
       PROVE  NoMissedStop'
  BY <1>16 DEF StopCall
<1>17. ASSUME NEW c \in Controllers, DestroyCall(c)
       PROVE  NoMissedStop'
  BY <1>17 DEF DestroyCall
<1>18. ASSUME NEW c \in Controllers, StartLock(c)
       PROVE  NoMissedStop'
  BY <1>18 DEF StartLock
<1>19. ASSUME NEW c \in Controllers, StartBody(c)
       PROVE  NoMissedStop'
  BY <1>19 DEF StartBody
<1>20. ASSUME NEW c \in Controllers, StopLock(c)
       PROVE  NoMissedStop'
  BY <1>20 DEF StopLock
<1>21. ASSUME NEW c \in Controllers, StopClear(c)
       PROVE  NoMissedStop'
  BY <1>21 DEF StopClear
<1>22. ASSUME NEW c \in Controllers, StopSignal(c)
       PROVE  NoMissedStop'
  BY <1>22 DEF StopSignal
<1>23. ASSUME NEW c \in Controllers, Join(c)
       PROVE  NoMissedStop'
  BY <1>23 DEF Join
<1>24. ASSUME NEW c \in Controllers, NEW l \in Listeners, ListenersFromController(c, l)
       PROVE  NoMissedStop'
  BY <1>24 DEF ListenersFromController
<1>25. CASE UNCHANGED vars
  BY <1>25 DEF vars
<1>26. ASSUME NEW n \in Notifiers, ReceiverFound(n)
       PROVE  NoMissedStop'
  BY <1>26 DEF ReceiverFound
<1> QED
  BY <1>1, <1>2, <1>3, <1>4, <1>5, <1>6, <1>7, <1>8, <1>9, <1>10, <1>11,
     <1>12, <1>13, <1>14, <1>15, <1>16, <1>17, <1>18, <1>19, <1>20, <1>21,
     <1>22, <1>23, <1>24, <1>25, <1>26
     DEF Next, RouterStep, NotifierStep, ControllerStep

(* The router thread never sleeps through a stop.                           *)
THEOREM StopsNotMissed == Spec => []NoMissedStop
<1>1. Init => NoMissedStop
  BY DEF Init, NoMissedStop
<1> QED BY TypeCorrect, Exclusive, <1>1, StopStep, PTL DEF Spec
-----------------------------------------------------------------------------
(* The uses that leave the iterator alone: listeners change the set outside *)
(* of the loop, or about others than the one under the iterator.            *)
Considerate == Registration \subseteq {"quiescent", "othersInCallback"}

(* checkQueue's loop: there is a packet in res while its listeners are      *)
(* called, and the iterator stands on a registered listener or at the end.  *)
Iteration ==
    /\ res # NoPacket <=> Dispatching
    /\ itValid
    /\ Dispatching => it = End \/ it \in m_listeners
    /\ routerPc = "callback" => it # End

(* Only TryPop and AdvanceIterator move the iterator, and both move it to a *)
(* registered listener; nobody erases the one it stands on.                 *)
LEMMA IterationStep ==
    Considerate /\ TypeOK /\ Iteration /\ [Next]_vars => Iteration'
<1> SUFFICES ASSUME Considerate, TypeOK, Iteration, [Next]_vars
             PROVE  Iteration'
  OBVIOUS
<1> USE ThreadsAssumption, DataAssumption
    DEF TypeOK, Iteration, Dispatching, Goto, RouterGoto, RouterLabels,
        queueVars, iterVars, clientVars
<1>1. CASE ReadStayAlive
  BY <1>1 DEF ReadStayAlive
<1>2. CASE CheckEmpty
  BY <1>2 DEF CheckEmpty
<1>3. CASE TryPop
  <2>1. m_messageQueue # <<>> => Head(m_messageQueue) \in Packets
    OBVIOUS
  <2> QED BY <1>3, <2>1 DEF TryPop, FirstOf
<1>4. CASE CallListener
  BY <1>4 DEF CallListener
<1>5. CASE AdvanceIterator
  BY <1>5 DEF AdvanceIterator, FirstOf
<1>6. CASE DeletePacket
  BY <1>6 DEF DeletePacket
<1>7. CASE WaitLock \/ Wakeup \/ SpuriousWakeup
  BY <1>7 DEF WaitLock, Wakeup, SpuriousWakeup
<1>8. CASE WaitGuard
  BY <1>8 DEF WaitGuard
<1>9. ASSUME NEW l \in Listeners, ListenersFromCallback(l)
      PROVE  Iteration'
  BY <1>9 DEF ListenersFromCallback, ChangeListeners, Considerate
<1>10. ASSUME NEW n \in Notifiers, NEW p \in Packets, PushPacket(n, p)
       PROVE  Iteration'
  BY <1>10 DEF PushPacket
<1>11. ASSUME NEW n \in Notifiers, NotifyLock(n) \/ NotifySignal(n)
       PROVE  Iteration'
  BY <1>11 DEF NotifyLock, NotifySignal, Signal
<1>12. ASSUME NEW c \in Controllers,
              StartCall(c) \/ StopCall(c) \/ DestroyCall(c) \/ StartLock(c)
                \/ StopLock(c) \/ StopClear(c) \/ Join(c)
       PROVE  Iteration'
  BY <1>12 DEF StartCall, StopCall, DestroyCall, StartLock, StopLock, StopClear,
               Join
<1>13. ASSUME NEW c \in Controllers, StartBody(c) \/ StopSignal(c)
       PROVE  Iteration'
  BY <1>13 DEF StartBody, StopSignal, Signal
<1>14. ASSUME NEW c \in Controllers, NEW l \in Listeners,
              ListenersFromController(c, l)
       PROVE  Iteration'
  BY <1>14 DEF ListenersFromController, Considerate
<1>15. CASE UNCHANGED vars
  BY <1>15 DEF vars
<1>16. ASSUME NEW n \in Notifiers, ReceiverFound(n)
       PROVE  Iteration'
  BY <1>16 DEF ReceiverFound
<1> QED
  BY <1>1, <1>2, <1>3, <1>4, <1>5, <1>6, <1>7, <1>8, <1>9, <1>10, <1>11,
     <1>12, <1>13, <1>14, <1>15, <1>16
     DEF Next, RouterStep, NotifierStep, ControllerStep

(* Listeners that register and deregister others, also while they are being *)
(* called, never pull the iterator from under the loop: what                *)
(* MessageRouterDeregister finds needs a listener that erases itself.       *)
THEOREM IteratorKept == Considerate => (Spec => []IteratorStaysValid)
<1> SUFFICES ASSUME Considerate
             PROVE  Spec => []IteratorStaysValid
  OBVIOUS
<1>1. Init => Iteration
  BY DEF Init, Iteration, Dispatching
<1>2. TypeOK /\ Iteration /\ [Next]_vars => Iteration'
  BY IterationStep
<1>3. Iteration => IteratorStaysValid
  BY DEF Iteration, IteratorStaysValid
<1> QED BY <1>1, <1>2, <1>3, TypeCorrect, PTL DEF Spec

(* Whether a packet has its turn is a truth value.                          *)
LEMMA SameTurn == (Dispatching <=> Dispatching') => UNCHANGED Dispatching
<1>1. Dispatching \in BOOLEAN /\ Dispatching' \in BOOLEAN
  BY DEF Dispatching
<1> QED BY <1>1

(* A signal does not touch what the loop is doing.                          *)
LEMMA SignalKeeps ==
    Signal /\ UNCHANGED <<m_listeners, it>> => UNCHANGED <<Dispatching, StillToCall>>
<1> SUFFICES ASSUME Signal, UNCHANGED <<m_listeners, it>>
             PROVE  UNCHANGED <<Dispatching, StillToCall>>
  OBVIOUS
<1>1. /\ Dispatching <=> Dispatching'
      /\ routerPc = "dispatch" <=> routerPc' = "dispatch"
  BY DEF Signal, Dispatching
<1>2. UNCHANGED StillToCall
  BY <1>1 DEF StillToCall
<1> QED BY <1>1, <1>2, SameTurn

(* The router as PacketFanout sees it. A packet leaves the queue and its    *)
(* turn begins in TryPop, a listener is served when it is called, the       *)
(* packet goes in DeletePacket. Listeners come and go by themselves; one    *)
(* that comes behind the iterator is not called with the packet of the      *)
(* turn, one that comes before it is.                                       *)
LEMMA FanoutStep ==
    Considerate /\ TypeOK /\ Iteration /\ Iteration' /\ [Next]_vars
        => [Fanout!Next]_(Fanout!fanoutVars)
<1> DEFINE Pending == (IF res = NoPacket THEN <<>> ELSE <<res>>) \o m_messageQueue
           Kept == UNCHANGED <<Pending, Dispatching, StillToCall, m_listeners>>
<1> SUFFICES ASSUME Considerate, TypeOK, Iteration, Iteration', [Next]_vars
             PROVE  Fanout!Next \/ Kept
  BY DEF Fanout!fanoutVars
<1> USE ThreadsAssumption, DataAssumption
<1>1. CASE ReadStayAlive \/ CheckEmpty \/ WaitLock \/ WaitGuard \/ Wakeup
              \/ SpuriousWakeup
  BY <1>1 DEF ReadStayAlive, CheckEmpty, WaitLock, WaitGuard, Wakeup,
              SpuriousWakeup, RouterGoto, Dispatching, StillToCall, queueVars,
              iterVars
<1>2. CASE TryPop
  <2>1. /\ ~Dispatching /\ Dispatching' /\ res = NoPacket /\ res' # NoPacket
        /\ routerPc' = "dispatch" /\ m_listeners' = m_listeners
    BY <1>2 DEF TryPop, RouterGoto, Iteration, Dispatching
  <2>2. /\ m_messageQueue \in Seq(Packets) /\ m_messageQueue # <<>>
        /\ res' = Head(m_messageQueue) /\ m_messageQueue' = Tail(m_messageQueue)
    BY <1>2 DEF TryPop, TypeOK
  <2>3. Pending' = Pending /\ Pending # <<>>
    BY <2>1, <2>2
  <2>4. /\ m_listeners = {} => it' = End
        /\ m_listeners # {} => it' \in m_listeners /\ \A l \in m_listeners : it' <= l
    BY <1>2 DEF TryPop, FirstOf
  <2>5. StillToCall' = m_listeners
    <3>1. CASE m_listeners = {}
      BY <2>1, <2>4, <3>1 DEF StillToCall
    <3>2. CASE m_listeners # {}
      <4>1. /\ m_listeners \subseteq Nat /\ it' \in Nat /\ it' # End
            /\ \A l \in m_listeners : it' <= l
        BY <2>4, <3>2 DEF TypeOK
      <4>2. StillToCall' = {l \in m_listeners : it' < l \/ it' = l}
        BY <2>1, <4>1 DEF StillToCall
      <4>3. \A l \in m_listeners : it' < l \/ it' = l
        BY <4>1
      <4> QED BY <4>2, <4>3
    <3> QED BY <3>1, <3>2
  <2>6. Dispatching' = TRUE
    BY <2>1 DEF Dispatching
  <2>7. Fanout!TakeTurn
    BY <2>1, <2>3, <2>5, <2>6 DEF Fanout!TakeTurn
  <2> QED BY <2>7 DEF Fanout!Next
<1>3. CASE CallListener
  <2>1. /\ Dispatching /\ Dispatching' /\ it # End /\ it' = it
        /\ routerPc = "dispatch" /\ routerPc' = "callback"
        /\ it \in m_listeners /\ it \in Listeners
        /\ UNCHANGED <<m_messageQueue, res, m_listeners>>
    BY <1>3 DEF CallListener, RouterGoto, Dispatching, Iteration, TypeOK,
                queueVars, iterVars
  <2>2. it \in StillToCall /\ StillToCall' = StillToCall \ {it}
    BY <2>1 DEF StillToCall, TypeOK
  <2>3. Fanout!Deliver(it)
    BY <2>1, <2>2, SameTurn DEF Fanout!Deliver
  <2> QED BY <2>1, <2>3 DEF Fanout!Next
<1>4. CASE AdvanceIterator
  <2>1. /\ Dispatching /\ Dispatching' /\ it # End
        /\ routerPc = "callback" /\ routerPc' = "dispatch"
        /\ FirstOf({l \in m_listeners : it < l}, it') /\ it' \in Listeners \cup {End}
        /\ UNCHANGED <<m_messageQueue, res, m_listeners>>
    BY <1>4 DEF AdvanceIterator, RouterGoto, Dispatching, Iteration, queueVars
  <2>2. /\ m_listeners \subseteq Nat /\ it \in Nat
        /\ StillToCall = {l \in m_listeners : it < l}
    BY <2>1 DEF StillToCall, TypeOK
  <2>3. StillToCall' = StillToCall
    <3>1. CASE StillToCall = {}
      BY <2>1, <2>2, <3>1 DEF StillToCall, FirstOf
    <3>2. CASE StillToCall # {}
      <4>1. /\ it' \in m_listeners /\ it < it' /\ it' # End
            /\ \A l \in StillToCall : it' <= l
        BY <2>1, <2>2, <3>2 DEF FirstOf
      <4>2. StillToCall' = {l \in m_listeners : it' < l \/ it' = l}
        BY <2>1, <4>1 DEF StillToCall
      <4>3. \A l \in m_listeners : it < l <=> it' < l \/ it' = l
        BY <2>2, <4>1
      <4> QED BY <2>2, <4>2, <4>3
    <3> QED BY <3>1, <3>2
  <2> QED BY <2>1, <2>3, SameTurn
<1>5. CASE DeletePacket
  <2>1. /\ Dispatching /\ ~Dispatching' /\ it = End
        /\ res # NoPacket /\ res' = NoPacket
        /\ UNCHANGED <<m_messageQueue, m_listeners>>
    BY <1>5 DEF DeletePacket, RouterGoto, Dispatching, Iteration
  <2>2. StillToCall = {} /\ StillToCall' = {}
    BY <2>1 DEF StillToCall
  <2>3. Pending' = Tail(Pending)
    BY <2>1 DEF TypeOK
  <2>4. Dispatching' = FALSE
    BY <2>1 DEF Dispatching
  <2>5. Fanout!Delete
    BY <2>1, <2>2, <2>3, <2>4 DEF Fanout!Delete
  <2> QED BY <2>5 DEF Fanout!Next
<1>6. ASSUME NEW l \in Listeners, ListenersFromCallback(l)
      PROVE  Fanout!Next \/ Kept
  <2>1. /\ Dispatching /\ Dispatching' /\ it # End /\ it' = it /\ l # it
        /\ routerPc = "callback" /\ routerPc' = "callback"
        /\ UNCHANGED <<m_messageQueue, res>>
    BY <1>6 DEF ListenersFromCallback, Considerate, Dispatching, Iteration,
                queueVars
  <2>2. /\ StillToCall = {k \in m_listeners : it < k}
        /\ StillToCall' = {k \in m_listeners' : it < k}
    BY <2>1 DEF StillToCall
  <2>3. CASE m_listeners' = m_listeners \ {l}
    <3>1. Fanout!Deregister(l)
      BY <2>1, <2>2, <2>3, SameTurn DEF Fanout!Deregister
    <3> QED BY <3>1 DEF Fanout!Next
  <2>4. CASE m_listeners' = m_listeners \cup {l}
    <3>1. CASE l \in m_listeners
      <4>1. m_listeners' = m_listeners
        BY <2>4, <3>1
      <4> QED BY <2>1, <2>2, <4>1, SameTurn
    <3>2. CASE l \notin m_listeners
      <4>1. Fanout!Register(l)
        BY <2>1, <2>2, <2>4, <3>2, SameTurn DEF Fanout!Register
      <4> QED BY <4>1 DEF Fanout!Next
    <3> QED BY <3>1, <3>2
  <2> QED BY <1>6, <2>3, <2>4 DEF ListenersFromCallback, ChangeListeners
<1>7. ASSUME NEW n \in Notifiers, NEW p \in Packets, PushPacket(n, p)
      PROVE  Fanout!Next \/ Kept
  <2>1. /\ m_messageQueue' = Append(m_messageQueue, p) /\ p \notin InUse
        /\ UNCHANGED <<res, m_listeners, routerPc, it>>
    BY <1>7 DEF PushPacket, iterVars
  <2>2. Pending' = Append(Pending, p)
    BY <2>1 DEF TypeOK
  <2>3. \A i \in 1..Len(Pending) : Pending[i] # p
    BY <2>1 DEF TypeOK, InUse
  <2>4. UNCHANGED <<Dispatching, StillToCall>>
    BY <2>1 DEF Dispatching, StillToCall
  <2> QED BY <2>1, <2>2, <2>3, <2>4 DEF Fanout!Next, Fanout!Receive
<1>8. ASSUME NEW n \in Notifiers,
             ReceiverFound(n) \/ NotifyLock(n) \/ NotifySignal(n)
      PROVE  Kept
  <2>1. CASE NotifyLock(n)
    BY <2>1 DEF NotifyLock, Dispatching, StillToCall, queueVars, iterVars
  <2>2. CASE NotifySignal(n)
    BY <2>2, SignalKeeps DEF NotifySignal, queueVars, iterVars
  <2>3. CASE ReceiverFound(n)
    BY <2>3 DEF ReceiverFound, Dispatching, StillToCall, queueVars, iterVars
  <2> QED BY <1>8, <2>1, <2>2, <2>3
<1>9. ASSUME NEW c \in Controllers,
             StartCall(c) \/ StopCall(c) \/ DestroyCall(c) \/ StartLock(c)
               \/ StopLock(c) \/ StopClear(c) \/ Join(c)
      PROVE  Kept
  BY <1>9 DEF StartCall, StopCall, DestroyCall, StartLock, StopLock, StopClear,
              Join, Dispatching, StillToCall, queueVars, iterVars
<1>10. ASSUME NEW c \in Controllers, StartBody(c) \/ StopSignal(c)
       PROVE  Kept
  <2>1. CASE StartBody(c)
    <3>1. /\ Dispatching <=> Dispatching'
          /\ routerPc = "dispatch" <=> routerPc' = "dispatch"
          /\ UNCHANGED <<m_messageQueue, res, m_listeners, it>>
      BY <2>1 DEF StartBody, Dispatching, queueVars, iterVars
    <3>2. UNCHANGED StillToCall
      BY <3>1 DEF StillToCall
    <3> QED BY <3>1, <3>2, SameTurn
  <2>2. CASE StopSignal(c)
    BY <2>2, SignalKeeps DEF StopSignal, queueVars, iterVars
  <2> QED BY <1>10, <2>1, <2>2
<1>11. ASSUME NEW c \in Controllers, NEW l \in Listeners,
              ListenersFromController(c, l)
       PROVE  Fanout!Next \/ Kept
  <2>1. /\ ~Dispatching /\ ~Dispatching' /\ Pending' = Pending
    BY <1>11 DEF ListenersFromController, Considerate, Dispatching, queueVars
  <2>2. StillToCall = {} /\ StillToCall' = {}
    BY <2>1 DEF StillToCall
  <2>3. CASE m_listeners' = m_listeners \ {l}
    <3>1. Fanout!Deregister(l)
      BY <2>1, <2>2, <2>3, SameTurn DEF Fanout!Deregister
    <3> QED BY <3>1 DEF Fanout!Next
  <2>4. CASE m_listeners' = m_listeners \cup {l}
    <3>1. CASE l \in m_listeners
      <4>1. m_listeners' = m_listeners
        BY <2>4, <3>1
      <4> QED BY <2>1, <2>2, <4>1, SameTurn
    <3>2. CASE l \notin m_listeners
      <4>1. Fanout!Register(l)
        BY <2>1, <2>2, <2>4, <3>2, SameTurn DEF Fanout!Register
      <4> QED BY <4>1 DEF Fanout!Next
    <3> QED BY <3>1, <3>2
  <2> QED BY <1>11, <2>3, <2>4 DEF ListenersFromController, ChangeListeners
<1>12. CASE UNCHANGED vars
  BY <1>12 DEF vars, Dispatching, StillToCall
<1> QED
  BY <1>1, <1>2, <1>3, <1>4, <1>5, <1>6, <1>7, <1>8, <1>9, <1>10, <1>11, <1>12
     DEF Next, RouterStep, NotifierStep, ControllerStep

(* Packets reach the listeners in the order they came, every listener that  *)
(* stays gets each of them once, none is called after it was deregistered,  *)
(* and a packet is deleted after its last listener: for any number of       *)
(* packets and listeners, and whatever listeners do to others while they    *)
(* are called.                                                              *)
THEOREM FansOut == Considerate => (Spec => DeliversInOrder)
<1> SUFFICES ASSUME Considerate
             PROVE  Spec => DeliversInOrder
  OBVIOUS
<1>1. Init => Iteration /\ Fanout!Init
  BY DEF Init, Iteration, Dispatching, StillToCall, Fanout!Init
<1>2. TypeOK /\ Iteration /\ [Next]_vars => Iteration'
  BY IterationStep
<1>3. TypeOK /\ Iteration /\ Iteration' /\ [Next]_vars
        => [Fanout!Next]_(Fanout!fanoutVars)
  BY FanoutStep
<1> QED
  BY <1>1, <1>2, <1>3, TypeCorrect, PTL DEF Spec, DeliversInOrder, Fanout!Spec
=============================================================================
