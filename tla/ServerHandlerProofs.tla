------------------------ MODULE ServerHandlerProofs ------------------------
(* Proofs about the request and reply routing for any finite number of      *)
(* senders, any receivers and any number of requests.                       *)
EXTENDS ServerHandler, FiniteSetTheorems, TLAPS

Preparing == {s \in Senders : pc[s] \in {"register", "push"}}
Popping == {s \in Senders : pc[s] = "notify"}
Writing == {s \in Senders : pc[s] = "send"}

(* Whoever is to use a request has one.                                     *)
Present == /\ \A s \in Preparing : packet[s] \in Requests
           /\ \A s \in Writing : popped[s] \in Requests
           /\ readerPc # "idle" => reply \in Requests

TypeInv == TypeOK /\ Present
-----------------------------------------------------------------------------
(* The short id of a request is a key of the map.                           *)
LEMMA WireIdType ==
    ASSUME NEW request \in Requests
    PROVE  request.id \in Keys /\ request.receiver \in Receivers
           /\ WireId(request) \in Keys
<1>1. request.id \in Keys /\ request.receiver \in Receivers
  BY DEF Requests
<1>2. request.id % WireIds \in 0..(WireIds - 1)
  BY <1>1, IdsAssumption DEF Keys
<1> QED
  BY <1>1, <1>2, IdsAssumption DEF WireId, Keys

(* Every step keeps every variable in its type.                             *)
LEMMA TypeStep == TypeInv /\ [Next]_vars => TypeInv'
<1> SUFFICES ASSUME TypeInv, [Next]_vars
             PROVE  TypeInv'
  OBVIOUS
<1> USE NoPacketAssumption
    DEF TypeInv, TypeOK, Present, Preparing, Writing, SenderLabels, ReaderLabels,
        Goto, ReaderGoto, senderVars, writeVars, readerVars
<1>1. ASSUME NEW s \in Senders, NEW r \in Receivers, GenerateId(s, r)
      PROVE  TypeInv'
  <2>1. (m_requestId + 1) % KeyIds \in Keys
    BY IdsAssumption DEF Keys
  <2>2. [id |-> (m_requestId + 1) % KeyIds, receiver |-> r] \in Requests
    BY <2>1 DEF Requests
  <2> QED
    BY <1>1, <2>1, <2>2 DEF GenerateId
<1>2. ASSUME NEW s \in Senders, RegisterReceiverId(s)
      PROVE  TypeInv'
  <2>1. packet[s] \in Requests
    BY <1>2 DEF RegisterReceiverId
  <2>2. packet[s].id \in Keys /\ packet[s].receiver \in Receivers
    BY <2>1, WireIdType
  <2> QED
    BY <1>2, <2>1, <2>2 DEF RegisterReceiverId
<1>3. ASSUME NEW s \in Senders, PushRequest(s)
      PROVE  TypeInv'
  <2>1. packet[s] \in Requests
    BY <1>3 DEF PushRequest
  <2>2. m_msgQueue' \in Seq(Requests)
    BY <1>3, <2>1 DEF PushRequest
  <2> QED
    BY <1>3, <2>1, <2>2 DEF PushRequest
<1>4. ASSUME NEW s \in Senders, NotifyPop(s)
      PROVE  TypeInv'
  <2>1. m_msgQueue # <<>> => /\ Head(m_msgQueue) \in Requests
                             /\ Tail(m_msgQueue) \in Seq(Requests)
    OBVIOUS
  <2> QED
    BY <1>4, <2>1 DEF NotifyPop
<1>5. ASSUME NEW s \in Senders, WriteSome(s) \/ WriteRest(s) \/ WriteFails(s)
      PROVE  TypeInv'
  <2>1. pc[s] = "send" /\ popped[s] \in Requests
    BY <1>5 DEF WriteSome, WriteRest, WriteFails, WriteReturns
  <2>2. streamWhole' \in BOOLEAN
    BY <1>5 DEF WriteSome, WriteRest, WriteFails, WriteReturns
  <2>3. atServer' \subseteq Requests /\ partial' \subseteq Senders
    BY <1>5, <2>1 DEF WriteSome, WriteRest, WriteFails, WriteReturns
  <2> QED
    BY <1>5, <2>1, <2>2, <2>3 DEF WriteSome, WriteRest, WriteFails, WriteReturns
<1>6. ASSUME NEW request \in atServer, ServerReplies(request)
      PROVE  TypeInv'
  BY <1>6 DEF ServerReplies
<1>7. CASE GetAndRemoveReceiver
  <2>1. reply \in Requests /\ WireId(reply) \in Keys
    BY <1>7, WireIdType DEF GetAndRemoveReceiver
  <2>2. target' \in Receivers \cup {NoReceiver}
    BY <1>7, <2>1, ReceiversAssumption DEF GetAndRemoveReceiver
  <2> QED
    BY <1>7, <2>1, <2>2 DEF GetAndRemoveReceiver
<1>8. CASE GetMessageReceiver \/ CallReceiver
  BY <1>8 DEF GetMessageReceiver, CallReceiver
<1>9. ASSUME NEW r \in Receivers, RegisterReceiver(r) \/ DeregisterReceiver(r)
      PROVE  TypeInv'
  BY <1>9 DEF RegisterReceiver, DeregisterReceiver
<1>10. CASE UNCHANGED vars
  BY <1>10 DEF vars
<1> QED
  BY <1>1, <1>2, <1>3, <1>4, <1>5, <1>6, <1>7, <1>8, <1>9, <1>10
  DEF Next, SendStep, ReceiveStep

(* Whatever the widths of the ids and the number of requests, every         *)
(* variable keeps its type.                                                 *)
THEOREM TypesHold == Spec => []TypeInv
<1>1. Init => TypeInv
  <2> SUFFICES ASSUME Init PROVE TypeInv
    OBVIOUS
  <2>1. 0 \in Keys
    BY IdsAssumption DEF Keys
  <2>2. <<>> \in Seq(Requests)
    OBVIOUS
  <2>3. Preparing = {} /\ Writing = {}
    BY DEF Init, Preparing, Writing
  <2> QED
    BY <2>1, <2>2, <2>3
    DEF Init, TypeInv, TypeOK, Present, SenderLabels, ReaderLabels
<1> QED
  BY <1>1, TypeStep, PTL DEF Spec

(* The type invariant alone.                                                *)
THEOREM TypeCorrect == Spec => []TypeOK
  BY TypesHold, PTL DEF TypeInv
-----------------------------------------------------------------------------
(* The queue is as long as the senders about to pop are many, after a step. *)
LEMMA PoppersStep ==
    TypeInv /\ NotifyFindsPacket /\ [Next]_vars => NotifyFindsPacket'
<1> SUFFICES ASSUME TypeInv, NotifyFindsPacket, [Next]_vars
             PROVE  Len(m_msgQueue') = Cardinality(Popping')
  BY DEF NotifyFindsPacket, Popping
<1>0. /\ IsFiniteSet(Popping) /\ Cardinality(Popping) \in Nat
      /\ Len(m_msgQueue) = Cardinality(Popping)
      /\ m_msgQueue \in Seq(Requests) /\ pc \in [Senders -> SenderLabels]
  BY SendersAssumption, FS_Subset, FS_CardinalityType
  DEF Popping, NotifyFindsPacket, TypeInv, TypeOK
<1>1. CASE m_msgQueue' = m_msgQueue /\ Popping' = Popping
  BY <1>0, <1>1
<1>2. ASSUME NEW s \in Senders, PushRequest(s)
      PROVE  Len(m_msgQueue') = Cardinality(Popping')
  <2>1. s \notin Popping /\ Popping' = Popping \cup {s}
    BY <1>0, <1>2 DEF PushRequest, Goto, Popping
  <2>2. Cardinality(Popping \cup {s}) = Cardinality(Popping) + 1
    BY <1>0, <2>1, FS_AddElement
  <2>3. packet[s] \in Requests
    BY <1>2 DEF PushRequest, Goto, TypeInv, Present, Preparing
  <2>4. Len(m_msgQueue') = Len(m_msgQueue) + 1
    BY <1>0, <1>2, <2>3 DEF PushRequest
  <2> QED
    BY <1>0, <2>1, <2>2, <2>4
<1>3. ASSUME NEW s \in Senders, NotifyPop(s)
      PROVE  Len(m_msgQueue') = Cardinality(Popping')
  <2>1. s \in Popping /\ Popping' = Popping \ {s}
    BY <1>0, <1>3 DEF NotifyPop, Goto, Popping
  <2>2. Cardinality(Popping \ {s}) = Cardinality(Popping) - 1
    BY <1>0, <2>1, FS_RemoveElement
  <2>3. m_msgQueue # <<>>
    <3>1. Cardinality(Popping) # 0
      BY <1>0, <2>1, FS_EmptySet
    <3> QED
      BY <1>0, <3>1
  <2>4. Len(m_msgQueue') = Len(m_msgQueue) - 1
    BY <1>0, <1>3, <2>3 DEF NotifyPop
  <2> QED
    BY <1>0, <2>1, <2>2, <2>4
<1>4. ASSUME NEW s \in Senders,
             \/ \E r \in Receivers : GenerateId(s, r)
             \/ RegisterReceiverId(s) \/ WriteSome(s) \/ WriteRest(s) \/ WriteFails(s)
      PROVE  m_msgQueue' = m_msgQueue /\ Popping' = Popping
  BY <1>0, <1>4 DEF GenerateId, RegisterReceiverId, WriteSome, WriteRest,
     WriteFails, WriteReturns, Goto, senderVars, Popping
<1>5. CASE \/ \E request \in atServer : ServerReplies(request)
           \/ ReceiveStep
           \/ \E r \in Receivers : RegisterReceiver(r) \/ DeregisterReceiver(r)
           \/ UNCHANGED vars
  BY <1>1, <1>5 DEF ServerReplies, ReceiveStep, GetAndRemoveReceiver,
     GetMessageReceiver, CallReceiver, RegisterReceiver, DeregisterReceiver,
     senderVars, vars, Popping
<1> QED
  BY <1>1, <1>2, <1>3, <1>4, <1>5 DEF Next, SendStep

(* No sender is ever told that its request failed because another one has   *)
(* taken it, and no packet is left without a sender that will write it.     *)
THEOREM PacketsFound == Spec => []NotifyFindsPacket
<1>1. Init => NotifyFindsPacket
  <2> SUFFICES ASSUME Init PROVE NotifyFindsPacket
    OBVIOUS
  <2>1. {s \in Senders : pc[s] = "notify"} = {} /\ Len(m_msgQueue) = 0
    BY DEF Init
  <2> QED
    BY <2>1, FS_EmptySet DEF NotifyFindsPacket
<1> QED
  BY <1>1, TypesHold, PoppersStep, PTL DEF Spec
-----------------------------------------------------------------------------
Answered == IF readerPc = "lookup" THEN {reply} ELSE {}

(* Every request that is being prepared or is still to be answered has an   *)
(* id of its own, and is in one place.                                      *)
OwnIds ==
    /\ \A s \in Preparing : packet[s].id \in 1..m_requestId
    /\ \A request \in Pending : request.id \in 1..m_requestId
    /\ \A s, u \in Preparing : packet[s].id = packet[u].id => s = u
    /\ \A s \in Preparing, request \in Pending : packet[s].id # request.id

OnePlace ==
    /\ \A i, j \in 1..Len(m_msgQueue) : m_msgQueue[i].id = m_msgQueue[j].id => i = j
    /\ \A i \in 1..Len(m_msgQueue), s \in Writing : m_msgQueue[i].id # popped[s].id
    /\ \A i \in 1..Len(m_msgQueue), request \in atServer \cup Answered :
          m_msgQueue[i].id # request.id
    /\ \A s, u \in Writing : popped[s].id = popped[u].id => s = u
    /\ \A s \in Writing, request \in atServer \cup Answered :
          popped[s].id # request.id
    /\ \A r, q \in atServer : r.id = q.id => r = q
    /\ \A r \in atServer, q \in Answered : r.id # q.id

(* The map knows the receiver of whoever asked, before the request is       *)
(* queued and until its reply is looked up.                                 *)
Mapped ==
    /\ m_requestId \in 0..MaxRequests
    /\ \A s \in Senders : pc[s] = "push" => m_requestMap[packet[s].id] = packet[s].receiver
    /\ RegisteredBeforeSent
    /\ ReplyToRequester

RoutingInv == OwnIds /\ OnePlace /\ Mapped
-----------------------------------------------------------------------------
(* Pending, one place at a time.                                            *)
LEMMA PendingPlaces ==
    ASSUME NEW request
    PROVE  request \in Pending <=>
             \/ \E i \in 1..Len(m_msgQueue) : request = m_msgQueue[i]
             \/ \E s \in Writing : request = popped[s]
             \/ request \in atServer
             \/ request \in Answered
  BY DEF Pending, Queued, Written, Writing, Answered

(* What is pending is a request.                                            *)
LEMMA PendingType ==
    ASSUME TypeInv
    PROVE  Pending \subseteq Requests
<1>1. \A i \in 1..Len(m_msgQueue) : m_msgQueue[i] \in Requests
  BY DEF TypeInv, TypeOK
<1> QED
  BY <1>1 DEF TypeInv, TypeOK, Present, Pending, Queued, Written, Writing

(* A step that moves a request from one place to another, or loses it.      *)
LEMMA SamePending ==
    ASSUME RoutingInv, Pending' \subseteq Pending,
           Preparing' = Preparing, UNCHANGED <<m_requestId, m_requestMap, packet>>,
           \A s \in Senders : pc'[s] = "push" => pc[s] = "push",
           UNCHANGED <<target, reply>>, readerPc' \in {"get", "call"} => readerPc \in {"get", "call"}
    PROVE  OwnIds' /\ Mapped'
<1>1. OwnIds'
  BY DEF RoutingInv, OwnIds
<1>2. Mapped'
  BY DEF RoutingInv, Mapped, RegisteredBeforeSent, ReplyToRequester
<1> QED
  BY <1>1, <1>2

(* A step that touches neither a place nor a request.                       *)
LEMMA SamePlaces ==
    ASSUME OnePlace, Writing' = Writing, Answered' = Answered,
           UNCHANGED <<m_msgQueue, popped, atServer>>
    PROVE  OnePlace' /\ Pending' = Pending
<1>1. OnePlace'
  BY DEF OnePlace
<1> QED
  BY <1>1 DEF Pending, Queued, Written, Writing, Answered

(* sendNGPMessage up to the push.                                           *)
LEMMA PrepareStep ==
    ASSUME TypeInv, RoutingInv, NEW s \in Senders,
           \/ \E r \in Receivers : GenerateId(s, r)
           \/ RegisterReceiverId(s) \/ PushRequest(s)
    PROVE  RoutingInv'
<1>0. /\ m_requestId \in Nat /\ m_msgQueue \in Seq(Requests)
      /\ pc \in [Senders -> SenderLabels]
      /\ packet \in [Senders -> Requests \cup {NoPacket}]
      /\ m_requestMap \in [Keys -> Receivers \cup {NoReceiver}]
      /\ \A u \in Preparing : packet[u] \in Requests /\ packet[u].id \in Keys
  BY WireIdType, IdsAssumption DEF TypeInv, TypeOK, Present, Keys
<1>1. ASSUME NEW r \in Receivers, GenerateId(s, r)
      PROVE  RoutingInv'
  <2> DEFINE id == m_requestId + 1
  <2>1. /\ (m_requestId + 1) % KeyIds = id
        /\ m_requestId' = id /\ id \in 1..MaxRequests
    BY <1>0, <1>1, IdsAssumption DEF GenerateId
  <2>2. /\ packet' = [packet EXCEPT ![s] = [id |-> id, receiver |-> r]]
        /\ Preparing' = Preparing \cup {s} /\ Writing' = Writing /\ s \notin Preparing
        /\ \A u \in Senders : pc'[u] = "push" <=> pc[u] = "push"
    BY <1>0, <1>1, <2>1 DEF GenerateId, Goto, Preparing, Writing
  <2>3. UNCHANGED <<m_requestMap, m_msgQueue, popped, atServer, readerPc, reply, target>>
    BY <1>1 DEF GenerateId, readerVars
  <2>4. OnePlace' /\ Pending' = Pending
    BY <2>2, <2>3, SamePlaces DEF RoutingInv, Answered
  <2>5. packet'[s].id = id /\ \A u \in Preparing : packet'[u] = packet[u]
    BY <1>0, <2>2 DEF Preparing
  <2>6. /\ \A u \in Preparing : packet[u].id \in 1..m_requestId
        /\ \A request \in Pending : request.id \in 1..m_requestId
    BY DEF RoutingInv, OwnIds
  <2>7. /\ \A n \in 1..m_requestId : n \in 1..id /\ n # id
        /\ id \in 1..id
    BY <1>0
  <2>8. OwnIds'
    <3> HIDE DEF id
    <3>1. /\ \A u \in Preparing' : packet'[u].id \in 1..m_requestId'
          /\ \A request \in Pending' : request.id \in 1..m_requestId'
      BY <2>1, <2>2, <2>4, <2>5, <2>6, <2>7
    <3>2. \A u, v \in Preparing' : packet'[u].id = packet'[v].id => u = v
      BY <2>2, <2>5, <2>6, <2>7 DEF RoutingInv, OwnIds
    <3>3. \A u \in Preparing', request \in Pending' : packet'[u].id # request.id
      BY <2>2, <2>4, <2>5, <2>6, <2>7 DEF RoutingInv, OwnIds
    <3> QED
      BY <3>1, <3>2, <3>3 DEF OwnIds
  <2>9. Mapped'
    <3>1. \A u \in Senders : pc'[u] = "push" => m_requestMap'[packet'[u].id] = packet'[u].receiver
      BY <2>2, <2>3, <2>5 DEF RoutingInv, Mapped, Preparing
    <3>2. RegisteredBeforeSent' /\ ReplyToRequester'
      BY <2>3, <2>4 DEF RoutingInv, Mapped, RegisteredBeforeSent, ReplyToRequester
    <3>3. m_requestId' \in 0..MaxRequests
      BY <2>1, IdsAssumption
    <3> QED
      BY <3>1, <3>2, <3>3 DEF Mapped
  <2> QED
    BY <2>4, <2>8, <2>9 DEF RoutingInv
<1>2. CASE RegisterReceiverId(s)
  <2>1. /\ s \in Preparing /\ Preparing' = Preparing /\ Writing' = Writing
        /\ \A u \in Senders : pc'[u] = "push" => u = s \/ pc[u] = "push"
        /\ UNCHANGED <<m_requestId, m_msgQueue, packet, popped, atServer, readerPc, reply, target>>
    BY <1>0, <1>2 DEF RegisterReceiverId, Goto, Preparing, Writing, readerVars
  <2>2. OnePlace' /\ Pending' = Pending
    BY <2>1, SamePlaces DEF RoutingInv, Answered
  <2>3. OwnIds'
    BY <2>1, <2>2 DEF RoutingInv, OwnIds
  <2>4. /\ m_requestMap'[packet[s].id] = packet[s].receiver
        /\ \A k \in Keys : k # packet[s].id => m_requestMap'[k] = m_requestMap[k]
    BY <1>0, <1>2, <2>1 DEF RegisterReceiverId
  <2>5. \A request \in Pending : request.id \in Keys /\ request.id # packet[s].id
    BY <2>1, PendingType, WireIdType DEF RoutingInv, OwnIds
  <2>6. RegisteredBeforeSent'
    BY <2>2, <2>4, <2>5 DEF RoutingInv, Mapped, RegisteredBeforeSent
  <2>7. ASSUME NEW u \in Senders, pc'[u] = "push"
        PROVE  m_requestMap'[packet'[u].id] = packet'[u].receiver
    <3>1. CASE u = s
      BY <2>1, <2>4, <3>1
    <3>2. CASE u # s
      <4>1. u \in Preparing /\ pc[u] = "push"
        BY <2>1, <2>7, <3>2 DEF Preparing
      <4>2. packet[u].id \in Keys /\ packet[u].id # packet[s].id
        BY <1>0, <2>1, <3>2, <4>1 DEF RoutingInv, OwnIds
      <4> QED
        BY <2>1, <2>4, <4>1, <4>2 DEF RoutingInv, Mapped
    <3> QED
      BY <3>1, <3>2
  <2>8. Mapped'
    BY <2>1, <2>6, <2>7 DEF RoutingInv, Mapped, ReplyToRequester
  <2> QED
    BY <2>2, <2>3, <2>8 DEF RoutingInv
<1>3. CASE PushRequest(s)
  <2> DEFINE new == packet[s]
             n == Len(m_msgQueue)
  <2>1. /\ s \in Preparing /\ Preparing' = Preparing \ {s} /\ Writing' = Writing
        /\ pc[s] = "push"
        /\ \A u \in Senders : pc'[u] = "push" => u # s /\ pc[u] = "push"
        /\ \A u \in Senders \ {s} : packet'[u] = packet[u]
        /\ UNCHANGED <<m_requestId, m_requestMap, popped, atServer, readerPc, reply, target>>
    BY <1>0, <1>3 DEF PushRequest, Goto, Preparing, Writing, readerVars
  <2>2. new \in Requests /\ n \in Nat
    BY <1>0, <2>1
  <2>3. /\ Len(m_msgQueue') = n + 1 /\ m_msgQueue'[n + 1] = new
        /\ \A i \in 1..n : m_msgQueue'[i] = m_msgQueue[i]
    BY <1>0, <1>3, <2>2 DEF PushRequest
  <2>4. \A i \in 1..(n + 1) : i \in 1..n \/ i = n + 1
    BY <2>2
  <2>5. Answered' = Answered
    BY <2>1 DEF Answered
  <2>6. \A request \in Pending' : request \in Pending \/ request = new
    BY <2>1, <2>3, <2>4 DEF Pending, Queued, Written, Writing
  <2>7. \A request \in Pending : request.id # new.id
    BY <2>1 DEF RoutingInv, OwnIds
  <2>8. /\ \A i \in 1..n : m_msgQueue[i] \in Pending
        /\ \A u \in Writing : popped[u] \in Pending
        /\ atServer \cup Answered \subseteq Pending
    BY PendingPlaces
  <2>9. OnePlace'
    <3> HIDE DEF new, n
    <3> USE <2>1, <2>3, <2>4, <2>5, <2>7, <2>8 DEF RoutingInv
    <3>1. n = Len(m_msgQueue)
      BY DEF n
    <3>2. \A i, j \in 1..Len(m_msgQueue)' : m_msgQueue'[i].id = m_msgQueue'[j].id => i = j
      BY <3>1 DEF OnePlace
    <3>3. \A i \in 1..Len(m_msgQueue)', u \in Writing' : m_msgQueue'[i].id # popped'[u].id
      BY <3>1 DEF OnePlace
    <3>4. \A i \in 1..Len(m_msgQueue)', request \in (atServer \cup Answered)' :
              m_msgQueue'[i].id # request.id
      BY <3>1 DEF OnePlace
    <3> QED
      BY <3>2, <3>3, <3>4 DEF OnePlace
  <2>10. OwnIds'
    <3>1. new.id \in 1..m_requestId /\ \A u \in Preparing \ {s} : packet[u].id # new.id
      BY <2>1 DEF RoutingInv, OwnIds
    <3>2. Preparing' \subseteq Preparing /\ \A u \in Preparing' : u # s /\ packet'[u] = packet[u]
      BY <2>1 DEF Preparing
    <3> HIDE DEF new, n
    <3>3. /\ \A u \in Preparing' : packet'[u].id \in 1..m_requestId'
          /\ \A request \in Pending' : request.id \in 1..m_requestId'
      BY <2>1, <2>6, <3>1, <3>2 DEF RoutingInv, OwnIds
    <3>4. \A u, v \in Preparing' : packet'[u].id = packet'[v].id => u = v
      BY <3>2 DEF RoutingInv, OwnIds
    <3>5. \A u \in Preparing', request \in Pending' : packet'[u].id # request.id
      BY <2>1, <2>6, <3>1, <3>2 DEF RoutingInv, OwnIds
    <3> QED
      BY <3>3, <3>4, <3>5 DEF OwnIds
  <2>11. Mapped'
    <3>1. m_requestMap[new.id] = new.receiver
      BY <2>1 DEF RoutingInv, Mapped
    <3>2. RegisteredBeforeSent'
      BY <2>1, <2>6, <3>1 DEF RoutingInv, Mapped, RegisteredBeforeSent
    <3> QED
      BY <2>1, <3>2 DEF RoutingInv, Mapped, ReplyToRequester
  <2> QED
    BY <2>9, <2>10, <2>11 DEF RoutingInv
<1> QED
  BY <1>1, <1>2, <1>3

(* notify and the writes.                                                   *)
LEMMA SendingStep ==
    ASSUME TypeInv, RoutingInv, NEW s \in Senders,
           NotifyPop(s) \/ WriteSome(s) \/ WriteRest(s) \/ WriteFails(s)
    PROVE  RoutingInv'
<1>0. /\ m_msgQueue \in Seq(Requests) /\ pc \in [Senders -> SenderLabels]
      /\ popped \in [Senders -> Requests \cup {NoPacket}]
  BY DEF TypeInv, TypeOK
<1>1. /\ Preparing' = Preparing
      /\ \A u \in Senders : pc'[u] = "push" => pc[u] = "push"
      /\ UNCHANGED <<m_requestId, m_requestMap, packet, target, reply, readerPc>>
  BY <1>0 DEF NotifyPop, WriteSome, WriteRest, WriteFails, WriteReturns, Goto,
     Preparing, senderVars, readerVars
<1>2. Answered' = Answered
  BY <1>1 DEF Answered
<1>3. ASSUME Pending' \subseteq Pending, OnePlace'
      PROVE  RoutingInv'
  BY <1>1, <1>3, SamePending DEF RoutingInv
<1>4. CASE Writing' = Writing /\ UNCHANGED <<m_msgQueue, popped, atServer>>
  BY <1>2, <1>3, <1>4, SamePlaces DEF RoutingInv
<1>5. ASSUME NotifyPop(s), m_msgQueue # <<>>
      PROVE  RoutingInv'
  <2> DEFINE n == Len(m_msgQueue)
  <2>1. /\ n \in Nat /\ n >= 1 /\ Len(m_msgQueue') = n - 1
        /\ \A i \in 1..(n - 1) : /\ m_msgQueue'[i] = m_msgQueue[i + 1]
                                /\ i + 1 \in 1..n /\ i + 1 # 1
        /\ \A i, j \in 1..(n - 1) : i + 1 = j + 1 => i = j
        /\ 1 \in 1..n
    BY <1>0, <1>5 DEF NotifyPop
  <2>2. /\ s \notin Writing /\ Writing' = Writing \cup {s}
        /\ popped'[s] = m_msgQueue[1]
        /\ \A u \in Writing : popped'[u] = popped[u]
        /\ atServer' = atServer
    BY <1>0, <1>5 DEF NotifyPop, Goto, Writing, writeVars
  <2> HIDE DEF n
  <2>3. n = Len(m_msgQueue)
    BY DEF n
  <2>4. Pending' \subseteq Pending
    <3>1. \A request \in Pending' :
              \/ \E i \in 1..Len(m_msgQueue') : request = m_msgQueue'[i]
              \/ \E u \in Writing' : request = popped'[u]
              \/ request \in atServer' \/ request \in Answered'
      BY DEF Pending, Queued, Written, Writing, Answered
    <3> QED
      BY <1>2, <2>1, <2>2, <2>3, <3>1, PendingPlaces
  <2>5. OnePlace'
    <3> USE <1>2, <2>1, <2>2, <2>3 DEF RoutingInv
    <3>1. \A i, j \in 1..Len(m_msgQueue)' : m_msgQueue'[i].id = m_msgQueue'[j].id => i = j
      BY DEF OnePlace
    <3>2. \A i \in 1..Len(m_msgQueue)', u \in Writing' : m_msgQueue'[i].id # popped'[u].id
      BY DEF OnePlace
    <3>3. \A i \in 1..Len(m_msgQueue)', request \in (atServer \cup Answered)' :
              m_msgQueue'[i].id # request.id
      BY DEF OnePlace
    <3>4. \A u, v \in Writing' : popped'[u].id = popped'[v].id => u = v
      BY DEF OnePlace
    <3>5. \A u \in Writing', request \in (atServer \cup Answered)' :
              popped'[u].id # request.id
      BY DEF OnePlace
    <3> QED
      BY <3>1, <3>2, <3>3, <3>4, <3>5 DEF OnePlace
  <2> QED
    BY <1>3, <2>4, <2>5
<1>6. ASSUME /\ s \in Writing /\ Writing' = Writing \ {s}
             /\ popped' = [popped EXCEPT ![s] = NoPacket]
             /\ m_msgQueue' = m_msgQueue
             /\ atServer' \subseteq atServer \cup {popped[s]}
      PROVE  RoutingInv'
  <2>1. \A u \in Writing' : u \in Writing /\ u # s /\ popped'[u] = popped[u]
    BY <1>0, <1>6 DEF Writing
  <2>2. \A request \in Pending' :
            \/ \E i \in 1..Len(m_msgQueue') : request = m_msgQueue'[i]
            \/ \E u \in Writing' : request = popped'[u]
            \/ request \in atServer' \/ request \in Answered'
    BY DEF Pending, Queued, Written, Writing, Answered
  <2>3. Pending' \subseteq Pending
    BY <1>2, <1>6, <2>1, <2>2, PendingPlaces
  <2>4. OnePlace'
    BY <1>2, <1>6, <2>1 DEF RoutingInv, OnePlace
  <2> QED
    BY <1>3, <2>3, <2>4
<1>7. ASSUME WriteReturns(s), atServer' \subseteq atServer \cup {popped[s]}
      PROVE  RoutingInv'
  <2>1. s \in Writing /\ Writing' = Writing \ {s}
    BY <1>0, <1>7 DEF WriteReturns, Goto, Writing
  <2> QED
    BY <1>6, <1>7, <2>1 DEF WriteReturns
<1>8. CASE NotifyPop(s) /\ m_msgQueue = <<>>
  BY <1>0, <1>4, <1>8 DEF NotifyPop, Goto, Writing, writeVars
<1>9. CASE WriteSome(s)
  BY <1>4, <1>9 DEF WriteSome, senderVars, Writing
<1>10. CASE WriteRest(s)
  BY <1>7, <1>10 DEF WriteRest
<1>11. CASE WriteFails(s)
  <2>1. atServer' = atServer
    BY <1>11 DEF WriteFails
  <2>2. CASE WriteReturns(s)
    BY <1>7, <2>1, <2>2
  <2>3. CASE UNCHANGED <<m_msgQueue, senderVars>>
    BY <1>4, <2>1, <2>3 DEF senderVars, Writing
  <2> QED
    BY <1>11, <2>2, <2>3 DEF WriteFails
<1> QED
  BY <1>5, <1>8, <1>9, <1>10, <1>11

(* A reply and the look-up of its receiver.                                 *)
LEMMA ReplyStep ==
    ASSUME MaxRequests < WireIds, TypeInv, RoutingInv,
           (\E request \in atServer : ServerReplies(request)) \/ ReceiveStep
    PROVE  RoutingInv'
<1>1. /\ Preparing' = Preparing /\ Writing' = Writing
      /\ UNCHANGED <<m_requestId, m_msgQueue, pc, packet, popped>>
  BY DEF ServerReplies, ReceiveStep, GetAndRemoveReceiver, GetMessageReceiver,
     CallReceiver, senderVars, Preparing, Writing
<1>2. \A request \in Pending' :
          \/ \E i \in 1..Len(m_msgQueue) : request = m_msgQueue[i]
          \/ \E u \in Writing : request = popped[u]
          \/ request \in atServer' \/ request \in Answered'
  BY <1>1 DEF Pending, Queued, Written, Writing, Answered
<1>3. ASSUME NEW request \in atServer, ServerReplies(request)
      PROVE  RoutingInv'
  <2>1. /\ Answered' = {request} /\ Answered = {}
        /\ atServer' = atServer \ {request}
        /\ UNCHANGED <<m_requestMap, target>>
        /\ readerPc' = "lookup"
    BY <1>3 DEF ServerReplies, ReaderGoto, Answered
  <2>2. Pending' \subseteq Pending
    BY <1>2, <2>1, PendingPlaces
  <2>3. OnePlace'
    BY <1>1, <2>1 DEF RoutingInv, OnePlace
  <2>4. OwnIds'
    BY <1>1, <2>2 DEF RoutingInv, OwnIds
  <2>5. Mapped'
    BY <1>1, <2>1, <2>2 DEF RoutingInv, Mapped, RegisteredBeforeSent, ReplyToRequester
  <2> QED
    BY <2>3, <2>4, <2>5 DEF RoutingInv
<1>4. CASE GetAndRemoveReceiver
  <2>1. /\ Answered = {reply} /\ Answered' = {} /\ reply \in Pending
        /\ UNCHANGED <<atServer, reply>>
        /\ reply \in Requests /\ reply.id \in Keys /\ reply.receiver \in Receivers
    BY <1>4, PendingPlaces, WireIdType
    DEF GetAndRemoveReceiver, ReaderGoto, Answered, TypeInv, Present
  <2>2. WireId(reply) = reply.id
    <3>1. reply.id \in 1..m_requestId /\ m_requestId \in 0..MaxRequests
      BY <2>1 DEF RoutingInv, OwnIds, Mapped
    <3>2. reply.id \in 0..(WireIds - 1)
      BY <3>1, IdsAssumption
    <3> QED
      BY <3>2, IdsAssumption DEF WireId
  <2>3. m_requestMap[reply.id] = reply.receiver /\ reply.receiver # NoReceiver
    BY <2>1, ReceiversAssumption DEF RoutingInv, Mapped, RegisteredBeforeSent
  <2>4. target' = reply.receiver
    BY <1>4, <2>2, <2>3 DEF GetAndRemoveReceiver
  <2>5. \A k : k \in Keys /\ k # reply.id => m_requestMap'[k] = m_requestMap[k]
    BY <1>4, <2>2 DEF GetAndRemoveReceiver, TypeInv, TypeOK
  <2>6. \A request \in Pending' : request \in Pending /\ request.id # reply.id
    BY <1>2, <2>1, PendingPlaces DEF RoutingInv, OnePlace
  <2>7. OnePlace'
    BY <1>1, <2>1 DEF RoutingInv, OnePlace
  <2>8. OwnIds'
    BY <1>1, <2>6 DEF RoutingInv, OwnIds
  <2>9. RegisteredBeforeSent'
    <3>1. \A request \in Pending' : request.id \in Keys
      BY <2>6, PendingType, WireIdType
    <3> QED
      BY <2>5, <2>6, <3>1 DEF RoutingInv, Mapped, RegisteredBeforeSent
  <2>10. \A s \in Senders : pc'[s] = "push" => m_requestMap'[packet'[s].id] = packet'[s].receiver
    <3> SUFFICES ASSUME NEW s \in Senders, pc[s] = "push"
                 PROVE  m_requestMap'[packet[s].id] = packet[s].receiver
      BY <1>1
    <3>1. s \in Preparing
      BY DEF Preparing
    <3>2. packet[s].id \in Keys /\ packet[s].id # reply.id
      BY <2>1, <3>1, WireIdType DEF RoutingInv, OwnIds, TypeInv, Present
    <3> QED
      BY <2>5, <3>2 DEF RoutingInv, Mapped
  <2>11. Mapped'
    BY <1>1, <2>1, <2>4, <2>9, <2>10 DEF RoutingInv, Mapped, ReplyToRequester
  <2> QED
    BY <2>7, <2>8, <2>11 DEF RoutingInv
<1>5. CASE GetMessageReceiver \/ CallReceiver
  <2>1. /\ UNCHANGED <<m_requestMap, atServer, reply, target>>
        /\ Answered' = Answered
        /\ readerPc' \in {"get", "call"} => readerPc \in {"get", "call"}
    BY <1>5 DEF GetMessageReceiver, CallReceiver, ReaderGoto, Answered
  <2>2. OnePlace' /\ Pending' = Pending
    BY <1>1, <2>1, SamePlaces DEF RoutingInv
  <2> QED
    BY <1>1, <2>1, <2>2, SamePending DEF RoutingInv
<1> QED
  BY <1>3, <1>4, <1>5 DEF ReceiveStep

(* Every step preserves the routing invariant while the ids of all requests *)
(* fit into a packet.                                                       *)
LEMMA RoutingStep ==
    ASSUME MaxRequests < WireIds
    PROVE  TypeInv /\ RoutingInv /\ [Next]_vars => RoutingInv'
<1> SUFFICES ASSUME TypeInv, RoutingInv, [Next]_vars
             PROVE  RoutingInv'
  OBVIOUS
<1>1. CASE \/ UNCHANGED vars
           \/ \E r \in Receivers : RegisterReceiver(r) \/ DeregisterReceiver(r)
  <2>1. /\ UNCHANGED <<m_requestId, m_requestMap, m_msgQueue, pc, packet, popped,
                       atServer, readerPc, reply, target>>
        /\ Preparing' = Preparing /\ Writing' = Writing /\ Answered' = Answered
    BY <1>1 DEF vars, RegisterReceiver, DeregisterReceiver, senderVars, readerVars,
       Preparing, Writing, Answered
  <2>2. OnePlace' /\ Pending' = Pending
    BY <2>1, SamePlaces DEF RoutingInv
  <2> QED
    BY <2>1, <2>2, SamePending DEF RoutingInv
<1>2. CASE Next
  BY <1>1, <1>2, PrepareStep, SendingStep, ReplyStep DEF Next, SendStep
<1> QED
  BY <1>1, <1>2

(* The routing invariant.                                                   *)
THEOREM Routing == ASSUME MaxRequests < WireIds
                   PROVE  Spec => []RoutingInv
<1>1. Init => RoutingInv
  <2> SUFFICES ASSUME Init PROVE RoutingInv
    OBVIOUS
  <2>1. /\ Preparing = {} /\ Writing = {} /\ Pending = {} /\ Answered = {}
        /\ 1..Len(m_msgQueue) = {} /\ atServer = {}
    BY DEF Init, Preparing, Writing, Pending, Queued, Written, Answered
  <2>2. OwnIds /\ OnePlace
    BY <2>1 DEF OwnIds, OnePlace
  <2>3. m_requestId \in 0..MaxRequests
    BY IdsAssumption DEF Init
  <2>4. Mapped
    BY <2>1, <2>3 DEF Init, Mapped, RegisteredBeforeSent, ReplyToRequester
  <2> QED
    BY <2>2, <2>4 DEF RoutingInv
<1>2. TypeInv /\ RoutingInv /\ [Next]_vars => RoutingInv'
  BY RoutingStep
<1> QED
  BY <1>1, <1>2, TypesHold, PTL DEF Spec

(* While fewer requests are made than a packet can number, the receiver of  *)
(* a request is in the map when its reply arrives, however early that is.   *)
THEOREM RegisteredFirst == ASSUME MaxRequests < WireIds
                           PROVE  Spec => []RegisteredBeforeSent
<1>1. RoutingInv => RegisteredBeforeSent
  BY DEF RoutingInv, Mapped
<1> QED
  BY <1>1, Routing, PTL

(* While fewer requests are made than a packet can number, every reply goes *)
(* to the module that sent the request.                                     *)
THEOREM RepliesRouted == ASSUME MaxRequests < WireIds
                         PROVE  Spec => []ReplyToRequester
<1>1. RoutingInv => ReplyToRequester
  BY DEF RoutingInv, Mapped
<1> QED
  BY <1>1, Routing, PTL
=============================================================================
