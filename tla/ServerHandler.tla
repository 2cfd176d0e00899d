---------------------------- MODULE ServerHandler ----------------------------
(***************************************************************************)
(* ServerCom: sending requests to the server and routing the replies back  *)
(* to the module that asked (ServerHandler, RequestIdGenerator,            *)
(* RequestMapHolder, ReceiverMapHolder, MessageDispatcher::sendNGPMessage).*)
(*                                                                         *)
(* Any number of threads send. A sender does the network write itself, of  *)
(* whatever packet is at the head of the queue, and several may be writing *)
(* to the one connection at a time. The reader thread of the connection    *)
(* hands each reply to receivedNGPPacket. The server is external: it may   *)
(* answer a request it has received at any time, in any order, or never.   *)
(*                                                                         *)
(* The request id is 32 bits wide in the generator and in the request map  *)
(* and 8 bits wide in the packets (NavPacket::setReqID(byte)), so the      *)
(* reply to request n carries n modulo 256.                                *)
(***************************************************************************)
EXTENDS Naturals, Sequences, FiniteSets

CONSTANTS Senders,          \* threads that call sendNGPMessage
          Receivers,        \* ReceiverModuleIds
          CV3_MSG_ROUTER,   \* the ReceiverModuleId that is 0
          KeyIds,           \* number of request ids in the map, 2^32
          WireIds,          \* number of request ids in a packet, 256
          MaxRequests,      \* bound: requests of one run of the program
          WriteErrors,      \* whether write(2) on the socket may fail
          NoReceiver, NoPacket

ASSUME SendersAssumption == IsFiniteSet(Senders)
ASSUME ReceiversAssumption == /\ CV3_MSG_ROUTER \in Receivers
                              /\ NoReceiver \notin Receivers
ASSUME IdsAssumption == /\ WireIds \in Nat \ {0}
                        /\ KeyIds \in Nat \ {0}
                        /\ WireIds <= KeyIds
                        /\ MaxRequests \in Nat
                        /\ MaxRequests < KeyIds
                        /\ WriteErrors \in BOOLEAN

Keys == 0 .. (KeyIds - 1)

(* A request packet: the id it was given, and - not in the packet, for the  *)
(* properties only - the module that is to get the reply.                   *)
Requests == [id : Keys, receiver : Receivers]
WireId(request) == request.id % WireIds

ASSUME NoPacketAssumption == NoPacket \notin Requests

VARIABLES m_requestId,          \* RequestIdGenerator
          m_requestMap,         \* key -> receiver, or NoReceiver: no entry
          m_messageReceiverMap, \* the receivers that are registered
          m_msgQueue,           \* requests to be written
          pc,                   \* where each sender is
          packet,               \* packet[s]: the request s is sending
          popped,               \* popped[s]: the request s writes
          partial,              \* senders that have written a part of popped[s]
          streamWhole,          \* the bytes written so far are whole packets
          atServer,             \* requests the server has got and not answered
          readerPc,             \* where the reader thread is
          reply,                \* the request whose reply the reader handles
          target                \* the receiver id found for it

senderVars == <<pc, packet, popped>>
writeVars == <<partial, streamWhole>>
readerVars == <<readerPc, reply, target>>
vars == <<m_requestId, m_requestMap, m_messageReceiverMap, m_msgQueue,
          senderVars, writeVars, atServer, readerVars>>

SenderLabels == {"idle", "register", "push", "notify", "send"}
ReaderLabels == {"idle", "lookup", "get", "call"}

Init == /\ m_requestId = 0
        /\ m_requestMap = [k \in Keys |-> NoReceiver]
        /\ m_messageReceiverMap = {}
        /\ m_msgQueue = <<>>
        /\ pc = [s \in Senders |-> "idle"]
        /\ packet = [s \in Senders |-> NoPacket]
        /\ popped = [s \in Senders |-> NoPacket]
        /\ partial = {}
        /\ streamWhole = TRUE
        /\ atServer = {}
        /\ readerPc = "idle"
        /\ reply = NoPacket
        /\ target = NoReceiver

Goto(s, from, to) == pc[s] = from /\ pc' = [pc EXCEPT ![s] = to]
ReaderGoto(from, to) == readerPc = from /\ readerPc' = to
-----------------------------------------------------------------------------
(* sendNGPMessage *)

\* Mutant of GenerateId: without its mutex the generator loses increments.
GenerateId_LostUpdate(s, r) ==
    LET id == (m_requestId + 1) % KeyIds IN
    /\ m_requestId < MaxRequests
    /\ Goto(s, "idle", "register")
    /\ m_requestId' \in {m_requestId, id}
    /\ packet' = [packet EXCEPT ![s] = [id |-> id, receiver |-> r]]
    /\ UNCHANGED <<m_requestMap, m_messageReceiverMap, m_msgQueue, popped,
                   writeVars, atServer, readerVars>>

\* ++m_requestId under the generator's mutex; packet->setReqID(requestId)
GenerateId(s, r) ==
    LET id == (m_requestId + 1) % KeyIds IN
    /\ m_requestId < MaxRequests
    /\ Goto(s, "idle", "register")
    /\ m_requestId' = id
    /\ packet' = [packet EXCEPT ![s] = [id |-> id, receiver |-> r]]
    /\ UNCHANGED <<m_requestMap, m_messageReceiverMap, m_msgQueue, popped,
                   writeVars, atServer, readerVars>>

\* Mutant of RegisterReceiverId: forgets which module asks.
RegisterReceiverId_Forgets(s) ==
    /\ Goto(s, "register", "push")
    /\ m_requestMap' = [m_requestMap EXCEPT ![packet[s].id] = CV3_MSG_ROUTER]
    /\ UNCHANGED <<m_requestId, m_messageReceiverMap, m_msgQueue, packet, popped,
                   writeVars, atServer, readerVars>>

RegisterReceiverId(s) ==
    /\ Goto(s, "register", "push")
    /\ m_requestMap' = [m_requestMap EXCEPT ![packet[s].id] = packet[s].receiver]
    /\ UNCHANGED <<m_requestId, m_messageReceiverMap, m_msgQueue, packet, popped,
                   writeVars, atServer, readerVars>>

\* Mutant of PushRequest: pushes the wrong pointer.
PushRequest_Wrong(s) ==
    /\ Goto(s, "push", "notify")
    /\ m_msgQueue' = Append(m_msgQueue, popped[s])
    /\ packet' = [packet EXCEPT ![s] = NoPacket]
    /\ UNCHANGED <<m_requestId, m_requestMap, m_messageReceiverMap, popped,
                   writeVars, atServer, readerVars>>

\* Mutant of PushRequest: leaves the sending to a sender that is at it.
PushRequest_Leaves(s) ==
    /\ Goto(s, "push", IF m_msgQueue = <<>> THEN "notify" ELSE "idle")
    /\ m_msgQueue' = Append(m_msgQueue, packet[s])
    /\ packet' = [packet EXCEPT ![s] = NoPacket]
    /\ UNCHANGED <<m_requestId, m_requestMap, m_messageReceiverMap, popped,
                   writeVars, atServer, readerVars>>

PushRequest(s) ==
    /\ Goto(s, "push", "notify")
    /\ m_msgQueue' = Append(m_msgQueue, packet[s])
    /\ packet' = [packet EXCEPT ![s] = NoPacket]
    /\ UNCHANGED <<m_requestId, m_requestMap, m_messageReceiverMap, popped,
                   writeVars, atServer, readerVars>>

\* notify: tryPop. What is popped may be another sender's packet. An empty
\* queue makes notify return false and sendNGPMessage return 0.
NotifyPop(s) ==
    /\ \/ /\ m_msgQueue # <<>>
          /\ Goto(s, "notify", "send")
          /\ popped' = [popped EXCEPT ![s] = Head(m_msgQueue)]
          /\ m_msgQueue' = Tail(m_msgQueue)
       \/ /\ m_msgQueue = <<>>
          /\ Goto(s, "notify", "idle")
          /\ UNCHANGED <<popped, m_msgQueue>>
    /\ UNCHANGED <<m_requestId, m_requestMap, m_messageReceiverMap, packet,
                   writeVars, atServer, readerVars>>

\* sendBlocking: written < size, the loop goes on with the rest. Nothing
\* keeps two senders from writing to the connection in turn.
WriteSome(s) ==
    /\ pc[s] = "send"
    /\ s \notin partial
    /\ streamWhole' = (streamWhole /\ partial = {})
    /\ partial' = partial \cup {s}
    /\ UNCHANGED <<m_requestId, m_requestMap, m_messageReceiverMap, m_msgQueue,
                   senderVars, atServer, readerVars>>

WriteReturns(s) ==
    /\ Goto(s, "send", "idle")
    /\ partial' = partial \ {s}
    /\ popped' = [popped EXCEPT ![s] = NoPacket]
    /\ UNCHANGED <<m_requestId, m_requestMap, m_messageReceiverMap, m_msgQueue,
                   packet, readerVars>>

\* The rest is written and sendBlocking returns. The server gets the request,
\* unless packets were mixed: then it may or may not.
WriteRest(s) ==
    /\ WriteReturns(s)
    /\ streamWhole' = (streamWhole /\ partial \subseteq {s})
    /\ atServer' \in {atServer, atServer \cup {popped[s]}}
    /\ streamWhole' => popped[s] \in atServer'

\* write(2) fails. The result is ignored and "written" keeps what it was, at
\* first nothing defined. Above the size, it makes sendBlocking return true;
\* below, the loop goes on that many bytes further.
WriteFails(s) ==
    /\ WriteErrors
    /\ \/ /\ WriteReturns(s)
          /\ streamWhole' = (streamWhole /\ s \notin partial)
       \/ /\ pc[s] = "send"
          /\ partial' = partial \cup {s}
          /\ streamWhole' = FALSE
          /\ UNCHANGED <<m_requestId, m_requestMap, m_messageReceiverMap,
                         m_msgQueue, senderVars, readerVars>>
    /\ UNCHANGED atServer
-----------------------------------------------------------------------------
(* The reader thread: receivedNGPPacket *)

ServerReplies(request) ==
    /\ request \in atServer
    /\ ReaderGoto("idle", "lookup")
    /\ reply' = request
    /\ atServer' = atServer \ {request}
    /\ UNCHANGED <<m_requestId, m_requestMap, m_messageReceiverMap, m_msgQueue,
                   senderVars, writeVars, target>>

\* getAndRemoveReceiver(reply->getReqID()): std::map::operator[] makes an
\* entry with the value 0 when there is none, and the entry is erased.
GetAndRemoveReceiver ==
    /\ ReaderGoto("lookup", "get")
    /\ target' = IF m_requestMap[WireId(reply)] = NoReceiver
                 THEN CV3_MSG_ROUTER ELSE m_requestMap[WireId(reply)]
    /\ m_requestMap' = [m_requestMap EXCEPT ![WireId(reply)] = NoReceiver]
    /\ UNCHANGED <<m_requestId, m_messageReceiverMap, m_msgQueue, senderVars,
                   writeVars, atServer, reply>>

\* getMessageReceiver: with nobody registered the reply is dropped
GetMessageReceiver ==
    /\ \/ target \in m_messageReceiverMap /\ ReaderGoto("get", "call")
       \/ target \notin m_messageReceiverMap /\ ReaderGoto("get", "idle")
    /\ UNCHANGED <<m_requestId, m_requestMap, m_messageReceiverMap, m_msgQueue,
                   senderVars, writeVars, atServer, reply, target>>

\* receiver->receivedNGPPacket(reply)
CallReceiver ==
    /\ ReaderGoto("call", "idle")
    /\ UNCHANGED <<m_requestId, m_requestMap, m_messageReceiverMap, m_msgQueue,
                   senderVars, writeVars, atServer, reply, target>>
-----------------------------------------------------------------------------
(* Modules come and go. *)

RegisterReceiver(r) ==
    /\ m_messageReceiverMap' = m_messageReceiverMap \cup {r}
    /\ UNCHANGED <<m_requestId, m_requestMap, m_msgQueue, senderVars, writeVars,
                   atServer, readerVars>>

DeregisterReceiver(r) ==
    /\ m_messageReceiverMap' = m_messageReceiverMap \ {r}
    /\ UNCHANGED <<m_requestId, m_requestMap, m_msgQueue, senderVars, writeVars,
                   atServer, readerVars>>
-----------------------------------------------------------------------------
SendStep(s) == \/ RegisterReceiverId(s) \/ PushRequest(s) \/ NotifyPop(s)
               \/ WriteRest(s)

ReceiveStep == GetAndRemoveReceiver \/ GetMessageReceiver \/ CallReceiver

Next == \/ \E s \in Senders : \/ \E r \in Receivers : GenerateId(s, r)
                              \/ SendStep(s)
                              \/ WriteSome(s)
                              \/ WriteFails(s)
        \/ \E request \in atServer : ServerReplies(request)
        \/ ReceiveStep
        \/ \E r \in Receivers : RegisterReceiver(r) \/ DeregisterReceiver(r)

Spec == Init /\ [][Next]_vars
-----------------------------------------------------------------------------
(* Every variable stays in its type.                                        *)
TypeOK == /\ m_requestId \in Keys
          /\ m_requestMap \in [Keys -> Receivers \cup {NoReceiver}]
          /\ m_messageReceiverMap \subseteq Receivers
          /\ m_msgQueue \in Seq(Requests)
          /\ pc \in [Senders -> SenderLabels]
          /\ packet \in [Senders -> Requests \cup {NoPacket}]
          /\ popped \in [Senders -> Requests \cup {NoPacket}]
          /\ partial \subseteq Senders
          /\ streamWhole \in BOOLEAN
          /\ atServer \subseteq Requests
          /\ readerPc \in ReaderLabels
          /\ reply \in Requests \cup {NoPacket}
          /\ target \in Receivers \cup {NoReceiver}

(* "The receiverId of the module who should get the reply of the request"   *)
(* (RequestMapHolder.h:57): the id the map yields for a reply is that of    *)
(* the module that sent the request.                                        *)
ReplyToRequester == readerPc \in {"get", "call"} => target = reply.receiver

(* Requests whose map entry is still needed.                                *)
Queued == {m_msgQueue[i] : i \in 1..Len(m_msgQueue)}
Written == {popped[s] : s \in {x \in Senders : pc[x] = "send"}}
Pending == Queued \cup Written \cup atServer
            \cup (IF readerPc = "lookup" THEN {reply} ELSE {})

(* However fast the server answers, the receiver of a request is in the     *)
(* map from before the request can be written until its reply is looked up. *)
RegisteredBeforeSent == \A request \in Pending :
    m_requestMap[request.id] = request.receiver

(* sendNGPMessage never returns 0 because some other sender has popped its  *)
(* packet: there are as many packets in the queue as senders about to pop.  *)
NotifyFindsPacket ==
    Len(m_msgQueue) = Cardinality({s \in Senders : pc[s] = "notify"})

(* sendNGPMessage posts a packet "to the Serverhandler, which will send the *)
(* packet to the server" (NGPMessageSender.h:41-42): no packet is cut in    *)
(* two by the bytes of another one.                                         *)
RequestsStayWhole == streamWhole
=============================================================================
