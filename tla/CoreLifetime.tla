---------------------------- MODULE CoreLifetime ----------------------------
(* The life of a Core: the application creates its parts, sends requests    *)
(* through them and deletes them, while the reader thread of the connection *)
(* hands replies to the server handler and, through it, to the router. The  *)
(* server is external: it answers a request at any time, or never. Routing  *)
(* and reading in detail are in MessageRouter and ConnectionReader; here    *)
(* only the objects count that one thread deletes and another one uses.     *)
EXTENDS Naturals

CONSTANT MaxRequests    \* bound: requests of one run of the program

VARIABLES
    alive,          \* the objects that are constructed and not deleted
    appPc,          \* the application in createCore, between calls, in ~Core
    registered,     \* the router is in m_messageReceiverMap
    connectionUp,   \* the socket is open and the reader is to go on
    atServer,       \* requests the server may still answer
    sent,
    readerPc,
    routerPc

vars == <<alive, appPc, registered, connectionUp, atServer, sent, readerPc,
          routerPc>>

Objects == {"dispatcher", "router", "queue", "routeMutex", "requestMap",
            "receiverMap", "connections"}

Init == /\ alive = {}
        /\ appPc = "createHandler"
        /\ registered = FALSE
        /\ connectionUp = FALSE
        /\ atServer = 0
        /\ sent = 0
        /\ readerPc = "new"
        /\ routerPc = "new"

App(from, to) == appPc = from /\ appPc' = to
Reader(from, to) == readerPc = from /\ readerPc' = to
-----------------------------------------------------------------------------
(* createCore *)

\* new ServerHandler, and sh->start(): the reader runs from here on.
CreateHandler == /\ App("createHandler", "createRouter")
                 /\ alive' = {"requestMap", "receiverMap", "connections"}
                 /\ connectionUp' = TRUE
                 /\ readerPc' = "read"
                 /\ UNCHANGED <<registered, atServer, sent, routerPc>>

\* The constructor registers the router before it makes the queue.
CreateRouter == /\ App("createRouter", "finishRouter")
                /\ alive' = alive \cup {"router"}
                /\ registered' = TRUE
                /\ UNCHANGED <<connectionUp, atServer, sent, readerPc, routerPc>>

\* The rest of the constructor, startThread, and the dispatcher.
FinishRouter == /\ App("finishRouter", "inUse")
                /\ alive' = alive \cup {"queue", "routeMutex", "dispatcher"}
                /\ routerPc' = "check"
                /\ UNCHANGED <<registered, connectionUp, atServer, sent, readerPc>>
-----------------------------------------------------------------------------
(* The application and the server *)

SendRequest == /\ appPc = "inUse" /\ sent < MaxRequests
               /\ sent' = sent + 1
               /\ atServer' = atServer + 1
               /\ UNCHANGED <<alive, appPc, registered, connectionUp, readerPc,
                              routerPc>>

ReadReply == /\ Reader("read", "lookup")
             /\ connectionUp /\ atServer > 0
             /\ atServer' = atServer - 1
             /\ UNCHANGED <<alive, appPc, registered, connectionUp, sent, routerPc>>
-----------------------------------------------------------------------------
(* ServerHandler::receivedNGPPacket, on the reader thread *)

GetAndRemoveReceiver ==
    /\ Reader("lookup", "get")
    /\ UNCHANGED <<alive, appPc, registered, connectionUp, atServer, sent, routerPc>>

\* The registry's lock is given back; a pointer is left, or NULL.
GetMessageReceiver ==
    /\ Reader("get", IF registered THEN "push" ELSE "read")
    /\ UNCHANGED <<alive, appPc, registered, connectionUp, atServer, sent, routerPc>>

PushPacket ==
    /\ Reader("push", "notify")
    /\ UNCHANGED <<alive, appPc, registered, connectionUp, atServer, sent, routerPc>>

\* The router thread, if it waits, will look at the queue again.
NotifyRouter ==
    /\ Reader("notify", "read")
    /\ routerPc' = IF routerPc = "wait" THEN "check" ELSE routerPc
    /\ UNCHANGED <<alive, appPc, registered, connectionUp, atServer, sent>>

ReaderEnds ==
    /\ ~connectionUp /\ Reader("read", "ended")
    /\ UNCHANGED <<alive, appPc, registered, connectionUp, atServer, sent, routerPc>>

\* checkQueue, then the wait, unless the thread is to stop.
RouterLoop ==
    /\ \/ routerPc = "check" /\ routerPc' = "wait" /\ appPc # "joinRouter"
       \/ routerPc = "check" /\ routerPc' = "ended" /\ appPc = "joinRouter"
    /\ UNCHANGED <<alive, appPc, registered, connectionUp, atServer, sent, readerPc>>
-----------------------------------------------------------------------------
(* Core::~Core: the dispatcher, the router, the server handler *)

DeleteDispatcher == /\ App("inUse", "deleteRouter")
                    /\ alive' = alive \ {"dispatcher"}
                    /\ UNCHANGED <<registered, connectionUp, atServer, sent,
                                   readerPc, routerPc>>

\* ~MessageRouter deregisters, then stops its thread.
DeregisterRouter == /\ App("deleteRouter", "stopRouter")
                    /\ registered' = FALSE
                    /\ UNCHANGED <<alive, connectionUp, atServer, sent, readerPc,
                                   routerPc>>

StopRouter == /\ App("stopRouter", "joinRouter")
              /\ routerPc' = IF routerPc = "wait" THEN "check" ELSE routerPc
              /\ UNCHANGED <<alive, registered, connectionUp, atServer, sent,
                             readerPc>>

DeleteRouter == /\ App("joinRouter", "deleteHandler")
                /\ routerPc = "ended"
                /\ alive' = alive \ {"router", "queue", "routeMutex"}
                /\ UNCHANGED <<registered, connectionUp, atServer, sent, readerPc,
                               routerPc>>

\* ~ServerHandler deletes the maps first; closeConnection does nothing.
DeleteMaps == /\ App("deleteHandler", "closeAll")
              /\ alive' = alive \ {"requestMap", "receiverMap"}
              /\ UNCHANGED <<registered, connectionUp, atServer, sent, readerPc,
                             routerPc>>

\* delete m_cm: the connection is terminated and its reader joined.
Terminate == /\ App("closeAll", "joinReader")
             /\ connectionUp' = FALSE
             /\ UNCHANGED <<alive, registered, atServer, sent, readerPc, routerPc>>

JoinReader == /\ App("joinReader", "deleted")
              /\ readerPc = "ended"
              /\ alive' = alive \ {"connections"}
              /\ UNCHANGED <<registered, connectionUp, atServer, sent, readerPc,
                             routerPc>>
-----------------------------------------------------------------------------
Next == \/ CreateHandler \/ CreateRouter \/ FinishRouter \/ SendRequest
        \/ ReadReply \/ GetAndRemoveReceiver \/ GetMessageReceiver
        \/ PushPacket \/ NotifyRouter \/ ReaderEnds \/ RouterLoop
        \/ DeleteDispatcher \/ DeregisterRouter \/ StopRouter \/ DeleteRouter
        \/ DeleteMaps \/ Terminate \/ JoinReader

Spec == Init /\ [][Next]_vars
-----------------------------------------------------------------------------
\* The objects the reader's next step uses.
UsedByReader == CASE readerPc = "lookup" -> {"requestMap"}
                  [] readerPc = "get" -> {"receiverMap"}
                  [] readerPc = "push" -> {"router", "queue"}
                  [] readerPc = "notify" -> {"router", "routeMutex"}
                  [] OTHER -> {}

UsedByRouter == IF routerPc \in {"check", "wait"} THEN {"queue", "routeMutex"} ELSE {}

(* The application may delete the core when it shuts down: no thread of the *)
(* core is then left with a pointer to a part that is gone.                 *)
NoUseAfterDelete == UsedByReader \cup UsedByRouter \subseteq alive
=============================================================================
