-------------------------- MODULE ConnectionReader --------------------------
(***************************************************************************)
(* ConnectionManager: one connection to the server and the thread that     *)
(* reads replies from it (Connection, ConnectionReader, and the socket     *)
(* calls of the PAL under them).                                           *)
(*                                                                         *)
(* The owner establishes the connection, which starts the reader, and      *)
(* terminates it, which has to wake the reader out of a blocking read      *)
(* before it joins the thread. The server is external: it sends packets    *)
(* and may close or reset the connection at any time.                      *)
(*                                                                         *)
(* A packet is a header of fixed length followed by a body of the length   *)
(* the header says. Its bytes are abstracted to parts, each of which knows *)
(* where it comes from, so that one can see what is put together; a read   *)
(* yields any number of the parts that have been sent.                     *)
(***************************************************************************)
EXTENDS Naturals, Sequences, SequencesExt

CONSTANTS HeaderLength,     \* parts of a header, HEADER_LENGTH (5) bytes
          BodyLengths,      \* numbers of parts a body may have
          MaxPackets        \* bound: packets the server sends

ASSUME LengthsAssumption == /\ HeaderLength \in Nat \ {0}
                            /\ BodyLengths \subseteq Nat \ {0}
                            /\ MaxPackets \in Nat

(* A packet of a known reply type, one of another type, and one whose       *)
(* header does not begin with STX.                                          *)
Kinds == {"reply", "unsupported", "badSTX"}
Packets == [kind : Kinds, length : BodyLengths]

HeaderOf(i) == [j \in 1..HeaderLength |-> <<i, j>>]
BodyOf(i, length) == [j \in 1..length |-> <<i, HeaderLength + j>>]

Garbage == 0        \* stands for a reply object built from other bytes

VARIABLES sent,             \* packets the server has sent
          inFlight,         \* parts that were sent and not read
          peer,             \* what the server did with the connection
          socket,           \* state of the socket
          fd,               \* socketContext->fd # 0
          m_shouldRun,
          ownerPc,          \* where the owner of the connection is
          readerPc,         \* where the reader thread is
          phase,            \* what the reader is reading
          buffer,           \* the parts in the buffer being filled
          bytesToRead,
          delivered         \* indices of the packets handed to m_msgReceiver

serverVars == <<sent, peer>>
socketVars == <<socket, fd>>
bufferVars == <<phase, buffer, bytesToRead>>
vars == <<serverVars, inFlight, socketVars, m_shouldRun, ownerPc, readerPc,
          bufferVars, delivered>>

PeerStates == {"open", "closed", "reset"}
SocketStates == {"none", "unconnected", "connected", "shut", "closed"}
OwnerLabels == {"create", "connect", "start", "running", "shutdown", "close",
                "clearFd", "delete", "join", "destroyed"}
ReaderLabels == {"new", "loop", "begin", "check", "read", "stdin", "received",
                 "deliver", "exited"}

Init == /\ sent = <<>>
        /\ inFlight = <<>>
        /\ peer = "open"
        /\ socket = "none"
        /\ fd = FALSE
        /\ m_shouldRun = FALSE
        /\ ownerPc = "create"
        /\ readerPc = "new"
        /\ phase = "header"
        /\ buffer = <<>>
        /\ bytesToRead = 0
        /\ delivered = <<>>

OwnerGoto(from, to) == ownerPc = from /\ ownerPc' = to
ReaderGoto(from, to) == readerPc = from /\ readerPc' = to
-----------------------------------------------------------------------------
(* The server *)

Send(packet) ==
    LET i == Len(sent) + 1 IN
    /\ Len(sent) < MaxPackets
    /\ socket = "connected"
    /\ peer = "open"
    /\ sent' = Append(sent, packet)
    /\ inFlight' = inFlight \o HeaderOf(i) \o BodyOf(i, packet.length)
    /\ UNCHANGED <<peer, socketVars, m_shouldRun, ownerPc, readerPc, bufferVars,
                   delivered>>

PeerEnds ==
    /\ socket = "connected"
    /\ peer = "open"
    /\ peer' \in {"closed", "reset"}
    /\ UNCHANGED <<sent, inFlight, socketVars, m_shouldRun, ownerPc, readerPc,
                   bufferVars, delivered>>
-----------------------------------------------------------------------------
(* The owner: getConnection, which establishes, and ~Connection, which      *)
(* terminates                                                               *)

\* pal_socket_create. Its failure, and that of connect, are not noticed.
CreateSocket ==
    /\ \/ /\ OwnerGoto("create", "connect")
          /\ socket' = "unconnected"
          /\ fd' = TRUE
       \/ /\ OwnerGoto("create", "start")
          /\ UNCHANGED socketVars
    /\ UNCHANGED <<serverVars, inFlight, m_shouldRun, readerPc, bufferVars,
                   delivered>>

Connect ==
    /\ OwnerGoto("connect", "start")
    /\ socket' \in {"connected", "unconnected"}
    /\ UNCHANGED <<serverVars, inFlight, fd, m_shouldRun, readerPc, bufferVars,
                   delivered>>

StartReader ==
    /\ OwnerGoto("start", "running")
    /\ m_shouldRun' = TRUE
    /\ readerPc' = "loop"
    /\ UNCHANGED <<serverVars, inFlight, socketVars, bufferVars, delivered>>

\* Mutant of Terminate: leaves it to the destructor to clear the flag.
Terminate_KeepsFlag ==
    /\ OwnerGoto("running", "shutdown")
    /\ UNCHANGED <<serverVars, inFlight, socketVars, m_shouldRun, readerPc,
                   bufferVars, delivered>>

Terminate ==
    /\ OwnerGoto("running", "shutdown")
    /\ m_shouldRun' = FALSE
    /\ UNCHANGED <<serverVars, inFlight, socketVars, readerPc, bufferVars,
                   delivered>>

\* Mutant of Shutdown: leaves the socket open, and trusts the flag.
Shutdown_Skipped ==
    /\ OwnerGoto("shutdown", "delete")
    /\ UNCHANGED <<serverVars, inFlight, socketVars, m_shouldRun, readerPc,
                   bufferVars, delivered>>

\* pal_socket_disconnect: when shutdown fails, the socket is left as it is.
Shutdown ==
    /\ \/ /\ socket = "connected" /\ peer # "reset"
          /\ OwnerGoto("shutdown", "close")
          /\ socket' = "shut"
       \/ /\ ~(socket = "connected" /\ peer # "reset")
          /\ OwnerGoto("shutdown", "delete")
          /\ UNCHANGED socket
    /\ UNCHANGED <<serverVars, inFlight, fd, m_shouldRun, readerPc, bufferVars,
                   delivered>>

Close ==
    /\ \/ OwnerGoto("close", "clearFd")
       \/ OwnerGoto("close", "delete")      \* close reports an error
    /\ socket' = "closed"
    /\ UNCHANGED <<serverVars, inFlight, fd, m_shouldRun, readerPc, bufferVars,
                   delivered>>

ClearFd ==
    /\ OwnerGoto("clearFd", "delete")
    /\ fd' = FALSE
    /\ UNCHANGED <<serverVars, inFlight, socket, m_shouldRun, readerPc,
                   bufferVars, delivered>>

\* delete m_reader
DeleteReader ==
    /\ OwnerGoto("delete", "join")
    /\ m_shouldRun' = FALSE
    /\ UNCHANGED <<serverVars, inFlight, socketVars, readerPc, bufferVars,
                   delivered>>

Join ==
    /\ OwnerGoto("join", "destroyed")
    /\ readerPc = "exited"
    /\ UNCHANGED <<serverVars, inFlight, socketVars, m_shouldRun, readerPc,
                   bufferVars, delivered>>
-----------------------------------------------------------------------------
(* The reader thread *)

\* run: while(getShouldRun())
LoopTest ==
    /\ \/ m_shouldRun /\ ReaderGoto("loop", "begin")
       \/ ~m_shouldRun /\ ReaderGoto("loop", "exited")
    /\ UNCHANGED <<serverVars, inFlight, socketVars, m_shouldRun, ownerPc,
                   bufferVars, delivered>>

BeginReceive(what, length) ==
    /\ phase' = what
    /\ buffer' = <<>>
    /\ bytesToRead' = length
    /\ readerPc' = "check"

\* receiveBlocking(headerbuf, HEADER_LENGTH)
ReceiveHeader ==
    /\ readerPc = "begin"
    /\ BeginReceive("header", HeaderLength)
    /\ UNCHANGED <<serverVars, inFlight, socketVars, m_shouldRun, ownerPc,
                   delivered>>

\* Both forms of receiveBlocking give up: setShouldRun(false), return NULL.
ReceiveFails ==
    /\ readerPc' = "loop"
    /\ m_shouldRun' = FALSE
    /\ UNCHANGED <<serverVars, inFlight, socketVars, ownerPc, bufferVars,
                   delivered>>

\* pal_socket_read: if (socketContext->fd == 0)
ReadCheck ==
    \/ /\ readerPc = "check"
       /\ fd
       /\ readerPc' = "read"
       /\ UNCHANGED <<serverVars, inFlight, socketVars, m_shouldRun, ownerPc,
                      bufferVars, delivered>>
    \/ /\ readerPc = "check"
       /\ ~fd
       /\ ReceiveFails

\* Mutant of Arrives: takes all there is, however much was asked for.
Arrives_NoLimit(n) ==
    /\ readerPc = "read"
    /\ socket \in {"connected", "shut"}
    /\ n \in 1..Len(inFlight)
    /\ inFlight' = SubSeq(inFlight, n + 1, Len(inFlight))
    /\ bytesToRead' = bytesToRead - n
    /\ readerPc' = IF n < bytesToRead THEN "check" ELSE "received"

Arrives(n) ==
    /\ readerPc = "read"
    /\ socket \in {"connected", "shut"}
    /\ n \in 1..Len(inFlight)
    /\ n <= bytesToRead
    /\ inFlight' = SubSeq(inFlight, n + 1, Len(inFlight))
    /\ bytesToRead' = bytesToRead - n
    /\ readerPc' = IF n < bytesToRead THEN "check" ELSE "received"

\* Mutant of ReadParts: bufferChar is not moved on after a partial read.
ReadParts_Overwrites(n) ==
    /\ Arrives(n)
    /\ buffer' = SubSeq(inFlight, 1, n)
    /\ UNCHANGED <<serverVars, socketVars, m_shouldRun, ownerPc, phase, delivered>>

\* ::read yields some of what is asked for, and less means: read on.
ReadParts(n) ==
    /\ Arrives(n)
    /\ buffer' = buffer \o SubSeq(inFlight, 1, n)
    /\ UNCHANGED <<serverVars, socketVars, m_shouldRun, ownerPc, phase, delivered>>

\* Mutant of ReadFails: takes a read that was interrupted for the end.
ReadFails_Early == readerPc = "read" /\ ReceiveFails

\* ::read yields 0 at the end of the stream (or when it is asked for nothing),
\* -1 when the socket has failed, was never connected, or was closed before.
ReadFails ==
    /\ readerPc = "read"
    /\ \/ bytesToRead = 0
       \/ inFlight = <<>> /\ (socket = "shut" \/ peer = "closed")
       \/ socket \in {"unconnected", "closed"} \/ peer = "reset"
    /\ ReceiveFails

\* fd is read again for the call, and has become 0: standard input, where
\* nothing is written. The read lasts until that is closed, if it ever is.
ReadStdin ==
    /\ ~fd
    /\ ReaderGoto("read", "stdin")
    /\ UNCHANGED <<serverVars, inFlight, socketVars, m_shouldRun, ownerPc,
                   bufferVars, delivered>>

StdinEnds == readerPc = "stdin" /\ ReceiveFails

\* What a buffer holds that was filled with the header, or body, of packet i.
IsHeader(i) == buffer = HeaderOf(i)
IsBody(i) == buffer = BodyOf(i, sent[i].length)

\* checkSTXAndSetPacketLength. Without STX the loop goes on with whatever
\* comes next in the stream; in other bytes anything may be found.
ParseHeader ==
    /\ readerPc = "received"
    /\ phase = "header"
    /\ \/ \E i \in DOMAIN sent : /\ IsHeader(i)
                                 /\ sent[i].kind # "badSTX"
                                 /\ BeginReceive("body", sent[i].length)
       \/ /\ \A i \in DOMAIN sent : ~IsHeader(i)
          /\ \E length \in BodyLengths \cup {0} : BeginReceive("body", length)
       \/ /\ \A i \in DOMAIN sent : IsHeader(i) => sent[i].kind = "badSTX"
          /\ readerPc' = "loop"
          /\ UNCHANGED bufferVars
    /\ UNCHANGED <<serverVars, inFlight, socketVars, m_shouldRun, ownerPc,
                   delivered>>

\* createReplyPacketFromBuffer, which yields 0 for a type it does not know
ParseBody ==
    /\ readerPc = "received"
    /\ phase = "body"
    /\ \/ /\ \A i \in DOMAIN sent : IsBody(i) => sent[i].kind # "unsupported"
          /\ readerPc' = "deliver"
       \/ /\ \A i \in DOMAIN sent : IsBody(i) => sent[i].kind = "unsupported"
          /\ readerPc' = "loop"
    /\ UNCHANGED <<serverVars, inFlight, socketVars, m_shouldRun, ownerPc,
                   bufferVars, delivered>>

\* m_msgReceiver->receivedNGPPacket(packet)
Deliver ==
    /\ ReaderGoto("deliver", "loop")
    /\ \/ \E i \in DOMAIN sent : IsBody(i) /\ delivered' = Append(delivered, i)
       \/ /\ \A i \in DOMAIN sent : ~IsBody(i)
          /\ delivered' = Append(delivered, Garbage)
    /\ UNCHANGED <<serverVars, inFlight, socketVars, m_shouldRun, ownerPc,
                   bufferVars>>
-----------------------------------------------------------------------------
OwnerStep == \/ CreateSocket \/ Connect \/ StartReader
             \/ Shutdown \/ Close \/ ClearFd \/ DeleteReader \/ Join

ReadResult == \/ \E n \in 1..Len(inFlight) : ReadParts(n)
              \/ ReadFails
              \/ ReadStdin

ReaderStep == \/ LoopTest \/ ReceiveHeader \/ ReadCheck \/ ReadResult
              \/ ParseHeader \/ ParseBody \/ Deliver

Next == \/ \E packet \in Packets : Send(packet)
        \/ PeerEnds
        \/ OwnerStep
        \/ Terminate
        \/ ReaderStep
        \/ StdinEnds

Spec == Init /\ [][Next]_vars

(* Both threads keep running, and a read returns when there is something to *)
(* return. Nothing is assumed about the server, about when the connection   *)
(* is terminated, or about standard input.                                  *)
FairSpec == Spec /\ WF_vars(OwnerStep) /\ WF_vars(ReaderStep)
-----------------------------------------------------------------------------
(* Every variable stays in its type.                                        *)
TypeOK == /\ sent \in Seq(Packets)
          /\ inFlight \in Seq(Nat \X Nat)
          /\ peer \in PeerStates
          /\ socket \in SocketStates
          /\ fd \in BOOLEAN
          /\ m_shouldRun \in BOOLEAN
          /\ ownerPc \in OwnerLabels
          /\ readerPc \in ReaderLabels
          /\ phase \in {"header", "body"}
          /\ buffer \in Seq(Nat \X Nat)
          /\ bytesToRead \in Nat
          /\ delivered \in Seq(Nat)

(* The packets sent before the first that is no packet, and the replies     *)
(* among them, by their indices.                                            *)
Good(i) == \A j \in 1..i : sent[j].kind # "badSTX"
Replies == {i \in DOMAIN sent : Good(i) /\ sent[i].kind = "reply"}
Framed == \A i \in DOMAIN sent : Good(i)

\* The first n that were handed on are replies, in the order sent.
InOrder(n) == /\ \A k \in 1..n : delivered[k] \in Replies
              /\ \A k, l \in 1..n : k < l => delivered[k] < delivered[l]

\* None of the replies among the first i packets is missing among them.
NoneMissing(i, n) ==
    \A j \in 1..i : j \in Replies => \E k \in 1..n : delivered[k] = j

(* However the stream is cut into reads, each reply is handed on whole,     *)
(* once and in the order sent, and none is left out; packets of other types *)
(* are skipped. What is handed on after a header without STX is anybody's   *)
(* guess, but the replies before it were handed on first.                   *)
DeliversReplies ==
    LET all == Len(delivered) IN
    \/ InOrder(all) /\ \A k \in 1..all : NoneMissing(delivered[k], all)
    \/ ~Framed /\ \E n \in 0..all : InOrder(n) /\ NoneMissing(Len(sent), n)

Terminating == ownerPc \in {"shutdown", "close", "clearFd", "delete", "join",
                            "destroyed"}

(* Once the owner has begun to terminate the connection, the module behind  *)
(* it is called at most once more, however many replies have already        *)
(* arrived, wherever the reader is, and whether or not the shutdown of the  *)
(* socket works: the flag is tested once per packet and stays cleared.      *)
AtMostOneMore == \A n \in 0..MaxPackets :
    [](Terminating /\ Len(delivered) = n => [](Len(delivered) <= n + 1))

(* Each reply is handed on, unless a packet before it was none, the server  *)
(* reset the connection or the owner has begun to terminate it. It is not   *)
(* lost when the server closes the connection behind it.                    *)
RepliesDelivered == \A i \in 1..MaxPackets :
    (i \in Replies) ~>
        (i \in ToSet(delivered) \/ peer = "reset" \/ ownerPc # "running")

(* "this is just for safety sake, the read call above should handle this as *)
(* well" (Connection.cpp:137): terminating a connection ends its reader,    *)
(* wherever it is, and the join returns - except when the reader has begun  *)
(* to read descriptor 0, which nobody shuts down.                           *)
TerminateReturns ==
    (ownerPc = "shutdown") ~> (ownerPc = "destroyed" \/ readerPc = "stdin")
=============================================================================
