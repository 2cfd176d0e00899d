----------------------- MODULE ConnectionReaderProofs -----------------------
(***************************************************************************)
(* Proofs about ConnectionReader for headers and bodies of any length and  *)
(* any number of packets.                                                  *)
(***************************************************************************)
EXTENDS ConnectionReader, Integers, TLAPS

-----------------------------------------------------------------------------
(* The parts of a packet are parts.                                         *)
LEMMA PartsType ==
    ASSUME NEW i \in Nat, NEW length \in Nat
    PROVE  /\ HeaderOf(i) \in Seq(Nat \X Nat)
           /\ BodyOf(i, length) \in Seq(Nat \X Nat)
<1>1. HeaderOf(i) \in [1..HeaderLength -> Nat \X Nat]
  BY LengthsAssumption DEF HeaderOf
<1>2. BodyOf(i, length) \in [1..length -> Nat \X Nat]
  BY LengthsAssumption DEF BodyOf
<1> QED
  BY <1>1, <1>2, LengthsAssumption

(* What a read takes is parts, and what it leaves is parts.                 *)
LEMMA SplitType ==
    ASSUME NEW s \in Seq(Nat \X Nat), NEW n \in 1..Len(s)
    PROVE  /\ SubSeq(s, 1, n) \in Seq(Nat \X Nat)
           /\ SubSeq(s, n + 1, Len(s)) \in Seq(Nat \X Nat)
  OBVIOUS

(* Every step keeps every variable in its type.                             *)
LEMMA TypeStep == TypeOK /\ [Next]_vars => TypeOK'
<1> SUFFICES ASSUME TypeOK, [Next]_vars
             PROVE  TypeOK'
  OBVIOUS
<1> USE LengthsAssumption
    DEF TypeOK, OwnerGoto, ReaderGoto, PeerStates, SocketStates, OwnerLabels,
        ReaderLabels, serverVars, socketVars, bufferVars
<1>1. ASSUME NEW packet \in Packets, Send(packet)
      PROVE  TypeOK'
  <2>0. packet.length \in BodyLengths
    BY DEF Packets
  <2>1. Len(sent) + 1 \in Nat
    OBVIOUS
  <2>5. packet.length \in Nat
    BY <2>0
  <2>2. /\ HeaderOf(Len(sent) + 1) \in Seq(Nat \X Nat)
        /\ BodyOf(Len(sent) + 1, packet.length) \in Seq(Nat \X Nat)
    BY <2>1, <2>5, PartsType
  <2>3. inFlight' \in Seq(Nat \X Nat)
    <3> DEFINE h == HeaderOf(Len(sent) + 1)
               b == BodyOf(Len(sent) + 1, packet.length)
    <3>1. inFlight' = inFlight \o h \o b
      BY <1>1 DEF Send
    <3> HIDE DEF h, b
    <3>2. h \in Seq(Nat \X Nat) /\ b \in Seq(Nat \X Nat)
      BY <2>2 DEF h, b
    <3> QED
      BY <3>1, <3>2
  <2>4. sent' \in Seq(Packets)
    BY <1>1 DEF Send
  <2> QED
    BY <1>1, <2>3, <2>4 DEF Send
<1>2. CASE PeerEnds
  BY <1>2 DEF PeerEnds
<1>3. CASE CreateSocket
  BY <1>3 DEF CreateSocket
<1>4. CASE Connect
  BY <1>4 DEF Connect
<1>5. CASE StartReader
  BY <1>5 DEF StartReader
<1>6. CASE Terminate
  BY <1>6 DEF Terminate
<1>7. CASE Shutdown
  BY <1>7 DEF Shutdown
<1>8. CASE Close
  BY <1>8 DEF Close
<1>9. CASE ClearFd
  BY <1>9 DEF ClearFd
<1>10. CASE DeleteReader
  BY <1>10 DEF DeleteReader
<1>11. CASE Join
  BY <1>11 DEF Join
<1>12. CASE LoopTest
  BY <1>12 DEF LoopTest
<1>13. CASE ReceiveHeader
  BY <1>13 DEF ReceiveHeader, BeginReceive
<1>14. CASE ReadCheck
  BY <1>14 DEF ReadCheck, ReceiveFails
<1>15. ASSUME NEW n \in 1..Len(inFlight), ReadParts(n)
       PROVE  TypeOK'
  <2>1. /\ SubSeq(inFlight, 1, n) \in Seq(Nat \X Nat)
        /\ SubSeq(inFlight, n + 1, Len(inFlight)) \in Seq(Nat \X Nat)
    BY SplitType
  <2>2. inFlight' \in Seq(Nat \X Nat) /\ buffer' \in Seq(Nat \X Nat)
    <3> DEFINE front == SubSeq(inFlight, 1, n)
               rest == SubSeq(inFlight, n + 1, Len(inFlight))
    <3>1. inFlight' = rest /\ buffer' = buffer \o front
      BY <1>15 DEF ReadParts, Arrives
    <3> HIDE DEF front, rest
    <3>2. front \in Seq(Nat \X Nat) /\ rest \in Seq(Nat \X Nat)
      BY <2>1 DEF front, rest
    <3> QED
      BY <3>1, <3>2
  <2>3. bytesToRead' \in Nat
    BY <1>15 DEF ReadParts, Arrives
  <2> QED
    BY <1>15, <2>2, <2>3 DEF ReadParts, Arrives
<1>16. CASE ReadFails
  BY <1>16 DEF ReadFails, ReceiveFails
<1>17. CASE ReadStdin
  BY <1>17 DEF ReadStdin
<1>18. CASE StdinEnds
  BY <1>18 DEF StdinEnds, ReceiveFails
<1>19. CASE ParseHeader
  <2>1. ASSUME NEW length \in BodyLengths \cup {0}, BeginReceive("body", length)
        PROVE  TypeOK'
    <3>1. length \in Nat
      OBVIOUS
    <3>2. <<>> \in Seq(Nat \X Nat)
      OBVIOUS
    <3> QED
      BY <1>19, <2>1, <3>1, <3>2 DEF ParseHeader, BeginReceive
  <2>2. ASSUME NEW i \in DOMAIN sent
        PROVE  sent[i].length \in BodyLengths
    <3>1. sent[i] \in Packets
      OBVIOUS
    <3> QED
      BY <3>1 DEF Packets
  <2>3. CASE readerPc' = "loop" /\ UNCHANGED bufferVars
    BY <1>19, <2>3 DEF ParseHeader
  <2> QED
    BY <1>19, <2>1, <2>2, <2>3 DEF ParseHeader
<1>20. CASE ParseBody
  BY <1>20 DEF ParseBody
<1>21. CASE Deliver
  <2>1. DOMAIN sent \subseteq Nat /\ Garbage \in Nat
    BY DEF Garbage
  <2>2. PICK d \in Nat : delivered' = Append(delivered, d)
    BY <1>21, <2>1 DEF Deliver
  <2> QED
    BY <1>21, <2>2 DEF Deliver
<1>22. CASE UNCHANGED vars
  BY <1>22 DEF vars
<1> QED
  BY <1>1, <1>2, <1>3, <1>4, <1>5, <1>6, <1>7, <1>8, <1>9, <1>10, <1>11, <1>12,
     <1>13, <1>14, <1>15, <1>16, <1>17, <1>18, <1>19, <1>20, <1>21, <1>22
  DEF Next, OwnerStep, ReaderStep, ReadResult

(* Whatever the server sends and however it is cut into reads, every        *)
(* variable keeps its type; in particular bytesToRead, which is unsigned,   *)
(* never goes below zero.                                                   *)
THEOREM TypeCorrect == Spec => []TypeOK
<1>1. Init => TypeOK
  <2>1. /\ <<>> \in Seq(Packets)
        /\ <<>> \in Seq(Nat \X Nat)
        /\ <<>> \in Seq(Nat)
    OBVIOUS
  <2>2. 0 \in Nat
    OBVIOUS
  <2> QED
    BY <2>1, <2>2, Zenon
    DEF Init, TypeOK, PeerStates, SocketStates, OwnerLabels, ReaderLabels
<1> QED
  BY <1>1, TypeStep, PTL DEF Spec
-----------------------------------------------------------------------------
(* The thread is started once, before the owner runs; the flag stays        *)
(* cleared from the moment the owner begins to terminate the connection.    *)
Stopping ==
    /\ ownerPc \in {"create", "connect", "start"} <=> readerPc = "new"
    /\ Terminating => ~m_shouldRun

(* Every step preserves Stopping.                                           *)
LEMMA StoppingStep == TypeOK /\ Stopping /\ [Next]_vars => Stopping'
<1> SUFFICES ASSUME TypeOK, Stopping, [Next]_vars
             PROVE  Stopping'
  OBVIOUS
<1> USE DEF Stopping, Terminating, OwnerGoto, ReaderGoto, serverVars,
            socketVars, bufferVars
<1>1. ASSUME NEW packet \in Packets, Send(packet)
      PROVE  Stopping'
  BY <1>1 DEF Send
<1>2. CASE PeerEnds
  BY <1>2 DEF PeerEnds
<1>3. CASE OwnerStep
  BY <1>3 DEF OwnerStep, CreateSocket, Connect, StartReader, Shutdown, Close,
              ClearFd, DeleteReader, Join
<1>4. CASE Terminate
  BY <1>4 DEF Terminate
<1>5. CASE LoopTest \/ ReceiveHeader \/ ReadCheck
  BY <1>5 DEF LoopTest, ReceiveHeader, BeginReceive, ReadCheck, ReceiveFails
<1>6. CASE ReadResult \/ StdinEnds
  BY <1>6 DEF ReadResult, ReadParts, Arrives, ReadFails, ReadStdin, StdinEnds,
              ReceiveFails
<1>7. CASE ParseHeader \/ ParseBody \/ Deliver
  BY <1>7 DEF ParseHeader, BeginReceive, ParseBody, Deliver
<1>8. CASE UNCHANGED vars
  BY <1>8 DEF vars
<1> QED
  BY <1>1, <1>2, <1>3, <1>4, <1>5, <1>6, <1>7, <1>8 DEF Next, ReaderStep

(* The stop of the reader as seen from n replies: while no more have been   *)
(* handed on it may be anywhere; with one more it has done so since, and is *)
(* on its way out.                                                          *)
Leaving(n) ==
    /\ Terminating
    /\ \/ Len(delivered) <= n
       \/ Len(delivered) = n + 1 /\ readerPc \in {"loop", "exited"}

\* With the flag cleared, the reader gets no further than the end of its loop.
LEMMA LeavingStep ==
    ASSUME NEW n \in Nat
    PROVE  TypeOK /\ Stopping /\ Leaving(n) /\ [Next]_vars => Leaving(n)'
<1> SUFFICES ASSUME TypeOK, Stopping, Leaving(n), [Next]_vars
             PROVE  Leaving(n)'
  OBVIOUS
<1>1. ~m_shouldRun /\ delivered \in Seq(Nat)
  BY DEF Stopping, Leaving, TypeOK
<1> USE DEF Leaving, Terminating, OwnerGoto, ReaderGoto, serverVars,
            socketVars, bufferVars
<1>2. ASSUME NEW packet \in Packets, Send(packet)
      PROVE  Leaving(n)'
  BY <1>2 DEF Send
<1>3. CASE PeerEnds
  BY <1>3 DEF PeerEnds
<1>4. CASE OwnerStep
  BY <1>4 DEF OwnerStep, CreateSocket, Connect, StartReader, Shutdown, Close,
              ClearFd, DeleteReader, Join
<1>5. CASE Terminate
  BY <1>5 DEF Terminate
<1>6. CASE LoopTest \/ ReceiveHeader \/ ReadCheck
  BY <1>1, <1>6 DEF LoopTest, ReceiveHeader, BeginReceive, ReadCheck, ReceiveFails
<1>7. CASE ReadResult \/ StdinEnds
  BY <1>7 DEF ReadResult, ReadParts, Arrives, ReadFails, ReadStdin, StdinEnds,
              ReceiveFails
<1>8. CASE ParseHeader \/ ParseBody
  BY <1>8 DEF ParseHeader, BeginReceive, ParseBody
<1>9. CASE Deliver
  <2>1. readerPc = "deliver" /\ readerPc' = "loop" /\ ownerPc' = ownerPc
    BY <1>9 DEF Deliver
  <2>2. PICK i \in Nat : delivered' = Append(delivered, i)
    BY <1>9 DEF Deliver, Garbage, TypeOK
  <2>3. Len(delivered) <= n /\ Len(delivered') = Len(delivered) + 1
    BY <1>1, <2>1, <2>2
  <2>4. Len(delivered) \in Nat
    BY <1>1
  <2> QED BY <2>1, <2>3, <2>4
<1>10. CASE UNCHANGED vars
  BY <1>10 DEF vars
<1> QED
  BY <1>2, <1>3, <1>4, <1>5, <1>6, <1>7, <1>8, <1>9, <1>10 DEF Next, ReaderStep

(* From the moment a connection begins to be terminated, the module behind  *)
(* it is called at most once more: for any packets, however they are cut,   *)
(* and whatever becomes of the socket.                                      *)
THEOREM LastReply == Spec => AtMostOneMore
<1> SUFFICES ASSUME NEW n \in 0..MaxPackets
             PROVE  Spec => [](Terminating /\ Len(delivered) = n
                                 => [](Len(delivered) <= n + 1))
  BY DEF AtMostOneMore
<1>1. n \in Nat
  OBVIOUS
<1>2. Init => Stopping
  BY DEF Init, Stopping, Terminating
<1>3. TypeOK /\ Terminating /\ Len(delivered) = n => Leaving(n)
  BY <1>1 DEF Leaving
<1>4. TypeOK /\ Stopping /\ Leaving(n) /\ [Next]_vars => Leaving(n)'
  BY <1>1, LeavingStep
<1>5. TypeOK /\ Leaving(n) => Len(delivered) <= n + 1
  BY <1>1 DEF Leaving, TypeOK
<1> QED
  BY <1>2, <1>3, <1>4, <1>5, TypeCorrect, StoppingStep, PTL DEF Spec
-----------------------------------------------------------------------------
(* Where the packets begin in what has not been read yet: packet i in front *)
(* of position off[i] + 1, which is not positive for one that has been read *)
(* in part or in whole.                                                     *)
Layouts == {off \in [1..(Len(sent) + 1) -> Int] :
    /\ off[Len(sent) + 1] = Len(inFlight)
    /\ \A k \in 1..Len(sent) : off[k + 1] = off[k] + HeaderLength + sent[k].length
    /\ \A k \in 1..(Len(sent) + 1) : off[k] <= Len(inFlight)
    /\ \A k \in 1..Len(sent) : \A j \in 1..(HeaderLength + sent[k].length) :
          off[k] + j \in 1..Len(inFlight) => inFlight[off[k] + j] = <<k, j>>}

(* The reader is in front of a packet, in its header, or in its body.       *)
Between == readerPc \in {"new", "loop", "begin"}

InHeader(i) ==
    /\ phase = "header" /\ readerPc \in {"check", "read", "received"}
    /\ Len(buffer) + bytesToRead = HeaderLength
    /\ readerPc = "received" => bytesToRead = 0
    /\ \A k \in 1..Len(buffer) : buffer[k] = <<i, k>>

InBody(i) ==
    /\ phase = "body" /\ readerPc \in {"check", "read", "received", "deliver"}
    /\ i <= Len(sent) /\ sent[i].kind # "badSTX"
    /\ Len(buffer) + bytesToRead = sent[i].length
    /\ readerPc \in {"received", "deliver"} => bytesToRead = 0
    /\ readerPc = "deliver" => sent[i].kind = "reply"
    /\ \A k \in 1..Len(buffer) : buffer[k] = <<i, HeaderLength + k>>

Placed == {i \in 1..(Len(sent) + 1) : Between \/ InHeader(i) \/ InBody(i)}

\* How much of the packet it is at the reader has taken.
Taken == IF Between THEN 0
         ELSE IF phase = "header" THEN Len(buffer) ELSE HeaderLength + Len(buffer)

(* The reader will not read again, whatever is in its buffer.               *)
Stopped == readerPc \in {"stdin", "exited"} \/ (readerPc = "loop" /\ ~m_shouldRun)

(* The packets before which everything has been dealt with, and nothing     *)
(* behind.                                                                  *)
Handed == {i \in 1..(Len(sent) + 1) :
    /\ Good(i - 1)
    /\ InOrder(Len(delivered))
    /\ \A k \in 1..Len(delivered) : delivered[k] < i
    /\ NoneMissing(i - 1, Len(delivered))}

OnTrack == \E i \in Handed :
    \/ Stopped
    \/ i \in Placed /\ \E off \in Layouts : off[i] + Taken = 0

(* The reader has met a header without STX.                                 *)
Astray == ~Framed /\ \E n \in 0..Len(delivered) :
                        InOrder(n) /\ NoneMissing(Len(sent), n)

(* Where the elements of two sequences are in their concatenation.          *)
LEMMA Concat ==
    ASSUME NEW S, NEW s \in Seq(S), NEW t \in Seq(S)
    PROVE  /\ s \o t \in Seq(S) /\ Len(s \o t) = Len(s) + Len(t)
           /\ \A k \in 1..Len(s) : (s \o t)[k] = s[k]
           /\ \A k \in 1..Len(t) : (s \o t)[Len(s) + k] = t[k]
  OBVIOUS

(* Headers and bodies have parts.                                           *)
LEMMA SentType ==
    ASSUME sent \in Seq(Packets)
    PROVE  /\ Len(sent) \in Nat /\ HeaderLength \in Nat /\ HeaderLength > 0
           /\ \A i \in 1..Len(sent) : sent[i].length \in Nat /\ sent[i].length > 0
<1>1. \A packet \in Packets : packet.length \in BodyLengths
  BY DEF Packets
<1>2. \A i \in 1..Len(sent) : sent[i] \in Packets
  OBVIOUS
<1>3. \A l \in BodyLengths : l \in Nat /\ l > 0
  BY LengthsAssumption
<1>4. Len(sent) \in Nat /\ HeaderLength \in Nat /\ HeaderLength > 0
  BY LengthsAssumption
<1> QED BY <1>1, <1>2, <1>3, <1>4

(* What has been sent stays, and what has been handed on does.              *)
SentGrows == sent' = sent \/ \E p \in Packets : sent' = Append(sent, p)
DeliveredGrows ==
    delivered' = delivered \/ \E d \in Nat : delivered' = Append(delivered, d)

(* No step takes anything back.                                             *)
LEMMA HistoryGrows ==
    TypeOK /\ [Next]_vars => SentGrows /\ DeliveredGrows
<1> SUFFICES ASSUME TypeOK, [Next]_vars
             PROVE  SentGrows /\ DeliveredGrows
  OBVIOUS
<1>1. ASSUME NEW packet \in Packets, Send(packet)
      PROVE  SentGrows /\ delivered' = delivered
  BY <1>1 DEF Send, SentGrows
<1>2. CASE Deliver
  <2>1. DOMAIN sent \subseteq Nat /\ Garbage \in Nat
    BY DEF TypeOK, Garbage
  <2>2. sent' = sent
    BY <1>2 DEF Deliver, serverVars
  <2> QED BY <1>2, <2>1, <2>2 DEF Deliver, SentGrows, DeliveredGrows
<1>3. CASE UNCHANGED vars
  BY <1>3 DEF vars, serverVars, SentGrows, DeliveredGrows
<1>4. CASE PeerEnds \/ OwnerStep \/ Terminate
  BY <1>4 DEF PeerEnds, OwnerStep, CreateSocket, Connect, StartReader, Shutdown,
              Close, ClearFd, DeleteReader, Join, Terminate, serverVars,
              SentGrows, DeliveredGrows
<1>5. CASE LoopTest \/ ReceiveHeader \/ ReadCheck \/ ReadResult \/ ParseHeader
              \/ ParseBody \/ StdinEnds
  BY <1>5 DEF LoopTest, ReceiveHeader, ReadCheck, ReceiveFails, ReadResult,
              ReadParts, ReadFails, ReadStdin, ParseHeader, ParseBody, StdinEnds,
              serverVars, SentGrows, DeliveredGrows
<1> QED
  BY <1>1, <1>2, <1>3, <1>4, <1>5 DEF Next, ReaderStep, DeliveredGrows

(* What a packet is and whether it is a reply does not change when more is  *)
(* sent behind it.                                                          *)
LEMMA OldPackets ==
    ASSUME TypeOK, SentGrows
    PROVE  /\ Len(sent') >= Len(sent) /\ Len(sent') \in Nat
           /\ \A i \in 1..Len(sent) : /\ sent'[i] = sent[i]
                                      /\ i \in Replies <=> i \in Replies'
           /\ \A i \in 0..Len(sent) : Good(i) => Good(i)'
<1>1. /\ Len(sent) \in Nat /\ Len(sent') \in Nat /\ Len(sent') >= Len(sent)
      /\ DOMAIN sent = 1..Len(sent) /\ DOMAIN sent' = 1..Len(sent')
      /\ \A i \in 1..Len(sent) : sent'[i] = sent[i]
  <2>1. sent \in Seq(Packets)
    BY DEF TypeOK
  <2>2. CASE sent' = sent
    BY <2>1, <2>2
  <2>3. ASSUME NEW p \in Packets, sent' = Append(sent, p)
        PROVE  /\ Len(sent) \in Nat /\ Len(sent') \in Nat /\ Len(sent') >= Len(sent)
               /\ DOMAIN sent = 1..Len(sent) /\ DOMAIN sent' = 1..Len(sent')
               /\ \A i \in 1..Len(sent) : sent'[i] = sent[i]
    BY <2>1, <2>3
  <2> QED BY <2>2, <2>3 DEF SentGrows
<1>2. \A i \in 0..Len(sent) : Good(i) <=> Good(i)'
  BY <1>1 DEF Good
<1>3. \A i \in 1..Len(sent) : i \in Replies <=> i \in Replies'
  BY <1>1, <1>2 DEF Replies
<1> QED BY <1>1, <1>2, <1>3

(* A packet that is not good is followed by none that is.                   *)
LEMMA NoneAfterBad ==
    ASSUME TypeOK, NEW i \in 1..Len(sent), ~Good(i)
    PROVE  \A j \in Replies : j < i
<1> SUFFICES ASSUME NEW j \in Replies, j >= i
             PROVE  FALSE
  BY DEF TypeOK, Replies
<1> QED BY DEF TypeOK, Replies, Good

(* What was handed on stays handed on.                                      *)
LEMMA HandedStep ==
    ASSUME TypeOK, TypeOK', SentGrows, delivered' = delivered,
           NEW i \in Handed
    PROVE  i \in Handed'
<1>1. /\ Len(sent) \in Nat /\ Len(delivered) \in Nat
      /\ i \in Nat /\ i - 1 \in 0..Len(sent)
  BY DEF TypeOK, Handed
<1>2. /\ \A j \in 1..Len(sent) : j \in Replies <=> j \in Replies'
      /\ Good(i - 1)'
  BY <1>1, OldPackets DEF Handed
<1>3. Replies \subseteq 1..Len(sent)
  BY DEF TypeOK, Replies
<1>4. InOrder(Len(delivered))'
  BY <1>1, <1>2, <1>3 DEF InOrder, Handed
<1>5. NoneMissing(i - 1, Len(delivered))'
  BY <1>1, <1>2 DEF NoneMissing, Handed
<1>6. i \in 1..(Len(sent') + 1)
  BY <1>1, OldPackets
<1>7. \A k \in 1..Len(delivered') : delivered'[k] < i
  BY DEF Handed
<1> QED BY <1>2, <1>4, <1>5, <1>6, <1>7 DEF Handed

(* A reader that went astray stays astray: the replies before the broken    *)
(* header are all that ever were.                                           *)
LEMMA AstrayStep ==
    ASSUME TypeOK, TypeOK', SentGrows, DeliveredGrows, Astray
    PROVE  Astray'
<1>1. PICK n \in 0..Len(delivered) : InOrder(n) /\ NoneMissing(Len(sent), n)
  BY DEF Astray
<1>2. /\ Len(sent) \in Nat /\ Len(sent') \in Nat /\ Len(sent) <= Len(sent')
      /\ DOMAIN sent = 1..Len(sent) /\ DOMAIN sent' = 1..Len(sent')
      /\ \A i \in 1..Len(sent) : sent'[i] = sent[i]
      /\ \A i \in 1..Len(sent) : i \in Replies <=> i \in Replies'
  BY OldPackets DEF TypeOK
<1>3. PICK b \in 1..Len(sent) : ~Good(b)
  BY <1>2 DEF Astray, Framed
<1>4. ~Good(b)' /\ b \in 1..Len(sent')
  BY <1>2, <1>3 DEF Good
<1>5. ~Framed'
  BY <1>2, <1>4 DEF Framed
<1>6. \A j \in Replies' : j < b
  BY <1>2, <1>4 DEF Replies, Good
<1>7. /\ Len(delivered) \in Nat /\ n \in 0..Len(delivered')
      /\ \A k \in 1..n : delivered'[k] = delivered[k]
  <2>1. delivered \in Seq(Nat)
    BY DEF TypeOK
  <2>2. ASSUME NEW d \in Nat, delivered' = Append(delivered, d)
        PROVE  /\ n \in 0..Len(delivered')
               /\ \A k \in 1..n : delivered'[k] = delivered[k]
    BY <2>1, <2>2
  <2> QED BY <2>1, <2>2 DEF DeliveredGrows
<1>8. InOrder(n)'
  <2>1. Replies \subseteq 1..Len(sent)
    BY DEF TypeOK, Replies
  <2> QED BY <1>1, <1>2, <1>7, <2>1 DEF InOrder
<1>9. NoneMissing(Len(sent), n)'
  <2> SUFFICES ASSUME NEW j \in 1..Len(sent'), j \in Replies'
               PROVE  \E k \in 1..n : delivered'[k] = j
    BY DEF NoneMissing
  <2>1. j \in 1..Len(sent) /\ j \in Replies
    BY <1>2, <1>3, <1>6
  <2> QED BY <1>1, <1>7, <2>1 DEF NoneMissing
<1> QED BY <1>5, <1>7, <1>8, <1>9 DEF Astray

(* A packet that is sent is laid out behind the others.                     *)
LEMMA LayoutSend ==
    ASSUME TypeOK, NEW packet \in Packets, Send(packet), NEW off \in Layouts
    PROVE  \E new \in Layouts' : \A k \in 1..(Len(sent) + 1) : new[k] = off[k]
<1> DEFINE m == Len(sent)
           r == Len(inFlight)
           size == HeaderLength + packet.length
           h == HeaderOf(m + 1)
           b == BodyOf(m + 1, packet.length)
           new == [k \in 1..(m + 2) |-> IF k <= m + 1 THEN off[k] ELSE r + size]
<1>1. /\ m \in Nat /\ r \in Nat /\ inFlight \in Seq(Nat \X Nat)
      /\ HeaderLength \in Nat /\ packet.length \in Nat /\ size \in Nat
  <2>1. packet.length \in BodyLengths
    BY DEF Packets
  <2>2. HeaderLength \in Nat /\ packet.length \in Nat
    BY <2>1, LengthsAssumption
  <2> QED BY <2>2 DEF TypeOK
<1>2. /\ Len(sent') = m + 1 /\ sent'[m + 1] = packet
      /\ \A k \in 1..m : sent'[k] = sent[k]
  BY DEF Send, TypeOK
<1>3. /\ h \in Seq(Nat \X Nat) /\ Len(h) = HeaderLength
      /\ \A j \in 1..HeaderLength : h[j] = <<m + 1, j>>
  <2>1. m + 1 \in Nat
    BY <1>1
  <2>2. h \in Seq(Nat \X Nat)
    BY <1>1, <2>1, PartsType
  <2>3. h = [j \in 1..HeaderLength |-> <<m + 1, j>>]
    BY DEF HeaderOf
  <2> HIDE DEF h
  <2> QED BY <1>1, <2>2, <2>3
<1>4. /\ b \in Seq(Nat \X Nat) /\ Len(b) = packet.length
      /\ \A j \in 1..packet.length : b[j] = <<m + 1, HeaderLength + j>>
  <2>1. m + 1 \in Nat
    BY <1>1
  <2>2. b \in Seq(Nat \X Nat)
    BY <1>1, <2>1, PartsType
  <2>3. b = [j \in 1..packet.length |-> <<m + 1, HeaderLength + j>>]
    BY DEF BodyOf
  <2> HIDE DEF b
  <2> QED BY <1>1, <2>2, <2>3
<1>5. inFlight' = (inFlight \o h) \o b
  BY DEF Send
<1> HIDE DEF h, b
<1>6. /\ Len(inFlight') = r + size
      /\ \A k \in 1..r : inFlight'[k] = inFlight[k]
      /\ \A j \in 1..size : inFlight'[r + j] = <<m + 1, j>>
  <2> DEFINE S == Nat \X Nat
             front == inFlight \o h
  <2> HIDE DEF S
  <2>1. inFlight \in Seq(S) /\ h \in Seq(S) /\ b \in Seq(S)
    BY <1>1, <1>3, <1>4 DEF S
  <2>2. /\ front \in Seq(S) /\ Len(front) = r + HeaderLength
        /\ \A k \in 1..r : front[k] = inFlight[k]
        /\ \A k \in 1..HeaderLength : front[r + k] = <<m + 1, k>>
    <3>1. /\ front \in Seq(S) /\ Len(front) = r + Len(h)
          /\ \A k \in 1..r : front[k] = inFlight[k]
          /\ \A k \in 1..Len(h) : front[r + k] = h[k]
      BY <2>1, Concat
    <3> QED BY <1>3, <3>1
  <2> HIDE DEF front
  <2>3. /\ Len(front \o b) = Len(front) + packet.length
        /\ \A k \in 1..Len(front) : (front \o b)[k] = front[k]
        /\ \A k \in 1..packet.length :
              (front \o b)[Len(front) + k] = <<m + 1, HeaderLength + k>>
    <3>1. /\ Len(front \o b) = Len(front) + Len(b)
          /\ \A k \in 1..Len(front) : (front \o b)[k] = front[k]
          /\ \A k \in 1..Len(b) : (front \o b)[Len(front) + k] = b[k]
      <4>1. front \in Seq(S)
        BY <2>2
      <4> QED BY <2>1, <4>1, Concat
    <3> QED BY <1>4, <3>1
  <2>4. inFlight' = front \o b
    BY <1>5 DEF front
  <2>5. /\ Len(inFlight') = r + size
        /\ \A k \in 1..r : inFlight'[k] = inFlight[k]
    BY <1>1, <2>2, <2>3, <2>4
  <2>6. ASSUME NEW j \in 1..size
        PROVE  inFlight'[r + j] = <<m + 1, j>>
    <3>1. CASE j <= HeaderLength
      BY <1>1, <2>2, <2>3, <2>4, <3>1
    <3>2. CASE j > HeaderLength
      <4> DEFINE i == j - HeaderLength
      <4>1. /\ i \in 1..packet.length /\ r + j = Len(front) + i
            /\ j = HeaderLength + i
        BY <1>1, <2>2, <3>2
      <4> QED BY <2>3, <2>4, <4>1
    <3> QED BY <1>1, <3>1, <3>2
  <2> QED BY <2>5, <2>6
<1>7. /\ off \in [1..(m + 1) -> Int] /\ off[m + 1] = r
      /\ \A k \in 1..m : off[k + 1] = off[k] + HeaderLength + sent[k].length
      /\ \A k \in 1..(m + 1) : off[k] \in Int /\ off[k] <= r
      /\ \A k \in 1..m : \A j \in 1..(HeaderLength + sent[k].length) :
            off[k] + j \in 1..r => inFlight[off[k] + j] = <<k, j>>
  BY DEF Layouts
<1>8. /\ new \in [1..(Len(sent') + 1) -> Int]
      /\ \A k \in 1..(m + 1) : new[k] = off[k]
      /\ new[m + 2] = r + size
  BY <1>1, <1>2, <1>7
<1>9. \A k \in 1..m : sent[k].length \in Nat
  BY SentType DEF TypeOK
<1>10. size = HeaderLength + packet.length
  OBVIOUS
<1> HIDE DEF new, size, m, r
<1>11. new[Len(sent') + 1] = Len(inFlight')
  BY <1>1, <1>2, <1>6, <1>8
<1>12. ASSUME NEW k \in 1..Len(sent')
       PROVE  new[k + 1] = new[k] + HeaderLength + sent'[k].length
  <2>1. CASE k = m + 1
    <3>1. /\ k + 1 = m + 2 /\ new[k + 1] = r + size /\ sent'[k] = packet
      BY <1>1, <1>2, <1>8, <2>1
    <3>2. m + 1 \in 1..(m + 1) /\ new[k] = r
      BY <1>1, <1>7, <1>8, <2>1
    <3> QED BY <1>1, <1>10, <3>1, <3>2
  <2>2. CASE k \in 1..m
    <3>1. k + 1 \in 1..(m + 1) /\ k \in 1..(m + 1)
      BY <1>1, <2>2
    <3> QED BY <1>2, <1>7, <1>8, <2>2, <3>1
  <2> QED BY <1>1, <1>2, <2>1, <2>2
<1>13. ASSUME NEW k \in 1..(Len(sent') + 1)
       PROVE  new[k] <= Len(inFlight')
  <2>1. CASE k = m + 2
    BY <1>1, <1>6, <1>8, <2>1
  <2>2. CASE k \in 1..(m + 1)
    BY <1>1, <1>6, <1>7, <1>8, <2>2
  <2> QED BY <1>1, <1>2, <2>1, <2>2
<1>14. ASSUME NEW k \in 1..Len(sent'), NEW j \in 1..(HeaderLength + sent'[k].length),
              new[k] + j \in 1..Len(inFlight')
       PROVE  inFlight'[new[k] + j] = <<k, j>>
  <2>1. CASE k = m + 1
    BY <1>1, <1>2, <1>6, <1>7, <1>8, <1>10, <2>1
  <2>2. CASE k \in 1..m
    <3>1. k \in 1..(m + 1) /\ k + 1 \in 1..(m + 1)
      BY <1>1, <2>2
    <3>2. /\ sent'[k] = sent[k] /\ new[k] = off[k] /\ sent[k].length \in Nat
          /\ off[k] + HeaderLength + sent[k].length <= r
      BY <1>2, <1>7, <1>8, <1>9, <2>2, <3>1
    <3>3. off[k] \in Int /\ j \in 1..(HeaderLength + sent[k].length)
      BY <1>7, <3>1, <3>2
    <3>4. off[k] + j \in 1..r
      BY <1>1, <1>14, <3>2, <3>3
    <3> QED BY <1>6, <1>7, <2>2, <3>2, <3>3, <3>4
  <2> QED BY <1>1, <1>2, <2>1, <2>2
<1>15. new \in Layouts'
  BY <1>8, <1>11, <1>12, <1>13, <1>14 DEF Layouts
<1> QED BY <1>8, <1>15 DEF m

(* A read takes what comes next of the packet the reader is in, and moves   *)
(* what is left to the front.                                               *)
LEMMA LayoutRead ==
    ASSUME TypeOK, NEW n \in 1..Len(inFlight), ReadParts(n), NEW off \in Layouts
    PROVE  \E new \in Layouts' : \A k \in 1..(Len(sent) + 1) : new[k] = off[k] - n
<1> DEFINE new == [k \in 1..(Len(sent) + 1) |-> off[k] - n]
           r == Len(inFlight)
<1>1. sent' = sent
  BY DEF ReadParts, serverVars
<1>2. /\ r \in Nat /\ n \in Nat /\ n <= r /\ Len(inFlight') = r - n
      /\ \A k \in 1..Len(inFlight') : inFlight'[k] = inFlight[k + n]
  <2>1. inFlight \in Seq(Nat \X Nat)
    BY DEF TypeOK
  <2>2. inFlight' = SubSeq(inFlight, n + 1, r)
    BY DEF ReadParts, Arrives
  <2>3. r \in Nat /\ n \in Nat /\ n <= r
    BY <2>1
  <2>4. /\ Len(SubSeq(inFlight, n + 1, r)) = r - n
        /\ \A k \in 1..(r - n) : SubSeq(inFlight, n + 1, r)[k] = inFlight[k + n]
    BY <2>1, <2>3
  <2> QED BY <2>2, <2>3, <2>4
<1>3. /\ off \in [1..(Len(sent) + 1) -> Int] /\ off[Len(sent) + 1] = r
      /\ \A k \in 1..Len(sent) : off[k + 1] = off[k] + HeaderLength + sent[k].length
      /\ \A k \in 1..(Len(sent) + 1) : off[k] \in Int /\ off[k] <= r
      /\ \A k \in 1..Len(sent) : \A j \in 1..(HeaderLength + sent[k].length) :
            off[k] + j \in 1..r => inFlight[off[k] + j] = <<k, j>>
  BY DEF Layouts
<1>4. /\ new \in [1..(Len(sent) + 1) -> Int]
      /\ \A k \in 1..(Len(sent) + 1) : new[k] = off[k] - n
  BY <1>3
<1>5. /\ Len(sent) \in Nat /\ HeaderLength \in Nat
      /\ \A k \in 1..Len(sent) : sent[k].length \in Nat
  BY SentType DEF TypeOK
<1> HIDE DEF new, r
<1>6. new[Len(sent) + 1] = Len(inFlight')
  <2>1. Len(sent) + 1 \in 1..(Len(sent) + 1)
    BY <1>5
  <2> QED BY <1>2, <1>3, <1>4, <2>1
<1>7. ASSUME NEW k \in 1..Len(sent)
      PROVE  new[k + 1] = new[k] + HeaderLength + sent[k].length
  <2>1. k \in 1..(Len(sent) + 1) /\ k + 1 \in 1..(Len(sent) + 1)
    BY <1>5
  <2>2. off[k] \in Int /\ sent[k].length \in Nat
        /\ off[k + 1] = off[k] + HeaderLength + sent[k].length
    BY <1>3, <1>5, <2>1
  <2>3. new[k] = off[k] - n /\ new[k + 1] = off[k + 1] - n
    BY <1>4, <2>1
  <2> QED BY <1>2, <1>5, <2>2, <2>3
<1>8. \A k \in 1..(Len(sent) + 1) : new[k] <= Len(inFlight')
  BY <1>2, <1>3, <1>4
<1>9. ASSUME NEW k \in 1..Len(sent), NEW j \in 1..(HeaderLength + sent[k].length),
             new[k] + j \in 1..Len(inFlight')
      PROVE  inFlight'[new[k] + j] = <<k, j>>
  <2>1. k \in 1..(Len(sent) + 1) /\ sent[k].length \in Nat /\ j \in Nat
    BY <1>5
  <2>2. off[k] \in Int /\ new[k] = off[k] - n
    BY <1>3, <1>4, <2>1
  <2>3. off[k] + j \in 1..r /\ off[k] + j = (new[k] + j) + n
    <3>1. r \in Nat /\ n \in Nat /\ new[k] + j \in 1..(r - n)
      BY <1>2, <1>9
    <3>2. j \in Int /\ off[k] \in Int /\ n \in Int /\ new[k] = off[k] - n
      BY <2>1, <2>2, <3>1
    <3>3. off[k] + j = (new[k] + j) + n
      BY <3>2
    <3> QED BY <3>1, <3>3
  <2> QED BY <1>2, <1>3, <1>9, <2>3
<1>10. new \in Layouts'
  BY <1>1, <1>4, <1>6, <1>7, <1>8, <1>9 DEF Layouts
<1> QED BY <1>4, <1>10

(* Where the reader is among the packets, and that a packet some of which   *)
(* has been read, or that more is to come of, is one that was sent.         *)
LEMMA Inside ==
    ASSUME TypeOK, NEW i \in Placed, NEW off \in Layouts, off[i] + Taken = 0,
           Taken > 0 \/ Len(inFlight) > 0
    PROVE  i \in 1..Len(sent)
<1>1. /\ Len(sent) \in Nat /\ Len(inFlight) \in Nat /\ Len(buffer) \in Nat
      /\ HeaderLength \in Nat /\ i \in 1..(Len(sent) + 1)
  BY LengthsAssumption DEF TypeOK, Placed
<1>2. Taken \in Nat
  BY <1>1 DEF Taken
<1>3. off[Len(sent) + 1] = Len(inFlight)
  BY DEF Layouts
<1> HIDE DEF Taken
<1> QED BY <1>1, <1>2, <1>3

(* A reader that stops has handed on what it had to.                        *)
LEMMA StopStep ==
    ASSUME TypeOK, TypeOK', SentGrows, delivered' = delivered, NEW i \in Handed,
           Stopped'
    PROVE  OnTrack'
  BY HandedStep DEF OnTrack

(* A reader that neither reads nor hands anything on stays where it is.     *)
LEMMA StayStep ==
    ASSUME TypeOK, TypeOK', sent' = sent, inFlight' = inFlight,
           delivered' = delivered, NEW i \in Handed, NEW off \in Layouts,
           off[i] + Taken = 0, i \in Placed', Taken' = Taken
    PROVE  OnTrack'
<1>1. i \in Handed'
  BY HandedStep DEF SentGrows
<1>2. off \in Layouts'
  BY DEF Layouts
<1> QED BY <1>1, <1>2 DEF OnTrack

(* The reader goes on to the packet behind the one it has read.             *)
LEMMA NextPacket ==
    ASSUME TypeOK, TypeOK', sent' = sent, inFlight' = inFlight,
           NEW i \in Placed, phase = "body", readerPc \in {"received", "deliver"},
           NEW off \in Layouts, off[i] + Taken = 0,
           i + 1 \in Handed', readerPc' = "loop"
    PROVE  OnTrack'
<1>1. /\ i \in 1..Len(sent) /\ Len(sent) \in Nat
      /\ Len(buffer) = sent[i].length /\ Taken = HeaderLength + sent[i].length
      /\ HeaderLength \in Nat /\ sent[i].length \in Nat
  <2>1. /\ Len(sent) \in Nat /\ i \in 1..Len(sent) /\ Len(buffer) \in Nat
        /\ bytesToRead = 0 /\ Len(buffer) + bytesToRead = sent[i].length
    BY DEF TypeOK, Placed, Between, InHeader, InBody
  <2>2. HeaderLength \in Nat /\ sent[i].length \in Nat
    BY <2>1, SentType DEF TypeOK
  <2>3. Len(buffer) = sent[i].length
    BY <2>1, <2>2
  <2> QED BY <2>1, <2>2, <2>3 DEF Taken, Between
<1>2. off[i + 1] = off[i] + HeaderLength + sent[i].length /\ off[i] \in Int
  BY <1>1 DEF Layouts
<1> HIDE DEF Taken
<1>3. off[i + 1] = 0
  BY <1>1, <1>2
<1>4. Taken' = 0
  BY DEF Taken, Between
<1>5. i + 1 \in Placed'
  BY <1>1 DEF Placed, Between
<1>6. off \in Layouts'
  BY DEF Layouts
<1>7. off[i + 1] + Taken' = 0
  BY <1>3, <1>4
<1> QED BY <1>5, <1>6, <1>7 DEF OnTrack

(* A read that arrives brings the reader further into the packet it is in.  *)
LEMMA ReadStep ==
    ASSUME TypeOK, TypeOK', NEW n \in 1..Len(inFlight), ReadParts(n),
           NEW i \in Handed, i \in Placed, NEW off \in Layouts, off[i] + Taken = 0
    PROVE  OnTrack'
<1>1. /\ sent' = sent /\ delivered' = delivered /\ phase' = phase
      /\ readerPc = "read" /\ readerPc' \in {"check", "received"}
      /\ readerPc' = "received" => bytesToRead' = 0
      /\ n <= bytesToRead /\ bytesToRead' = bytesToRead - n
      /\ bytesToRead \in Nat /\ Len(sent) \in Nat
  BY DEF ReadParts, Arrives, serverVars, TypeOK
<1>2. i \in Handed'
  BY <1>1, HandedStep DEF SentGrows
<1>3. Len(inFlight) \in Nat /\ Len(buffer) \in Nat /\ n \in Nat /\ n > 0
  BY DEF TypeOK
<1>4. i \in 1..Len(sent)
  BY <1>3, Inside
<1>5. /\ HeaderLength \in Nat /\ sent[i].length \in Nat
      /\ off[i] \in Int
  <2>1. HeaderLength \in Nat /\ sent[i].length \in Nat
    BY <1>4, SentType DEF TypeOK
  <2>2. off \in [1..(Len(sent) + 1) -> Int] /\ i \in 1..(Len(sent) + 1)
    BY <1>1, <1>4 DEF Layouts
  <2> QED BY <2>1, <2>2
<1>6. PICK new \in Layouts' : \A k \in 1..(Len(sent) + 1) : new[k] = off[k] - n
  BY LayoutRead
<1>7. /\ Len(buffer') = Len(buffer) + n
      /\ \A k \in 1..Len(buffer) : buffer'[k] = buffer[k]
      /\ \A k \in 1..n : buffer'[Len(buffer) + k] = inFlight[k]
  <2> DEFINE S == Nat \X Nat
             t == SubSeq(inFlight, 1, n)
  <2>1. inFlight \in Seq(S) /\ buffer \in Seq(S)
    BY DEF TypeOK
  <2> HIDE DEF S
  <2>2. t \in Seq(S) /\ Len(t) = n /\ \A k \in 1..n : t[k] = inFlight[k]
    BY <2>1
  <2>3. buffer' = buffer \o t
    BY DEF ReadParts
  <2> HIDE DEF t
  <2>4. /\ Len(buffer \o t) = Len(buffer) + Len(t)
        /\ \A k \in 1..Len(buffer) : (buffer \o t)[k] = buffer[k]
        /\ \A k \in 1..Len(t) : (buffer \o t)[Len(buffer) + k] = t[k]
    <3>1. t \in Seq(S)
      BY <2>2
    <3> QED BY <2>1, <3>1, Concat
  <2> QED BY <2>2, <2>3, <2>4
<1>8. Len(buffer') + bytesToRead' = Len(buffer) + bytesToRead
  BY <1>1, <1>3, <1>7
<1>9. \A j \in 1..(HeaderLength + sent[i].length) :
         off[i] + j \in 1..Len(inFlight) => inFlight[off[i] + j] = <<i, j>>
  BY <1>4 DEF Layouts
<1>10. new[i] = off[i] - n
  BY <1>1, <1>4, <1>6
<1>11. CASE InHeader(i)
  <2>1. /\ phase = "header" /\ Len(buffer) + bytesToRead = HeaderLength
        /\ \A k \in 1..Len(buffer) : buffer[k] = <<i, k>>
    BY <1>11 DEF InHeader
  <2>2. off[i] + Len(buffer) = 0
    BY <1>1, <2>1 DEF Taken, Between
  <2>3. ASSUME NEW k \in 1..Len(buffer')
        PROVE  buffer'[k] = <<i, k>>
    <3>1. CASE k <= Len(buffer)
      BY <1>7, <2>1, <3>1
    <3>2. CASE k > Len(buffer)
      <4> DEFINE d == k - Len(buffer)
      <4>1. d \in 1..n /\ k = Len(buffer) + d /\ d \in 1..Len(inFlight)
        BY <1>3, <1>7, <3>2
      <4>2. /\ k \in 1..(HeaderLength + sent[i].length)
            /\ off[i] + k = d
        <5>1. /\ d \in Nat /\ d > 0 /\ d <= n /\ k = Len(buffer) + d
              /\ k <= HeaderLength /\ HeaderLength <= HeaderLength + sent[i].length
          BY <1>1, <1>3, <1>5, <2>1, <4>1
        <5>2. /\ HeaderLength \in Nat /\ sent[i].length \in Nat
              /\ Len(buffer) \in Nat /\ k \in Nat /\ k > 0
          BY <1>3, <1>5, <5>1
        <5> HIDE DEF d
        <5>3. k \in 1..(HeaderLength + sent[i].length)
          BY <5>1, <5>2
        <5>4. off[i] + k = d
          BY <1>5, <2>2, <5>1, <5>2
        <5> QED BY <5>3, <5>4
      <4> HIDE DEF d
      <4> QED BY <1>7, <1>9, <4>1, <4>2
    <3> QED BY <1>3, <1>7, <3>1, <3>2
  <2>4. i \in Placed'
    BY <1>1, <1>4, <1>8, <2>1, <2>3 DEF Placed, InHeader
  <2>5. Taken' = Len(buffer')
    BY <1>1, <2>1 DEF Taken, Between
  <2>6. new[i] + Taken' = 0
    BY <1>3, <1>5, <1>7, <1>10, <2>2, <2>5
  <2> QED BY <1>2, <1>6, <2>4, <2>6 DEF OnTrack
<1>12. CASE InBody(i)
  <2>1. /\ phase = "body" /\ sent[i].kind # "badSTX"
        /\ Len(buffer) + bytesToRead = sent[i].length
        /\ \A k \in 1..Len(buffer) : buffer[k] = <<i, HeaderLength + k>>
    BY <1>12 DEF InBody
  <2>2. off[i] + (HeaderLength + Len(buffer)) = 0
    BY <1>1, <2>1 DEF Taken, Between
  <2>3. ASSUME NEW k \in 1..Len(buffer')
        PROVE  buffer'[k] = <<i, HeaderLength + k>>
    <3>1. CASE k <= Len(buffer)
      BY <1>7, <2>1, <3>1
    <3>2. CASE k > Len(buffer)
      <4> DEFINE d == k - Len(buffer)
                 j == HeaderLength + k
      <4>1. d \in 1..n /\ k = Len(buffer) + d /\ d \in 1..Len(inFlight)
        BY <1>3, <1>7, <3>2
      <4>2. /\ j \in 1..(HeaderLength + sent[i].length)
            /\ off[i] + j = d
        <5>1. /\ d \in Nat /\ d > 0 /\ d <= n /\ k = Len(buffer) + d
              /\ k <= sent[i].length
          BY <1>1, <1>3, <1>5, <2>1, <4>1
        <5>2. /\ HeaderLength \in Nat /\ sent[i].length \in Nat
              /\ Len(buffer) \in Nat /\ k \in Nat /\ k > 0
          BY <1>3, <1>5, <5>1
        <5> HIDE DEF d
        <5>3. j \in 1..(HeaderLength + sent[i].length)
          BY <5>1, <5>2
        <5>4. off[i] + (HeaderLength + k) = d
          BY <1>5, <2>2, <5>1, <5>2
        <5> QED BY <5>3, <5>4
      <4>3. inFlight[d] = <<i, j>>
        BY <1>9, <4>1, <4>2
      <4> HIDE DEF d
      <4> QED BY <1>7, <4>1, <4>3
    <3> QED BY <1>3, <1>7, <3>1, <3>2
  <2>4. i \in Placed'
    <3>1. i <= Len(sent)
      BY <1>4
    <3>2. InBody(i)'
      BY <1>1, <1>8, <2>1, <2>3, <3>1 DEF InBody
    <3>3. i \in 1..(Len(sent') + 1)
      BY <1>1, <1>4
    <3> QED BY <3>2, <3>3 DEF Placed
  <2>5. Taken' = HeaderLength + Len(buffer')
    BY <1>1, <2>1 DEF Taken, Between
  <2>6. new[i] + Taken' = 0
    BY <1>3, <1>5, <1>7, <1>10, <2>2, <2>5
  <2> QED BY <1>2, <1>6, <2>4, <2>6 DEF OnTrack
<1> QED BY <1>1, <1>11, <1>12 DEF Placed, Between

(* A body that was read is that of the packet the reader is in, and of no   *)
(* other; so is a header.                                                   *)
LEMMA WhatIsRead ==
    ASSUME TypeOK, NEW i \in Placed, readerPc \in {"received", "deliver"},
           NEW off \in Layouts, off[i] + Taken = 0
    PROVE  /\ i \in DOMAIN sent
           /\ phase = "header" =>
                 /\ readerPc = "received" /\ Taken = HeaderLength /\ InHeader(i)
                 /\ \A j \in DOMAIN sent : IsHeader(j) <=> j = i
           /\ phase = "body" =>
                 /\ InBody(i)
                 /\ \A j \in DOMAIN sent : IsBody(j) <=> j = i
<1>1. /\ Len(sent) \in Nat /\ DOMAIN sent = 1..Len(sent)
      /\ HeaderLength \in Nat /\ HeaderLength > 0
      /\ i \in 1..(Len(sent) + 1)
      /\ \A k \in 1..Len(sent) : sent[k].length \in Nat /\ sent[k].length > 0
  BY SentType DEF TypeOK, Placed
<1>2. Len(buffer) \in Nat /\ Len(inFlight) \in Nat /\ bytesToRead \in Nat
  BY DEF TypeOK
<1>3. CASE InHeader(i)
  <2>1. /\ phase = "header" /\ readerPc = "received" /\ bytesToRead = 0
        /\ Len(buffer) + bytesToRead = HeaderLength
        /\ \A k \in 1..Len(buffer) : buffer[k] = <<i, k>>
    BY <1>3 DEF InHeader
  <2>2. Len(buffer) = HeaderLength
    BY <1>1, <1>2, <2>1
  <2>3. Taken = HeaderLength
    BY <2>1, <2>2 DEF Taken, Between
  <2>4. i \in 1..Len(sent)
    BY <1>1, <2>3, Inside
  <2>5. ASSUME NEW j \in DOMAIN sent, IsHeader(j)
        PROVE  j = i
    <3>1. 1 \in 1..HeaderLength
      BY <1>1
    <3>2. buffer[1] = <<j, 1>> /\ buffer[1] = <<i, 1>>
      BY <2>1, <2>2, <2>5, <3>1 DEF IsHeader, HeaderOf
    <3> QED BY <3>2
  <2>6. IsHeader(i)
    <3>1. buffer \in [1..HeaderLength -> Nat \X Nat]
      BY <2>2 DEF TypeOK
    <3>2. \A k \in 1..HeaderLength : buffer[k] = <<i, k>>
      BY <2>1, <2>2
    <3>3. buffer = [k \in 1..HeaderLength |-> buffer[k]]
      BY <3>1
    <3> QED BY <3>2, <3>3 DEF IsHeader, HeaderOf
  <2> QED BY <1>1, <1>3, <2>1, <2>3, <2>4, <2>5, <2>6
<1>4. CASE InBody(i)
  <2>1. /\ phase = "body" /\ bytesToRead = 0 /\ i \in 1..Len(sent)
        /\ Len(buffer) + bytesToRead = sent[i].length
        /\ \A k \in 1..Len(buffer) : buffer[k] = <<i, HeaderLength + k>>
    BY <1>1, <1>4 DEF InBody
  <2>2. Len(buffer) = sent[i].length
    BY <1>1, <1>2, <2>1
  <2>3. ASSUME NEW j \in DOMAIN sent, IsBody(j)
        PROVE  j = i
    <3>1. 1 \in 1..sent[i].length /\ 1 \in 1..sent[j].length
      BY <1>1, <2>1
    <3>2. buffer[1] = <<j, HeaderLength + 1>> /\ buffer[1] = <<i, HeaderLength + 1>>
      BY <2>1, <2>2, <2>3, <3>1 DEF IsBody, BodyOf
    <3> QED BY <3>2
  <2>4. IsBody(i)
    <3>1. buffer \in [1..sent[i].length -> Nat \X Nat]
      BY <2>2 DEF TypeOK
    <3>2. \A k \in 1..sent[i].length : buffer[k] = <<i, HeaderLength + k>>
      BY <2>1, <2>2
    <3>3. buffer = [k \in 1..sent[i].length |-> buffer[k]]
      BY <3>1
    <3> QED BY <3>2, <3>3 DEF IsBody, BodyOf
  <2> QED BY <1>1, <1>4, <2>1, <2>3, <2>4
<1> QED BY <1>3, <1>4 DEF Placed, Between

(* Once a header is read, the reader goes on to the body, or it begins with *)
(* another byte than STX, and the replies before it were all handed on.     *)
LEMMA HeaderStep ==
    ASSUME TypeOK, TypeOK', ParseHeader, NEW i \in Handed, i \in Placed,
           NEW off \in Layouts, off[i] + Taken = 0
    PROVE  OnTrack' \/ Astray'
<1>1. /\ sent' = sent /\ inFlight' = inFlight /\ delivered' = delivered
      /\ readerPc = "received" /\ phase = "header"
  BY DEF ParseHeader, serverVars
<1>2. /\ i \in DOMAIN sent /\ Taken = HeaderLength
      /\ \A j \in DOMAIN sent : IsHeader(j) <=> j = i
  BY <1>1, WhatIsRead
<1>3. /\ Len(sent) \in Nat /\ DOMAIN sent = 1..Len(sent) /\ HeaderLength \in Nat
      /\ sent[i].length \in Nat /\ i \in 1..Len(sent)
  BY <1>2, SentType DEF TypeOK
<1>4. CASE sent[i].kind # "badSTX" /\ BeginReceive("body", sent[i].length)
  <2>1. /\ phase' = "body" /\ buffer' = <<>> /\ readerPc' = "check"
        /\ bytesToRead' = sent[i].length
    BY <1>4 DEF BeginReceive
  <2>2. InBody(i)'
    BY <1>1, <1>3, <1>4, <2>1 DEF InBody
  <2>3. i \in Placed'
    BY <1>1, <1>3, <2>2 DEF Placed
  <2>4. Taken' = Taken
    <3>1. Taken' = HeaderLength + Len(buffer')
      BY <2>1 DEF Taken, Between
    <3> QED BY <1>2, <1>3, <2>1, <3>1
  <2> QED BY <1>1, <2>3, <2>4, StayStep
<1>5. CASE sent[i].kind = "badSTX"
  <2>1. ~Good(i)
    BY <1>3, <1>5 DEF Good
  <2>2. \A j \in Replies : j < i
    BY <1>3, <2>1, NoneAfterBad
  <2>3. InOrder(Len(delivered)) /\ NoneMissing(i - 1, Len(delivered))
    BY DEF Handed
  <2>4. NoneMissing(Len(sent), Len(delivered))
    <3> SUFFICES ASSUME NEW j \in 1..Len(sent), j \in Replies
                 PROVE  \E k \in 1..Len(delivered) : delivered[k] = j
      BY DEF NoneMissing
    <3>1. j \in 1..(i - 1)
      BY <1>3, <2>2
    <3> QED BY <2>3, <3>1 DEF NoneMissing
  <2>5. Len(delivered) \in 0..Len(delivered)
    BY DEF TypeOK
  <2>6. ~Framed
    BY <1>2, <2>1 DEF Framed
  <2>7. Astray
    BY <2>3, <2>4, <2>5, <2>6 DEF Astray
  <2> QED BY <1>1, <2>7, AstrayStep DEF SentGrows, DeliveredGrows
<1> QED BY <1>2, <1>4, <1>5 DEF ParseHeader

(* A packet whose body is read is a reply, or one of another type, which is *)
(* skipped.                                                                 *)
LEMMA BodyStep ==
    ASSUME TypeOK, TypeOK', ParseBody, NEW i \in Handed, i \in Placed,
           NEW off \in Layouts, off[i] + Taken = 0
    PROVE  OnTrack'
<1>1. /\ sent' = sent /\ inFlight' = inFlight /\ delivered' = delivered
      /\ readerPc = "received" /\ phase = "body"
      /\ phase' = phase /\ buffer' = buffer /\ bytesToRead' = bytesToRead
  BY DEF ParseBody, serverVars, bufferVars
<1>2. /\ i \in DOMAIN sent /\ InBody(i)
      /\ \A j \in DOMAIN sent : IsBody(j) <=> j = i
  BY <1>1, WhatIsRead
<1>3. /\ Len(sent) \in Nat /\ DOMAIN sent = 1..Len(sent)
      /\ i \in 1..Len(sent) /\ sent[i].kind \in Kinds
  <2>1. sent[i] \in Packets
    BY <1>2 DEF TypeOK
  <2> QED BY <1>2, <2>1 DEF TypeOK, Packets
<1>4. CASE sent[i].kind # "unsupported" /\ readerPc' = "deliver"
  <2>1. sent[i].kind = "reply"
    BY <1>2, <1>3, <1>4 DEF Kinds, InBody
  <2>2. InBody(i)'
    BY <1>1, <1>2, <1>3, <1>4, <2>1 DEF InBody
  <2>3. i \in Placed'
    BY <1>1, <1>3, <2>2 DEF Placed
  <2>4. Taken' = Taken
    BY <1>1, <1>4 DEF Taken, Between
  <2> QED BY <1>1, <2>3, <2>4, StayStep
<1>5. CASE sent[i].kind = "unsupported" /\ readerPc' = "loop"
  <2>1. i \in Handed'
    BY <1>1, HandedStep DEF SentGrows
  <2>2. i + 1 \in Handed'
    <3>1. /\ Good(i - 1)' /\ InOrder(Len(delivered))'
          /\ \A k \in 1..Len(delivered') : delivered'[k] < i
          /\ NoneMissing(i - 1, Len(delivered))'
      BY <2>1 DEF Handed
    <3>2. Len(sent') \in Nat /\ sent'[i].kind = "unsupported" /\ i \in Nat
      BY <1>1, <1>3, <1>5
    <3>3. Good(i)'
      BY <3>1, <3>2 DEF Good
    <3>4. ~(i \in Replies)'
      BY <3>2 DEF Replies
    <3>5. NoneMissing(i, Len(delivered))'
      BY <3>1, <3>2, <3>4 DEF NoneMissing
    <3>6. \A k \in 1..Len(delivered') : delivered'[k] < i + 1
      <4>1. \A k \in 1..Len(delivered') : delivered'[k] \in Nat
        BY DEF TypeOK
      <4> QED BY <3>1, <3>2, <4>1
    <3>7. i + 1 - 1 = i /\ i + 1 \in 1..(Len(sent') + 1)
      BY <1>1, <1>3
    <3> QED BY <3>1, <3>3, <3>5, <3>6, <3>7 DEF Handed
  <2> QED BY <1>1, <1>5, <2>2, NextPacket
<1> QED BY <1>2, <1>4, <1>5 DEF ParseBody

(* A reply is handed on behind those before it.                             *)
LEMMA DeliverStep ==
    ASSUME TypeOK, TypeOK', Deliver, NEW i \in Handed, i \in Placed,
           NEW off \in Layouts, off[i] + Taken = 0
    PROVE  OnTrack'
<1>1. /\ sent' = sent /\ inFlight' = inFlight
      /\ readerPc = "deliver" /\ readerPc' = "loop"
  BY DEF Deliver, ReaderGoto, serverVars
<1>2. phase = "body"
  BY <1>1 DEF Placed, Between, InHeader, InBody
<1>3. /\ i \in DOMAIN sent /\ InBody(i)
      /\ \A j \in DOMAIN sent : IsBody(j) <=> j = i
  BY <1>1, <1>2, WhatIsRead
<1>4. delivered' = Append(delivered, i)
  BY <1>3 DEF Deliver
<1>5. /\ Len(sent) \in Nat /\ DOMAIN sent = 1..Len(sent) /\ i \in 1..Len(sent)
      /\ sent[i].kind = "reply" /\ i \in Nat
  BY <1>1, <1>3 DEF TypeOK, InBody
<1> DEFINE m == Len(delivered)
<1>6. /\ m \in Nat /\ Len(delivered') = m + 1 /\ delivered'[m + 1] = i
      /\ \A k \in 1..m : delivered'[k] = delivered[k] /\ delivered[k] \in Nat
  BY <1>4, <1>5 DEF TypeOK
<1>7. /\ Good(i - 1) /\ InOrder(m) /\ NoneMissing(i - 1, m)
      /\ \A k \in 1..m : delivered[k] < i
  BY DEF Handed
<1> HIDE DEF m
<1>8. Good(i)
  BY <1>5, <1>7 DEF Good
<1>9. i \in Replies /\ Replies \subseteq Nat
  BY <1>5, <1>8 DEF Replies
<1>10. Replies' = Replies /\ Good(i)'
  BY <1>1, <1>8 DEF Replies, Good
<1>11. InOrder(Len(delivered))'
  <2>1. \A k \in 1..(m + 1) : k = m + 1 \/ k \in 1..m
    BY <1>6
  <2>2. \A k \in 1..(m + 1) : delivered'[k] \in Replies'
    BY <1>6, <1>7, <1>9, <1>10, <2>1 DEF InOrder
  <2>3. ASSUME NEW k \in 1..(m + 1), NEW l \in 1..(m + 1), k < l
        PROVE  delivered'[k] < delivered'[l]
    <3>1. k \in 1..m /\ (l = m + 1 \/ l \in 1..m)
      BY <1>6, <2>3
    <3> QED BY <1>6, <1>7, <2>3, <3>1 DEF InOrder
  <2> QED BY <1>6, <2>2, <2>3 DEF InOrder
<1>12. NoneMissing(i, Len(delivered))'
  <2> SUFFICES ASSUME NEW j \in 1..i, j \in Replies'
               PROVE  \E k \in 1..(m + 1) : delivered'[k] = j
    BY <1>6 DEF NoneMissing
  <2>1. CASE j = i
    <3>1. m + 1 \in 1..(m + 1)
      BY <1>6
    <3> QED BY <1>6, <2>1, <3>1
  <2>2. CASE j # i
    <3>1. j \in 1..(i - 1) /\ j \in Replies
      BY <1>5, <1>10, <2>2
    <3>2. PICK k \in 1..m : delivered[k] = j
      BY <1>7, <3>1 DEF NoneMissing
    <3>3. k \in 1..(m + 1) /\ delivered'[k] = j
      BY <1>6, <3>2
    <3> QED BY <3>3
  <2> QED BY <2>1, <2>2
<1>13. \A k \in 1..Len(delivered') : delivered'[k] < i + 1
  <2>1. \A k \in 1..(m + 1) : k = m + 1 \/ k \in 1..m
    BY <1>6
  <2> QED BY <1>5, <1>6, <1>7, <2>1
<1>14. i + 1 \in Handed'
  <2>1. i + 1 - 1 = i /\ i + 1 \in 1..(Len(sent') + 1)
    BY <1>1, <1>5
  <2> QED BY <1>10, <1>11, <1>12, <1>13, <2>1 DEF Handed
<1> QED BY <1>1, <1>2, <1>14, NextPacket

(* Every step keeps the reader on its track, or is the one in which it goes *)
(* astray.                                                                  *)
LEMMA TrackStep ==
    TypeOK /\ TypeOK' /\ Stopping /\ OnTrack /\ [Next]_vars => OnTrack' \/ Astray'
<1> SUFFICES ASSUME TypeOK, TypeOK', Stopping, OnTrack, [Next]_vars
             PROVE  OnTrack' \/ Astray'
  OBVIOUS
<1>1. SentGrows /\ DeliveredGrows
  BY HistoryGrows
<1>2. PICK i \in Handed :
         Stopped \/ (i \in Placed /\ \E off \in Layouts : off[i] + Taken = 0)
  BY DEF OnTrack
<1>3. CASE Stopped
  <2>1. Stopped' /\ delivered' = delivered
    <3> USE <1>3 DEF Stopped, serverVars, socketVars, bufferVars
    <3>1. CASE \E packet \in Packets : Send(packet)
      BY <3>1 DEF Send
    <3>2. CASE PeerEnds \/ CreateSocket \/ Connect \/ Terminate \/ Shutdown
               \/ Close \/ ClearFd \/ DeleteReader \/ Join
      BY <3>2 DEF PeerEnds, CreateSocket, Connect, Terminate, Shutdown, Close,
                  ClearFd, DeleteReader, Join
    <3>3. CASE StartReader
      BY <3>3 DEF StartReader, OwnerGoto, Stopping
    <3>4. CASE ReaderStep \/ StdinEnds
      BY <3>4 DEF ReaderStep, LoopTest, ReaderGoto, ReceiveHeader, ReadCheck,
                  ReadResult, ReadParts, Arrives, ReadFails, ReadStdin,
                  StdinEnds, ReceiveFails, ParseHeader, ParseBody, Deliver
    <3>5. CASE UNCHANGED vars
      BY <3>5 DEF vars
    <3> QED BY <3>1, <3>2, <3>3, <3>4, <3>5 DEF Next, OwnerStep
  <2> QED BY <1>1, <1>2, <2>1, StopStep
<1>4. ASSUME i \in Placed, NEW off \in Layouts, off[i] + Taken = 0
      PROVE  OnTrack' \/ Astray'
  <2>1. ASSUME NEW packet \in Packets, Send(packet)
        PROVE  OnTrack'
    <3>1. i \in Handed'
      BY <1>1, <1>2, <2>1, HandedStep DEF Send
    <3>2. PICK new \in Layouts' : \A k \in 1..(Len(sent) + 1) : new[k] = off[k]
      BY <2>1, LayoutSend
    <3>3. /\ readerPc' = readerPc /\ phase' = phase /\ buffer' = buffer
          /\ bytesToRead' = bytesToRead
      BY <2>1 DEF Send, bufferVars
    <3>4. Taken' = Taken
      BY <3>3 DEF Taken, Between
    <3>5. /\ Len(sent) \in Nat /\ Len(sent') \in Nat /\ Len(sent) <= Len(sent')
          /\ \A k \in 1..Len(sent) : sent'[k] = sent[k]
          /\ i \in 1..(Len(sent) + 1)
      <4>1. i \in 1..(Len(sent) + 1) /\ Len(sent) \in Nat
        BY <1>4 DEF TypeOK, Placed
      <4>2. /\ Len(sent') \in Nat /\ Len(sent) <= Len(sent')
            /\ \A k \in 1..Len(sent) : sent'[k] = sent[k]
        BY <1>1, <4>1, OldPackets
      <4> QED BY <4>1, <4>2
    <3>6. i \in Placed'
      BY <1>4, <3>3, <3>5 DEF Placed, Between, InHeader, InBody
    <3>7. new[i] + Taken' = 0
      BY <1>4, <3>2, <3>4, <3>5
    <3> QED BY <3>1, <3>2, <3>6, <3>7 DEF OnTrack
  <2>2. CASE \/ PeerEnds \/ CreateSocket \/ Connect \/ Terminate \/ Shutdown
             \/ Close \/ ClearFd \/ DeleteReader \/ Join \/ UNCHANGED vars
    <3>1. UNCHANGED <<sent, inFlight, delivered, readerPc, phase, buffer,
                      bytesToRead>>
      BY <2>2 DEF PeerEnds, CreateSocket, Connect, Terminate, Shutdown, Close,
                  ClearFd, DeleteReader, Join, vars, serverVars, bufferVars
    <3>2. i \in Placed' /\ Taken' = Taken
      BY <1>4, <3>1 DEF Placed, Taken, Between, InHeader, InBody
    <3> QED BY <1>2, <1>4, <3>1, <3>2, StayStep
  <2>3. CASE StartReader
    <3>1. /\ UNCHANGED <<sent, inFlight, delivered>>
          /\ readerPc = "new" /\ readerPc' = "loop"
      BY <2>3 DEF StartReader, OwnerGoto, Stopping, serverVars
    <3>2. i \in Placed' /\ Taken' = Taken
      BY <1>4, <3>1 DEF Placed, Taken, Between
    <3> QED BY <1>2, <1>4, <3>1, <3>2, StayStep
  <2>4. CASE LoopTest
    <3>1. /\ UNCHANGED <<sent, inFlight, delivered>>
          /\ readerPc = "loop" /\ readerPc' \in {"begin", "exited"}
      BY <2>4 DEF LoopTest, ReaderGoto, serverVars
    <3>2. CASE readerPc' = "begin"
      <4>1. i \in Placed' /\ Taken' = Taken
        BY <1>4, <3>1, <3>2 DEF Placed, Taken, Between
      <4> QED BY <1>2, <1>4, <3>1, <4>1, StayStep
    <3>3. CASE readerPc' = "exited"
      BY <1>1, <1>2, <3>1, <3>3, StopStep DEF Stopped
    <3> QED BY <3>1, <3>2, <3>3
  <2>5. CASE ReceiveHeader
    <3>1. /\ UNCHANGED <<sent, inFlight, delivered>>
          /\ readerPc = "begin" /\ readerPc' = "check" /\ phase' = "header"
          /\ buffer' = <<>> /\ bytesToRead' = HeaderLength
      BY <2>5 DEF ReceiveHeader, BeginReceive, serverVars
    <3>2. HeaderLength \in Nat
      BY LengthsAssumption
    <3>3. Len(buffer') = 0
      BY <3>1
    <3>4. InHeader(i)'
      BY <3>1, <3>2, <3>3 DEF InHeader
    <3>5. i \in Placed' /\ Taken' = Taken
      BY <1>4, <3>1, <3>3, <3>4 DEF Placed, Taken, Between
    <3> QED BY <1>2, <1>4, <3>1, <3>5, StayStep
  <2>6. CASE ReadCheck \/ ReadFails \/ ReadStdin \/ StdinEnds
    <3>1. /\ UNCHANGED <<sent, inFlight, delivered, phase, buffer, bytesToRead>>
          /\ \/ readerPc = "check" /\ readerPc' = "read"
             \/ Stopped'
      BY <2>6 DEF ReadCheck, ReadFails, ReadStdin, StdinEnds, ReceiveFails,
                  ReaderGoto, Stopped, serverVars, bufferVars
    <3>2. CASE readerPc = "check" /\ readerPc' = "read"
      <4>1. i \in Placed' /\ Taken' = Taken
        BY <1>4, <3>1, <3>2 DEF Placed, Taken, Between, InHeader, InBody
      <4> QED BY <1>2, <1>4, <3>1, <4>1, StayStep
    <3>3. CASE Stopped'
      BY <1>1, <1>2, <3>1, <3>3, StopStep
    <3> QED BY <3>1, <3>2, <3>3
  <2>7. ASSUME NEW n \in 1..Len(inFlight), ReadParts(n)
        PROVE  OnTrack'
    BY <1>2, <1>4, <2>7, ReadStep
  <2>8. CASE ParseHeader
    BY <1>2, <1>4, <2>8, HeaderStep
  <2>9. CASE ParseBody
    BY <1>2, <1>4, <2>9, BodyStep
  <2>10. CASE Deliver
    BY <1>2, <1>4, <2>10, DeliverStep
  <2> QED
    BY <2>1, <2>2, <2>3, <2>4, <2>5, <2>6, <2>7, <2>8, <2>9, <2>10
    DEF Next, OwnerStep, ReaderStep, ReadResult
<1> QED BY <1>2, <1>3, <1>4

(* What has been handed on is right on the track, and behind it.            *)
LEMMA TrackDelivers == TypeOK /\ (OnTrack \/ Astray) => DeliversReplies
<1> SUFFICES ASSUME TypeOK, OnTrack \/ Astray
             PROVE  DeliversReplies
  OBVIOUS
<1>1. CASE OnTrack
  <2>1. PICK i \in Handed : TRUE
    BY <1>1 DEF OnTrack
  <2>2. /\ InOrder(Len(delivered)) /\ NoneMissing(i - 1, Len(delivered))
        /\ \A k \in 1..Len(delivered) : delivered[k] < i
        /\ i \in 1..(Len(sent) + 1)
    BY DEF Handed
  <2>3. ASSUME NEW k \in 1..Len(delivered)
        PROVE  NoneMissing(delivered[k], Len(delivered))
    <3>1. delivered[k] \in Nat /\ delivered[k] < i /\ Len(sent) \in Nat /\ i \in Nat
      BY <2>2 DEF TypeOK
    <3>2. 1..delivered[k] \subseteq 1..(i - 1)
      BY <3>1
    <3> QED BY <2>2, <3>2 DEF NoneMissing
  <2> QED BY <2>2, <2>3 DEF DeliversReplies
<1>2. CASE Astray
  BY <1>2 DEF Astray, DeliversReplies
<1> QED BY <1>1, <1>2

(* However the server's packets are cut into reads, and however the         *)
(* connection ends, each reply that is framed by its header is handed on    *)
(* whole, once and in order, and none before it is left out.                *)
THEOREM RepliesHandedOn == Spec => []DeliversReplies
<1>1. Init => OnTrack
  <2> SUFFICES ASSUME Init
               PROVE  OnTrack
    OBVIOUS
  <2>1. /\ sent = <<>> /\ inFlight = <<>> /\ delivered = <<>> /\ readerPc = "new"
        /\ Len(sent) = 0 /\ Len(inFlight) = 0 /\ Len(delivered) = 0
    BY DEF Init
  <2>2. 1 \in Handed
    BY <2>1 DEF Handed, Good, InOrder, NoneMissing
  <2>3. 1 \in Placed /\ Taken = 0
    BY <2>1 DEF Placed, Taken, Between
  <2> DEFINE off == [k \in 1..1 |-> 0]
  <2>4. off \in Layouts /\ off[1] = 0
    BY <2>1 DEF Layouts
  <2>5. off[1] + Taken = 0
    BY <2>3, <2>4
  <2> HIDE DEF off
  <2> QED BY <2>2, <2>3, <2>4, <2>5 DEF OnTrack
<1>2. Init => Stopping
  BY DEF Init, Stopping, Terminating
<1>3. TypeOK /\ TypeOK' /\ Stopping /\ (OnTrack \/ Astray) /\ [Next]_vars
      => (OnTrack \/ Astray)'
  BY TrackStep, HistoryGrows, AstrayStep
<1>4. TypeOK /\ (OnTrack \/ Astray) => DeliversReplies
  BY TrackDelivers
<1> QED
  BY <1>1, <1>2, <1>3, <1>4, TypeCorrect, StoppingStep, PTL DEF Spec
=============================================================================
