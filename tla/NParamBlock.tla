---------------------------- MODULE NParamBlock -----------------------------
(* The parameter block of a packet: a multiset ordered by the parameters'   *)
(* ids, what it looks like as bytes, and how a reply is taken apart again.  *)
(* A byte is a digit below Radix, so that a 16-bit number has two of them   *)
(* and a few values already reach beyond it. Compression, encryption (which *)
(* the reader undoes first) and the CRC's value are left out.               *)
EXTENDS Integers, FiniteSets, Sequences, SequencesExt

CONSTANTS
    Radix,          \* values of a byte
    ParamIds, Bodies,
    Versions,       \* protocol versions
    MaxParams       \* bound: parameters in a block

ASSUME ParAssumption == /\ Radix \in Nat \ {0, 1}
                        /\ ParamIds \subseteq 0..(Radix * Radix - 1)
                        /\ \A b \in Bodies : b \in Seq(0..(Radix - 1))
                        /\ Versions \subseteq Nat

VARIABLE m_params       \* the block, in the order of the multiset

Params == [id : ParamIds, body : Bodies]

ParInit == m_params = <<>>
-----------------------------------------------------------------------------
\* The parameters with lower ids, and with ids no higher: the bounds of the
\* range of elements that are equal as the multiset compares them.
Below(ps, id) == Cardinality({i \in 1..Len(ps) : ps[i].id < id})
UpTo(ps, id) == Cardinality({i \in 1..Len(ps) : ps[i].id <= id})

\* Mutant of Inserted: a parameter is put at the end, whatever its id.
Inserted_Last(ps, p) == Append(ps, p)

\* Mutant of Inserted: equal parameters come out in reverse.
Inserted_First(ps, p) == InsertAt(ps, Below(ps, p.id) + 1, p)

\* addParam: insert of a multiset puts an element behind its equals.
Inserted(ps, p) == InsertAt(ps, UpTo(ps, p.id) + 1, p)

AddParam(p) == /\ Len(m_params) < MaxParams
               /\ m_params' = Inserted(m_params, p)

\* updateParam: find yields any of several equal elements.
UpdateParam(p) ==
    LET found == {i \in 1..Len(m_params) : m_params[i].id = p.id} IN
    \/ found = {} /\ AddParam(p)
    \/ \E i \in found : m_params' = [m_params EXCEPT ![i].body = p.body]

\* removeParam: erase of a multiset takes the whole range.
RemoveParam(id) ==
    m_params' = SubSeq(m_params, 1, Below(m_params, id))
                  \o SubSeq(m_params, UpTo(m_params, id) + 1, Len(m_params))

ParNext == \/ \E p \in Params : AddParam(p) \/ UpdateParam(p)
           \/ \E id \in ParamIds : RemoveParam(id)

ParSpec == ParInit /\ [][ParNext]_m_params
-----------------------------------------------------------------------------
\* A 16-bit number, the higher byte first; what is above is cut off.
Short(n) == <<(n \div Radix) % Radix, n % Radix>>

ShortAt(bytes, pos) == bytes[pos] * Radix + bytes[pos + 1]

WriteParam(p) == Short(p.id) \o Short(Len(p.body)) \o p.body

\* From version 12 on a word of flags comes first; none of them is set.
HasFlags(ver) == ver >= 12
Flags == <<0, 0, 0, 0>>

WriteParams(ps, ver) ==
    (IF HasFlags(ver) THEN Flags ELSE <<>>)
        \o FlattenSeq([i \in 1..Len(ps) |-> WriteParam(ps[i])])

\* Mutant of ParseFrom: a body that is cut short is taken as it is.
ParseFrom_Lenient(bytes, start) ==
    LET from[pos \in 1..(Len(bytes) + 1)] ==
          IF pos + 3 > Len(bytes)
          THEN [valid |-> pos = Len(bytes) + 1, params |-> <<>>]
          ELSE LET last == pos + 3 + ShortAt(bytes, pos + 2)
                   end == IF last > Len(bytes) THEN Len(bytes) ELSE last
                   p == [id |-> ShortAt(bytes, pos),
                         body |-> SubSeq(bytes, pos + 4, end)]
                   rest == from[end + 1]
               IN [valid |-> rest.valid, params |-> <<p>> \o rest.params]
    IN from[start]

\* The loop over the parameters, in the order of the bytes.
ParseFrom(bytes, start) ==
    LET from[pos \in 1..(Len(bytes) + 1)] ==
          IF pos + 3 > Len(bytes)
          THEN [valid |-> pos = Len(bytes) + 1, params |-> <<>>]
          ELSE LET last == pos + 3 + ShortAt(bytes, pos + 2)
                   p == [id |-> ShortAt(bytes, pos),
                         body |-> SubSeq(bytes, pos + 4, last)]
               IN IF last > Len(bytes) THEN [valid |-> FALSE, params |-> <<>>]
                  ELSE LET rest == from[last + 1]
                       IN [valid |-> rest.valid, params |-> <<p>> \o rest.params]
    IN from[start]

ParseParams(bytes, ver) ==
    LET list == ParseFrom(bytes, IF HasFlags(ver) /\ Len(bytes) >= 4 THEN 5 ELSE 1)
    IN [valid |-> list.valid, params |-> FoldLeft(Inserted, <<>>, list.params)]
-----------------------------------------------------------------------------
(* A reply behind its length field: version, type, request id, request      *)
(* version, status code and message, the parameters, and four bytes of CRC. *)
Crc == <<1, 0, 1, 1>>

\* setStatusMessage: what is kept of a text is its characters and their zero.
\* A reply that never had its message set keeps nothing.
StatusMessage(text) == text \o <<0>>

\* Behind the request version come the status code, the bytes that are kept
\* of the status message, and a zero.
WriteSpecificHeaderPart(buff, status, m_statusMessage) ==
    buff \o <<status>> \o m_statusMessage \o <<0>>

WriteReply(ver, type, reqID, status, m_statusMessage, ps) ==
    WriteSpecificHeaderPart(<<ver>> \o Short(type) \o <<reqID, 0>>, status, m_statusMessage)
        \o WriteParams(ps, ver) \o Crc

\* NavReplyPacket's constructor; the message ends at the first zero.
ParseReply(bytes) ==
    LET zeros == {i \in 7..Len(bytes) : bytes[i] = 0}
        zero == CHOOSE i \in zeros : \A j \in zeros : i <= j
        block == ParseParams(SubSeq(bytes, zero + 1, Len(bytes) - 4), bytes[1])
    IN [type |-> ShortAt(bytes, 2), reqID |-> bytes[4], status |-> bytes[6],
        message |-> SubSeq(bytes, 7, zero - 1),
        valid |-> block.valid, params |-> block.params]
-----------------------------------------------------------------------------
\* What the 16-bit length field of a parameter can say.
Writable(ps) == \A i \in 1..Len(ps) : Len(ps[i].body) < Radix * Radix

(* The block is ordered by id whatever sequence of calls made it, which is  *)
(* what getParam and getAllParams search it by.                             *)
ParTypeOK == /\ m_params \in Seq(Params)
             /\ \A i, j \in 1..Len(m_params) : i < j => m_params[i].id <= m_params[j].id

\* The reply that is read when this one is sent.
Arrived(ver, type, m_statusMessage) ==
    ParseReply(WriteReply(ver, type, 1, 0, m_statusMessage, m_params))

\* The reply as it was meant, with this text as its status message.
Sent(type, text) == [type |-> type, reqID |-> 1, status |-> 0, message |-> text,
                     valid |-> TRUE, params |-> m_params]

Texts == {<<>>, <<1>>}

(* A reply arrives as it was sent: every field is found again, parameters   *)
(* with the same id keep their order, and the CRC behind them is not taken  *)
(* for one. The exceptions are a parameter too long for its length field,   *)
(* and the parameters of a reply whose status message was set: the second   *)
(* zero behind the message is read as the block's first byte. Of such a     *)
(* reply the type, the request id, the status and the message are found.    *)
ReplyRoundTrip == \A ver \in Versions, type \in ParamIds :
    Writable(m_params) =>
        /\ Arrived(ver, type, <<>>) = Sent(type, <<>>)
        /\ \A text \in Texts :
               LET reply == Arrived(ver, type, StatusMessage(text))
                   sent == Sent(type, text)
               IN /\ reply.type = sent.type /\ reply.reqID = sent.reqID
                  /\ reply.status = sent.status /\ reply.message = sent.message

(* A block that was cut off anywhere is either found invalid or was cut     *)
(* between two parameters: what is accepted as valid is what the bytes say. *)
(* The exception is a block with flags of which nothing is left: the        *)
(* constructor takes no bytes at all for a valid empty block.               *)
CutsAreSeen == \A ver \in Versions :
    LET bytes == WriteParams(m_params, ver) IN
    \A n \in 0..Len(bytes) :
        LET part == SubSeq(bytes, 1, n)
            block == ParseParams(part, ver)
        IN Writable(m_params) /\ block.valid =>
               \/ WriteParams(block.params, ver) = part
               \/ n = 0 /\ HasFlags(ver) /\ block.params = <<>>
=============================================================================
