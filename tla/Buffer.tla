------------------------------- MODULE Buffer -------------------------------
(* Buffer: a growing byte array that is written and read at two positions.  *)
(* The bytes are left out; what is kept is where each operation reads and   *)
(* writes, with the alignment of the sizes above one byte, the growth by a  *)
(* quarter and the unsigned subtractions the tests for room are made with.  *)
EXTENDS Integers, Sequences

CONSTANTS
    Lengths,        \* the sizes asked for: arrays, strings, reservations
    Offsets,        \* the arguments of the jumps
    WordSize,       \* 2^w of size_t
    MaxLength,      \* bound: a buffer longer than this is not enlarged
    MaxCalls        \* bound: calls on one buffer

ASSUME BufAssumption == /\ Lengths \subseteq Nat
                        /\ Offsets \subseteq Int
                        /\ WordSize \in Nat /\ WordSize >= 16
                        /\ \A n \in Lengths : n + 4 <= WordSize
                        /\ MaxLength \in Nat
                        /\ MaxCalls \in Nat

VARIABLES
    m_dataLength, m_readPos, m_writePos, m_validBytes, m_resize,
    strayed,        \* the program has left the bytes of the buffer
    written,        \* history: what was written since the buffer was empty
    tracked,        \* history: "written" is all there is in the buffer
    next,           \* history: the item the reader is about to read, or 0
    calls           \* bounds the model

bufHistory == <<written, tracked, next>>
bufVars == <<m_dataLength, m_readPos, m_writePos, m_validBytes, m_resize,
             strayed, bufHistory, calls>>

Kinds == {"8bit", "16bit", "32bit", "64bit", "Unaligned16bit", "Unaligned32bit",
          "Unaligned64bit", "array"}
Bytes == [k \in Kinds |-> IF k = "8bit" THEN 1
                          ELSE IF k \in {"16bit", "Unaligned16bit"} THEN 2
                          ELSE IF k \in {"64bit", "Unaligned64bit"} THEN 8 ELSE 4]
Alignment == [k \in Kinds |-> IF k = "16bit" THEN 2
                              ELSE IF k \in {"32bit", "64bit"} THEN 4 ELSE 1]

\* What each write adds at least to a buffer that is full.
Growth == [k \in Kinds |-> IF Bytes[k] > 2 THEN 2 * Bytes[k] ELSE 4]

AlignUp(pos, a) == ((pos + a - 1) \div a) * a

\* a - b as size_t has it.
Minus(a, b) == IF a >= b THEN a - b ELSE a - b + WordSize

Larger(a, b) == IF a > b THEN a ELSE b
Smaller(a, b) == IF a < b THEN a ELSE b

\* The constructors: by length, and around somebody else's bytes.
BufInit == /\ \/ /\ m_dataLength \in {AlignUp(n, 4) : n \in Lengths}
                 /\ m_validBytes = 0 /\ m_resize = TRUE /\ tracked = TRUE
              \/ /\ m_dataLength \in Lengths
                 /\ m_validBytes \in {n \in Lengths : n <= m_dataLength}
                 /\ m_resize = FALSE /\ tracked = (m_validBytes = 0)
           /\ m_writePos = m_validBytes
           /\ m_readPos = 0
           /\ strayed = FALSE
           /\ written = <<>> /\ next = 1 /\ calls = 0

\* A call on a buffer that is still intact.
Call == calls < MaxCalls /\ calls' = calls + 1 /\ ~strayed
-----------------------------------------------------------------------------
\* Mutant of Enlarged: the amount asked for does not count.
Enlarged_QuarterOnly(amount) == m_dataLength + Larger(m_dataLength \div 4, 4)

\* enlargeData
Enlarged(amount) == m_dataLength + Larger(amount, m_dataLength \div 4)

HasRoom(at, n) == Minus(m_dataLength, at) >= n

Grow(amount) == /\ m_resize /\ m_dataLength <= MaxLength
                /\ m_dataLength' = Enlarged(amount)

\* n bytes are copied to "at".
Stored(kind, at, n) ==
    /\ m_writePos' = at + n
    /\ m_validBytes' = Larger(m_validBytes, at + n)
    /\ written' = IF tracked THEN Append(written, [kind |-> kind, at |-> at, n |-> n])
                  ELSE written
    /\ UNCHANGED <<m_readPos, m_resize, tracked, next>>

\* n bytes are written at "at", after the growth if there is no room.
Put(kind, at, need, n, growth) ==
    /\ \/ HasRoom(at, need) /\ UNCHANGED m_dataLength
       \/ ~HasRoom(at, need) /\ Grow(growth)
    /\ Stored(kind, at, n)
    /\ strayed' = (at > m_dataLength)

\* No room and no growth: the aligned position is all that remains of it.
PutFails(at, n) ==
    /\ ~HasRoom(at, n) /\ ~m_resize
    /\ m_writePos' = at
    /\ tracked' = (tracked /\ at = m_writePos)
    /\ UNCHANGED <<m_dataLength, m_readPos, m_validBytes, m_resize, strayed,
                   written, next>>

\* Mutant of WriteNext: the position is not aligned.
WriteNext_Unaligned(k) ==
    Call /\ \/ Put(k, m_writePos, Bytes[k], Bytes[k], Growth[k])
            \/ PutFails(m_writePos, Bytes[k])

\* writeNext8bit, 16bit, 32bit, Float and the unaligned ones; a value of 64
\* bits that is not aligned is two of 32 for which there is room.
WriteNext(k) ==
    LET at == AlignUp(m_writePos, Alignment[k]) IN
    Call /\ \/ Put(k, at, Bytes[k], Bytes[k], Growth[k])
            \/ PutFails(at, Bytes[k])

(* writeNext64bit tests for room before it aligns, and the two halves of 32 *)
(* bits test again: the lower one may make the buffer grow a second time    *)
(* or, in a buffer that cannot grow, be lost.                               *)
RoomFor64(at) ==
    \/ HasRoom(m_writePos, 8) /\ HasRoom(at, 8) /\ UNCHANGED m_dataLength
    \/ ~HasRoom(m_writePos, 8) /\ Grow(16)
    \/ HasRoom(m_writePos, 8) /\ ~HasRoom(at, 8) /\ Grow(8)

WriteHalf(at) ==
    /\ HasRoom(m_writePos, 8) /\ ~HasRoom(at, 8) /\ ~m_resize
    /\ m_writePos' = at + 4
    /\ m_validBytes' = Larger(m_validBytes, at + 4)
    /\ tracked' = FALSE
    /\ UNCHANGED <<m_dataLength, m_readPos, m_resize, strayed, written, next>>

WriteNext64 ==
    LET at == AlignUp(m_writePos, 4) IN
    Call /\ \/ RoomFor64(at) /\ Stored("64bit", at, 8) /\ UNCHANGED strayed
            \/ WriteHalf(at)
            \/ PutFails(m_writePos, 8)

\* writeNextByteArray and, with the terminating zero, writeNextCharString.
WriteArray(n) ==
    Call /\ \/ Put("array", m_writePos, n, n, AlignUp(n, 4) + 4)
            \/ PutFails(m_writePos, n)

WriteBuffer(n) ==
    Call /\ \/ Put("array", m_writePos, n, n, AlignUp(n, 4))
            \/ PutFails(m_writePos, n)

\* nprintf asks for room for "size" bytes and uses as many as it prints.
Nprintf(size, n) ==
    /\ n \in 1..size
    /\ Call /\ \/ Put("array", m_writePos, size, n, size)
               \/ PutFails(m_writePos, size)
-----------------------------------------------------------------------------
\* The reader's next item, if it reads what was written.
Follow(kind, n) ==
    IF next \in 1..Len(written) /\ written[next].kind = kind /\ written[next].n = n
    THEN next + 1 ELSE 0

MoveRead(pos, follow) ==
    /\ m_readPos' = pos
    /\ next' = follow
    /\ UNCHANGED <<m_dataLength, m_writePos, m_validBytes, m_resize, written, tracked>>

\* readNext8bit, 16bit, 32bit, Float and the unaligned ones: 0 at the end.
ReadNext(k) ==
    LET at == AlignUp(m_readPos, Alignment[k]) IN
    /\ Call
    /\ \/ Minus(m_validBytes, at) >= Bytes[k] /\ MoveRead(at + Bytes[k], Follow(k, Bytes[k]))
       \/ Minus(m_validBytes, at) < Bytes[k] /\ MoveRead(at, 0)
    /\ strayed' = (at > m_validBytes)

\* readNext64bit tests before it aligns, too: the lower half may be missing.
ReadNext64 ==
    LET at == AlignUp(m_readPos, 4)
        enough == Minus(m_validBytes, m_readPos) >= 8
    IN /\ Call
       /\ \/ enough /\ Minus(m_validBytes, at) >= 8 /\ MoveRead(at + 8, Follow("64bit", 8))
          \/ enough /\ Minus(m_validBytes, at) < 8 /\ MoveRead(at + 4, 0)
          \/ ~enough /\ MoveRead(m_readPos, 0)
       /\ UNCHANGED strayed

\* readNextByteArray: what is left, if it is less.
ReadArray(n) ==
    /\ Call
    /\ MoveRead(m_readPos + Smaller(n, m_validBytes - m_readPos), Follow("array", n))
    /\ UNCHANGED strayed

\* readNextCharString stops at the zero it finds, or after n bytes.
ReadCharString(n) ==
    /\ Call
    /\ \E i \in 0..Smaller(n, Minus(m_validBytes, m_readPos)) : MoveRead(m_readPos + i, 0)
    /\ UNCHANGED strayed

\* getNextCharString moves behind the next zero, if there is one.
GetCharString ==
    /\ Call
    /\ \/ \E pos \in (m_readPos + 1)..m_validBytes : MoveRead(pos, 0)
       \/ MoveRead(m_readPos, next)
    /\ UNCHANGED strayed

\* getNextCharStringAlloc looks for the zero also behind the valid bytes.
GetCharStringAlloc(n) ==
    /\ Call
    /\ n > 0 /\ m_dataLength > 0
    /\ MoveRead(m_readPos + n, 0)
    /\ strayed' = (n > Minus(m_validBytes, m_readPos))
-----------------------------------------------------------------------------
\* jumpReadPosTo: to the next byte of a value, or to the end.
JumpReadPosTo ==
    /\ Call
    /\ \E pos \in m_readPos..m_validBytes : MoveRead(pos, 0)
    /\ UNCHANGED strayed

\* Mutant of Jump: a jump back is not limited.
Jump_Unlimited(pos, offset) == Smaller(pos + offset, m_validBytes)

\* jumpReadPos and jumpWritePos: neither below 0 nor beyond the valid bytes.
Jump(pos, offset) == IF offset = 0 THEN pos
                     ELSE IF offset < 0 THEN Larger(0, pos + offset)
                     ELSE Smaller(pos + offset, m_validBytes)

JumpReadPos(offset) == /\ Call
                       /\ MoveRead(Jump(m_readPos, offset),
                                   IF Jump(m_readPos, offset) = 0 THEN 1 ELSE 0)
                       /\ UNCHANGED strayed

SetReadPos(pos) == /\ Call
                   /\ MoveRead(Smaller(pos, m_validBytes),
                               IF Smaller(pos, m_validBytes) = 0 THEN 1 ELSE 0)
                   /\ UNCHANGED strayed

AlignReadPos(a) == /\ Call
                   /\ MoveRead(AlignUp(m_readPos, a), 0)
                   /\ strayed' = (AlignUp(m_readPos, a) > m_validBytes)

MoveWrite(pos) ==
    /\ Call
    /\ m_writePos' = pos
    /\ strayed' = (pos > m_dataLength)
    /\ tracked' = (tracked /\ pos = m_writePos)
    /\ UNCHANGED <<m_dataLength, m_readPos, m_validBytes, m_resize, written, next>>

JumpWritePos(offset) == MoveWrite(Jump(m_writePos, offset))
SetWritePos(pos) == MoveWrite(Smaller(pos, m_validBytes))
AlignWritePos(a) == MoveWrite(AlignUp(m_writePos, a))

Clear == /\ Call
         /\ m_writePos' = 0 /\ m_readPos' = 0 /\ m_validBytes' = 0
         /\ written' = <<>> /\ tracked' = TRUE /\ next' = 1
         /\ UNCHANGED <<m_dataLength, m_resize, strayed>>

ReleaseData ==
    /\ Call
    /\ m_dataLength' = 0 /\ m_readPos' = 0 /\ m_writePos' = 0 /\ m_validBytes' = 0
    /\ m_resize' = TRUE
    /\ written' = <<>> /\ tracked' = TRUE /\ next' = 1
    /\ UNCHANGED strayed

\* takeDataAndClear and takeDataAndDelete: the bytes of another buffer, with
\* both positions at their start.
TakeData(length, valid) ==
    /\ Call
    /\ valid <= length
    /\ m_dataLength' = length /\ m_validBytes' = valid
    /\ m_readPos' = 0 /\ m_writePos' = 0
    /\ written' = <<>> /\ tracked' = FALSE /\ next' = 0
    /\ UNCHANGED <<m_resize, strayed>>

Reserve(size) ==
    /\ Call
    /\ size + 3 >= m_dataLength
    /\ Grow(AlignUp(size - m_dataLength, 4))
    /\ UNCHANGED <<m_readPos, m_writePos, m_validBytes, m_resize, strayed, bufHistory>>
-----------------------------------------------------------------------------
BufNext ==
    \/ \E k \in Kinds \ {"array", "64bit"} : WriteNext(k) \/ ReadNext(k)
    \/ WriteNext64 \/ ReadNext64
    \/ \E n \in Lengths : \/ WriteArray(n) \/ WriteBuffer(n) \/ ReadArray(n)
                          \/ ReadCharString(n) \/ GetCharStringAlloc(n)
                          \/ SetReadPos(n) \/ SetWritePos(n) \/ Reserve(n)
    \/ \E size, n \in Lengths : Nprintf(size, n) \/ TakeData(size, n)
    \/ \E offset \in Offsets : JumpReadPos(offset) \/ JumpWritePos(offset)
    \/ \E a \in {2, 4} : AlignReadPos(a) \/ AlignWritePos(a)
    \/ GetCharString \/ JumpReadPosTo \/ Clear \/ ReleaseData

BufSpec == BufInit /\ [][BufNext]_bufVars
-----------------------------------------------------------------------------
(* Every variable stays in its type.                                        *)
BufTypeOK ==
    /\ m_dataLength \in Nat /\ m_readPos \in Nat /\ m_writePos \in Nat
    /\ m_validBytes \in Nat
    /\ m_resize \in BOOLEAN /\ strayed \in BOOLEAN /\ tracked \in BOOLEAN
    /\ written \in Seq([kind : Kinds, at : Nat, n : Nat])
    /\ next \in Nat /\ calls \in Nat

(* The positions stay inside the buffer, as checkIntegrity once asserted,   *)
(* whatever is called in whatever order. The exceptions, which "strayed"    *)
(* names: an alignment that steps over the end, whose test for room then    *)
(* wraps, and a string that is not terminated.                              *)
BufInBounds == ~strayed =>
    /\ m_readPos <= m_validBytes
    /\ m_writePos <= m_dataLength
    /\ m_validBytes <= m_dataLength

(* What was written is found again where it was written, by a reader that   *)
(* asks for the same sizes in the same order, wherever the buffer grew and  *)
(* whatever gaps the alignments left.                                       *)
ReadBack == (tracked /\ ~strayed /\ next \in 1..Len(written)) =>
    LET item == written[next] IN
    /\ AlignUp(m_readPos, Alignment[item.kind]) = item.at
    /\ item.at + item.n <= m_validBytes
=============================================================================
