---------------------------- MODULE BufferProofs ----------------------------
(* Proofs about the buffer for sizes and jumps of any length.               *)
EXTENDS Buffer, TLAPS

Aligned == {1, 2, 4}

(* Aligning moves a position forward, by less than the alignment.           *)
LEMMA AlignUpBounds ==
    ASSUME NEW pos \in Nat, NEW a \in Aligned
    PROVE  /\ AlignUp(pos, a) \in Nat
           /\ pos <= AlignUp(pos, a) /\ AlignUp(pos, a) < pos + a
<1>1. AlignUp(pos, 1) = pos
  BY DEF AlignUp
<1>2. /\ AlignUp(pos, 2) \in Nat
      /\ pos <= AlignUp(pos, 2) /\ AlignUp(pos, 2) < pos + 2
  BY DEF AlignUp
<1>3. /\ AlignUp(pos, 4) \in Nat
      /\ pos <= AlignUp(pos, 4) /\ AlignUp(pos, 4) < pos + 4
  BY DEF AlignUp
<1> QED
  BY <1>1, <1>2, <1>3 DEF Aligned

(* A buffer never shrinks when it is enlarged, and gets what was asked for. *)
LEMMA EnlargedBounds ==
    ASSUME m_dataLength \in Nat, NEW amount \in Int
    PROVE  /\ Enlarged(amount) \in Nat
           /\ Enlarged(amount) >= m_dataLength
           /\ Enlarged(amount) >= m_dataLength + amount
  BY DEF Enlarged, Larger

LEMMA GrowBounds ==
    ASSUME m_dataLength \in Nat, NEW amount \in Int, Grow(amount)
    PROVE  /\ m_dataLength' \in Nat
           /\ m_dataLength' >= m_dataLength
           /\ m_dataLength' >= m_dataLength + amount
<1>1. m_dataLength' = Enlarged(amount)
  BY DEF Grow
<1> QED
  BY <1>1, EnlargedBounds

(* Each kind of value is as long and as aligned as its table says.          *)
LEMMA KindBounds ==
    ASSUME NEW k \in Kinds
    PROVE  /\ Bytes[k] \in 1..8 /\ Alignment[k] \in Aligned
           /\ Growth[k] \in Nat /\ Growth[k] >= Bytes[k]
  BY DEF Kinds, Bytes, Alignment, Growth, Aligned

BufInv == BufTypeOK /\ BufInBounds

(* What is known of a buffer that is intact.                                *)
LEMMA Intact ==
    ASSUME BufInv, ~strayed
    PROVE  /\ strayed = FALSE
           /\ m_dataLength \in Nat /\ m_readPos \in Nat /\ m_writePos \in Nat
           /\ m_validBytes \in Nat /\ next \in Nat
           /\ m_readPos <= m_validBytes /\ m_validBytes <= m_dataLength
           /\ m_writePos <= m_dataLength
  BY DEF BufInv, BufTypeOK, BufInBounds
-----------------------------------------------------------------------------
(* Bytes that are copied to where there is room for them.                   *)
LEMMA StoredStep ==
    ASSUME BufInv, ~strayed, calls' \in Nat,
           NEW kind \in Kinds, NEW at \in Nat, NEW n \in Nat,
           Stored(kind, at, n), m_dataLength' \in Nat,
           m_dataLength' >= m_dataLength,
           strayed' \in BOOLEAN, strayed' \/ at + n <= m_dataLength'
    PROVE  BufInv'
<1>1. /\ m_dataLength \in Nat /\ m_readPos \in Nat /\ m_validBytes \in Nat
      /\ m_readPos <= m_validBytes /\ m_validBytes <= m_dataLength
  BY DEF BufInv, BufTypeOK, BufInBounds
<1>2. /\ m_writePos' = at + n
      /\ m_validBytes' \in {m_validBytes, at + n} /\ m_validBytes' >= m_validBytes
      /\ m_readPos' = m_readPos
  BY <1>1 DEF Stored, Larger
<1>3. BufInBounds'
  BY <1>1, <1>2 DEF BufInBounds
<1>4. written' \in Seq([kind : Kinds, at : Nat, n : Nat])
  <2>1. [kind |-> kind, at |-> at, n |-> n] \in [kind : Kinds, at : Nat, n : Nat]
    OBVIOUS
  <2>2. written \in Seq([kind : Kinds, at : Nat, n : Nat])
    BY DEF BufInv, BufTypeOK
  <2> DEFINE Item == [kind : Kinds, at : Nat, n : Nat]
             item == [kind |-> kind, at |-> at, n |-> n]
  <2>3. written' = Append(written, item) \/ written' = written
    BY DEF Stored
  <2> HIDE DEF Item, item
  <2>4. item \in Item /\ written \in Seq(Item)
    BY <2>1, <2>2 DEF Item, item
  <2>5. written' \in Seq(Item)
    BY <2>3, <2>4
  <2> QED
    BY <2>5 DEF Item
<1> QED
  BY <1>1, <1>2, <1>3, <1>4 DEF Stored, BufInv, BufTypeOK

(* A write that starts at or after the write position, asks for at least    *)
(* what it needs and needs at least what it uses, stays in the buffer.      *)
LEMMA PutStep ==
    ASSUME BufInv, ~strayed, calls' \in Nat,
           NEW kind \in Kinds, NEW at \in Nat, NEW need \in Nat, NEW n \in Nat,
           NEW growth \in Nat, n <= need, need <= growth,
           Put(kind, at, need, n, growth)
    PROVE  BufInv'
<1>1. m_dataLength \in Nat
  BY DEF BufInv, BufTypeOK
<1>2. /\ m_dataLength' \in Nat /\ m_dataLength' >= m_dataLength
      /\ at <= m_dataLength => at + need <= m_dataLength'
  <2>1. CASE Grow(growth)
    <3>1. growth \in Int
      OBVIOUS
    <3> QED
      BY <1>1, <2>1, <3>1, GrowBounds
  <2>2. CASE HasRoom(at, need) /\ m_dataLength' = m_dataLength
    BY <1>1, <2>2 DEF HasRoom, Minus
  <2> QED
    BY <2>1, <2>2 DEF Put
<1>3. Stored(kind, at, n) /\ strayed' \in BOOLEAN
  BY DEF Put
<1>4. strayed' <=> at > m_dataLength
  BY Zenon DEF Put
<1>5. strayed' \/ at + n <= m_dataLength'
  BY <1>1, <1>2, <1>4
<1> QED
  BY <1>2, <1>3, <1>5, StoredStep

(* A write that finds no room leaves at most an alignment behind, and the   *)
(* test did not wrap: else it would have found room.                        *)
LEMMA PutFailsStep ==
    ASSUME BufInv, ~strayed, calls' \in Nat,
           NEW at \in Nat, m_writePos <= at, at < m_writePos + 4,
           NEW n \in Nat, n + 4 <= WordSize,
           PutFails(at, n)
    PROVE  BufInv'
<1>1. at <= m_dataLength
  <2>1. ~(Minus(m_dataLength, at) >= n)
    BY DEF PutFails, HasRoom
  <2> QED
    BY <2>1, BufAssumption, Intact DEF Minus
<1> QED
  BY <1>1 DEF PutFails, BufInv, BufTypeOK, BufInBounds

(* A read that ends within the valid bytes, or owns up to having strayed.   *)
LEMMA MoveReadStep ==
    ASSUME BufInv, ~strayed, calls' \in Nat, strayed' \in BOOLEAN,
           NEW pos \in Nat, NEW follow \in Nat, MoveRead(pos, follow),
           strayed' \/ pos <= m_validBytes
    PROVE  BufInv'
  BY DEF MoveRead, BufInv, BufTypeOK, BufInBounds

(* What follows an item is the number of an item.                           *)
LEMMA FollowType ==
    ASSUME BufInv, NEW kind, NEW n
    PROVE  Follow(kind, n) \in Nat
<1>1. next \in Nat
  BY DEF BufInv, BufTypeOK
<1>2. next + 1 \in Nat
  BY <1>1
<1> QED
  BY <1>2 DEF Follow
-----------------------------------------------------------------------------
(* The writes. *)
LEMMA WriteSteps ==
    ASSUME BufInv
    PROVE  /\ \A k \in Kinds : WriteNext(k) => BufInv'
           /\ \A n \in Lengths : WriteArray(n) \/ WriteBuffer(n) => BufInv'
           /\ \A size, n \in Lengths : Nprintf(size, n) => BufInv'
<1>0. /\ m_writePos \in Nat
      /\ Call => ~strayed /\ calls' \in Nat
  BY DEF BufInv, BufTypeOK, Call
<1>1. ASSUME NEW k \in Kinds, WriteNext(k)
      PROVE  BufInv'
  <2> DEFINE at == AlignUp(m_writePos, Alignment[k])
  <2>1. Alignment[k] \in Aligned /\ Bytes[k] \in 1..8 /\ Growth[k] \in Nat
        /\ Growth[k] >= Bytes[k]
    BY KindBounds
  <2>2. at \in Nat /\ m_writePos <= at /\ at < m_writePos + 4
    <3>1. Alignment[k] \in 1..4
      BY <2>1 DEF Aligned
    <3>2. at \in Nat /\ m_writePos <= at /\ at < m_writePos + Alignment[k]
      BY <1>0, <2>1, AlignUpBounds
    <3> HIDE DEF at
    <3> QED
      BY <1>0, <3>1, <3>2
  <2>3. Bytes[k] \in Nat /\ Bytes[k] + 4 <= WordSize
    BY <2>1, BufAssumption
  <2>4. Call /\ (Put(k, at, Bytes[k], Bytes[k], Growth[k]) \/ PutFails(at, Bytes[k]))
    BY <1>1 DEF WriteNext
  <2> HIDE DEF at
  <2> QED
    BY <1>0, <2>1, <2>2, <2>3, <2>4, PutStep, PutFailsStep
<1>2. ASSUME NEW size \in Lengths, NEW n \in Nat, n <= size,
             NEW growth \in Nat, growth >= size, Call,
             \/ Put("array", m_writePos, size, n, growth)
             \/ PutFails(m_writePos, size)
      PROVE  BufInv'
  <2>1. size \in Nat /\ size + 4 <= WordSize /\ "array" \in Kinds
    BY BufAssumption DEF Kinds
  <2>2. m_writePos < m_writePos + 4
    BY <1>0
  <2> QED
    BY <1>0, <1>2, <2>1, <2>2, PutStep, PutFailsStep
<1>3. ASSUME NEW n \in Lengths, WriteArray(n) \/ WriteBuffer(n)
      PROVE  BufInv'
  <2>1. n \in Nat /\ AlignUp(n, 4) \in Nat /\ AlignUp(n, 4) >= n
    BY BufAssumption, AlignUpBounds DEF Aligned
  <2>2. AlignUp(n, 4) + 4 \in Nat /\ AlignUp(n, 4) + 4 >= n /\ n <= n
    BY <2>1
  <2> QED
    BY <1>2, <1>3, <2>1, <2>2 DEF WriteArray, WriteBuffer
<1>4. ASSUME NEW size \in Lengths, NEW n \in Lengths, Nprintf(size, n)
      PROVE  BufInv'
  <2>1. size \in Nat /\ n \in Nat /\ n <= size /\ size >= size
    BY <1>4, BufAssumption DEF Nprintf
  <2> QED
    BY <1>2, <1>4, <2>1 DEF Nprintf
<1> QED
  BY <1>1, <1>3, <1>4

(* 64 bits in two halves: the first test leaves room for one of them.       *)
LEMMA Write64Step ==
    ASSUME BufInv, WriteNext64
    PROVE  BufInv'
<1> DEFINE at == AlignUp(m_writePos, 4)
<1>1. /\ ~strayed /\ strayed = FALSE /\ calls' \in Nat
      /\ m_readPos \in Nat /\ m_writePos \in Nat
      /\ m_validBytes \in Nat /\ m_dataLength \in Nat
      /\ m_readPos <= m_validBytes /\ m_validBytes <= m_dataLength
      /\ m_writePos <= m_dataLength
  <2>1. ~strayed /\ calls' \in Nat
    BY DEF BufInv, BufTypeOK, Call, WriteNext64
  <2> QED
    BY <2>1, Intact
<1>2. at \in Nat /\ m_writePos <= at /\ at < m_writePos + 4
  BY <1>1, AlignUpBounds DEF Aligned
<1>3. \/ RoomFor64(at) /\ Stored("64bit", at, 8) /\ UNCHANGED strayed
      \/ WriteHalf(at)
      \/ PutFails(m_writePos, 8)
  BY DEF WriteNext64
<1> HIDE DEF at
<1>4. CASE RoomFor64(at) /\ Stored("64bit", at, 8) /\ UNCHANGED strayed
  <2>1. /\ m_dataLength' \in Nat /\ m_dataLength' >= m_dataLength
        /\ at + 8 <= m_dataLength'
    <3>1. CASE HasRoom(m_writePos, 8) /\ HasRoom(at, 8) /\ UNCHANGED m_dataLength
      <4>1. m_dataLength >= m_writePos + 8
        BY <1>1, <3>1 DEF HasRoom, Minus
      <4> QED
        BY <1>1, <1>2, <3>1, <4>1 DEF HasRoom, Minus
    <3>2. CASE Grow(16)
      <4>1. 16 \in Int
        OBVIOUS
      <4>2. /\ m_dataLength' \in Nat /\ m_dataLength' >= m_dataLength
            /\ m_dataLength' >= m_dataLength + 16
        BY <1>1, <3>2, <4>1, GrowBounds
      <4> QED
        BY <1>1, <1>2, <4>2
    <3>3. CASE HasRoom(m_writePos, 8) /\ Grow(8)
      <4>1. m_dataLength >= m_writePos + 8
        BY <1>1, <3>3 DEF HasRoom, Minus
      <4>2. /\ m_dataLength' \in Nat /\ m_dataLength' >= m_dataLength
            /\ m_dataLength' >= m_dataLength + 8
        BY <1>1, <3>3, GrowBounds
      <4> QED
        BY <1>1, <1>2, <4>1, <4>2
    <3> QED
      BY <1>4, <3>1, <3>2, <3>3 DEF RoomFor64
  <2>2. strayed' \in BOOLEAN /\ "64bit" \in Kinds /\ 8 \in Nat
    BY <1>1, <1>4 DEF Kinds
  <2> QED
    BY <1>1, <1>2, <1>4, <2>1, <2>2, StoredStep
<1>5. CASE WriteHalf(at)
  <2>1. m_dataLength >= m_writePos + 8
    BY <1>1, <1>5 DEF WriteHalf, HasRoom, Minus
  <2>2. m_validBytes' \in {m_validBytes, at + 4} /\ m_validBytes' >= m_validBytes
    BY <1>1, <1>2, <1>5 DEF WriteHalf, Larger
  <2>3. BufInBounds'
    BY <1>1, <1>2, <1>5, <2>1, <2>2 DEF WriteHalf, BufInBounds
  <2>4. m_validBytes' \in Nat /\ m_writePos' \in Nat
    BY <1>1, <1>2, <1>5, <2>2 DEF WriteHalf
  <2>5. /\ UNCHANGED <<m_dataLength, m_readPos, m_resize, strayed, written, next>>
        /\ tracked' \in BOOLEAN
    BY <1>5 DEF WriteHalf
  <2>6. BufTypeOK'
    BY <1>1, <2>4, <2>5 DEF BufInv, BufTypeOK
  <2> QED
    BY <2>3, <2>6 DEF BufInv
<1>6. CASE PutFails(m_writePos, 8)
  <2>1. m_writePos < m_writePos + 4 /\ 8 + 4 <= WordSize
    BY <1>1, BufAssumption
  <2> QED
    BY <1>1, <1>6, <2>1, PutFailsStep
<1> QED
  BY <1>3, <1>4, <1>5, <1>6

(* The reads, and the moves of the read position. *)
LEMMA ReadSteps ==
    ASSUME BufInv, Call
    PROVE  /\ \A k \in Kinds : ReadNext(k) => BufInv'
           /\ \A n \in Lengths : ReadArray(n) \/ ReadCharString(n) => BufInv'
           /\ \A n \in Lengths : GetCharStringAlloc(n) \/ SetReadPos(n) => BufInv'
           /\ \A offset \in Offsets : JumpReadPos(offset) => BufInv'
           /\ \A a \in {2, 4} : AlignReadPos(a) => BufInv'
           /\ GetCharString \/ JumpReadPosTo \/ ReadNext64 => BufInv'
<1>0. /\ ~strayed /\ strayed = FALSE /\ calls' \in Nat
      /\ m_readPos \in Nat /\ m_validBytes \in Nat /\ m_readPos <= m_validBytes
      /\ next \in Nat
  <2>1. ~strayed /\ calls' \in Nat
    BY DEF BufInv, BufTypeOK, Call
  <2> QED
    BY <2>1, Intact
<1>1. ASSUME NEW k \in Kinds, ReadNext(k)
      PROVE  BufInv'
  <2> DEFINE at == AlignUp(m_readPos, Alignment[k])
  <2>1. at \in Nat /\ Bytes[k] \in Nat
    BY <1>0, KindBounds, AlignUpBounds
  <2>2. /\ \/ Minus(m_validBytes, at) >= Bytes[k] /\ MoveRead(at + Bytes[k], Follow(k, Bytes[k]))
           \/ MoveRead(at, 0)
        /\ (strayed' <=> at > m_validBytes)
    BY <1>1, Zenon DEF ReadNext
  <2>6. strayed' \in BOOLEAN
    BY <1>1 DEF ReadNext
  <2> HIDE DEF at
  <2>3. Minus(m_validBytes, at) >= Bytes[k] => strayed' \/ at + Bytes[k] <= m_validBytes
    BY <1>0, <2>1, <2>2 DEF Minus
  <2>4. strayed' \in BOOLEAN /\ (strayed' \/ at <= m_validBytes)
    BY <1>0, <2>1, <2>2, <2>6
  <2>5. Follow(k, Bytes[k]) \in Nat /\ at + Bytes[k] \in Nat
    BY <2>1, FollowType
  <2> QED
    BY <1>0, <2>1, <2>2, <2>3, <2>4, <2>5, MoveReadStep
<1>2. ASSUME NEW n \in Lengths, ReadArray(n)
      PROVE  BufInv'
  <2> DEFINE pos == m_readPos + Smaller(n, m_validBytes - m_readPos)
  <2>1. pos \in Nat /\ pos <= m_validBytes
    BY <1>0, BufAssumption DEF Smaller
  <2>2. MoveRead(pos, Follow("array", n)) /\ strayed' = strayed
    BY <1>2 DEF ReadArray
  <2> HIDE DEF pos
  <2> QED
    BY <1>0, <2>1, <2>2, FollowType, MoveReadStep
<1>3. ASSUME NEW n \in Lengths, ReadCharString(n)
      PROVE  BufInv'
  <2>1. PICK i \in 0..Smaller(n, Minus(m_validBytes, m_readPos)) :
            MoveRead(m_readPos + i, 0) /\ strayed' = strayed
    BY <1>3 DEF ReadCharString
  <2>2. m_readPos + i \in Nat /\ m_readPos + i <= m_validBytes
    BY <1>0, <2>1, BufAssumption DEF Smaller, Minus
  <2> QED
    BY <1>0, <2>1, <2>2, MoveReadStep
<1>4. ASSUME NEW n \in Lengths, GetCharStringAlloc(n)
      PROVE  BufInv'
  <2>1. n \in Nat /\ MoveRead(m_readPos + n, 0) /\ strayed' \in BOOLEAN
    BY <1>4, BufAssumption DEF GetCharStringAlloc
  <2>3. strayed' <=> n > Minus(m_validBytes, m_readPos)
    BY <1>4, Zenon DEF GetCharStringAlloc
  <2>2. /\ m_readPos + n \in Nat /\ strayed' \in BOOLEAN
        /\ strayed' \/ m_readPos + n <= m_validBytes
    BY <1>0, <2>1, <2>3 DEF Minus
  <2> QED
    BY <1>0, <2>1, <2>2, MoveReadStep
<1>5. ASSUME NEW n \in Lengths, SetReadPos(n)
      PROVE  BufInv'
  <2>1. Smaller(n, m_validBytes) \in Nat /\ Smaller(n, m_validBytes) <= m_validBytes
    BY <1>0, BufAssumption DEF Smaller
  <2>2. PICK follow \in Nat : MoveRead(Smaller(n, m_validBytes), follow) /\ strayed' = strayed
    BY <1>5 DEF SetReadPos
  <2> QED
    BY <1>0, <2>1, <2>2, MoveReadStep
<1>6. ASSUME NEW offset \in Offsets, JumpReadPos(offset)
      PROVE  BufInv'
  <2>1. Jump(m_readPos, offset) \in Nat /\ Jump(m_readPos, offset) <= m_validBytes
    BY <1>0, BufAssumption DEF Jump, Smaller, Larger
  <2>2. PICK follow \in Nat : MoveRead(Jump(m_readPos, offset), follow) /\ strayed' = strayed
    BY <1>6 DEF JumpReadPos
  <2> QED
    BY <1>0, <2>1, <2>2, MoveReadStep
<1>7. ASSUME NEW a \in {2, 4}, AlignReadPos(a)
      PROVE  BufInv'
  <2>1. AlignUp(m_readPos, a) \in Nat
    BY <1>0, AlignUpBounds DEF Aligned
  <2>2. MoveRead(AlignUp(m_readPos, a), 0) /\ strayed' \in BOOLEAN
    BY <1>7 DEF AlignReadPos
  <2>4. strayed' <=> AlignUp(m_readPos, a) > m_validBytes
    BY <1>7, Zenon DEF AlignReadPos
  <2>3. strayed' \/ AlignUp(m_readPos, a) <= m_validBytes
    BY <1>0, <2>1, <2>4
  <2> QED
    BY <1>0, <2>1, <2>2, <2>3, MoveReadStep
<1>8. ASSUME GetCharString \/ JumpReadPosTo
      PROVE  BufInv'
  <2>1. PICK pos \in m_readPos..m_validBytes, follow \in Nat :
            MoveRead(pos, follow) /\ strayed' = strayed
    BY <1>0, <1>8 DEF GetCharString, JumpReadPosTo
  <2>2. pos \in Nat /\ pos <= m_validBytes
    BY <1>0, <2>1
  <2> QED
    BY <1>0, <2>1, <2>2, MoveReadStep
<1>9. ASSUME ReadNext64
      PROVE  BufInv'
  <2> DEFINE at == AlignUp(m_readPos, 4)
  <2>1. at \in Nat /\ m_readPos <= at /\ at < m_readPos + 4
    BY <1>0, AlignUpBounds DEF Aligned
  <2>2. /\ \/ /\ Minus(m_validBytes, m_readPos) >= 8
              /\ \/ Minus(m_validBytes, at) >= 8 /\ MoveRead(at + 8, Follow("64bit", 8))
                 \/ MoveRead(at + 4, 0)
           \/ MoveRead(m_readPos, 0)
        /\ strayed' = strayed
    BY <1>9 DEF ReadNext64
  <2> HIDE DEF at
  <2>3. Minus(m_validBytes, m_readPos) >= 8 => at + 4 <= m_validBytes
    BY <1>0, <2>1 DEF Minus
  <2>4. Minus(m_validBytes, m_readPos) >= 8 /\ Minus(m_validBytes, at) >= 8
          => at + 8 <= m_validBytes
    BY <1>0, <2>1, <2>3 DEF Minus
  <2>5. Follow("64bit", 8) \in Nat /\ at + 8 \in Nat /\ at + 4 \in Nat
    BY <2>1, FollowType
  <2> QED
    BY <1>0, <2>1, <2>2, <2>3, <2>4, <2>5, MoveReadStep
<1> QED
  BY <1>1, <1>2, <1>3, <1>4, <1>5, <1>6, <1>7, <1>8, <1>9

(* The moves of the write position, and what changes the whole buffer. *)
LEMMA OtherSteps ==
    ASSUME BufInv, Call
    PROVE  /\ \A offset \in Offsets : JumpWritePos(offset) => BufInv'
           /\ \A n \in Lengths : SetWritePos(n) \/ Reserve(n) => BufInv'
           /\ \A a \in {2, 4} : AlignWritePos(a) => BufInv'
           /\ \A length, valid \in Lengths : TakeData(length, valid) => BufInv'
           /\ Clear \/ ReleaseData => BufInv'
<1>0. /\ ~strayed /\ strayed = FALSE /\ calls' \in Nat
      /\ m_readPos \in Nat /\ m_writePos \in Nat
      /\ m_validBytes \in Nat /\ m_dataLength \in Nat
      /\ m_readPos <= m_validBytes /\ m_validBytes <= m_dataLength
      /\ m_writePos <= m_dataLength
  <2>1. ~strayed /\ calls' \in Nat
    BY DEF BufInv, BufTypeOK, Call
  <2> QED
    BY <2>1, Intact
<1>1. ASSUME NEW pos \in Nat, MoveWrite(pos)
      PROVE  BufInv'
  <2>1. strayed' \in BOOLEAN /\ tracked' \in BOOLEAN
    BY <1>1 DEF MoveWrite
  <2>2. strayed' <=> pos > m_dataLength
    BY <1>1, Zenon DEF MoveWrite
  <2>3. BufInBounds'
    BY <1>0, <1>1, <2>2 DEF MoveWrite, BufInBounds
  <2>4. BufTypeOK'
    BY <1>0, <1>1, <2>1 DEF MoveWrite, BufInv, BufTypeOK
  <2> QED
    BY <2>3, <2>4 DEF BufInv
<1>2. ASSUME NEW offset \in Offsets, JumpWritePos(offset)
      PROVE  BufInv'
  <2>1. Jump(m_writePos, offset) \in Nat
    BY <1>0, BufAssumption DEF Jump, Smaller, Larger
  <2> QED
    BY <1>1, <1>2, <2>1 DEF JumpWritePos
<1>3. ASSUME NEW n \in Lengths, SetWritePos(n)
      PROVE  BufInv'
  <2>1. Smaller(n, m_validBytes) \in Nat
    BY <1>0, BufAssumption DEF Smaller
  <2> QED
    BY <1>1, <1>3, <2>1 DEF SetWritePos
<1>4. ASSUME NEW n \in Lengths, Reserve(n)
      PROVE  BufInv'
  <2>1. AlignUp(n - m_dataLength, 4) \in Int
    BY <1>0, BufAssumption DEF AlignUp
  <2>2. m_dataLength' \in Nat /\ m_dataLength' >= m_dataLength
    BY <1>0, <1>4, <2>1, GrowBounds DEF Reserve
  <2> QED
    BY <1>0, <1>4, <2>2 DEF Reserve, bufHistory, BufInv, BufTypeOK, BufInBounds
<1>5. ASSUME NEW a \in {2, 4}, AlignWritePos(a)
      PROVE  BufInv'
  BY <1>0, <1>1, <1>5, AlignUpBounds DEF AlignWritePos, Aligned
<1>6. ASSUME NEW length \in Lengths, NEW valid \in Lengths, TakeData(length, valid)
      PROVE  BufInv'
  <2>1. length \in Nat /\ valid \in Nat
    BY BufAssumption
  <2>2. <<>> \in Seq([kind : Kinds, at : Nat, n : Nat])
    OBVIOUS
  <2>3. BufTypeOK'
    BY <1>0, <1>6, <2>1, <2>2 DEF TakeData, BufInv, BufTypeOK
  <2>4. BufInBounds'
    BY <1>6, <2>1 DEF TakeData, BufInBounds
  <2> QED
    BY <2>3, <2>4 DEF BufInv
<1>7. ASSUME Clear \/ ReleaseData
      PROVE  BufInv'
  <2>1. <<>> \in Seq([kind : Kinds, at : Nat, n : Nat])
    OBVIOUS
  <2>4. /\ m_readPos' = 0 /\ m_writePos' = 0 /\ m_validBytes' = 0 /\ next' = 1
        /\ m_dataLength' \in Nat
    BY <1>0, <1>7 DEF Clear, ReleaseData
  <2>5. m_resize' \in BOOLEAN /\ strayed' \in BOOLEAN /\ tracked' \in BOOLEAN
    BY <1>0, <1>7 DEF Clear, ReleaseData, BufInv, BufTypeOK
  <2>6. written' \in Seq([kind : Kinds, at : Nat, n : Nat])
    BY <1>7, <2>1 DEF Clear, ReleaseData
  <2>2. BufTypeOK'
    BY <1>0, <2>4, <2>5, <2>6 DEF BufTypeOK
  <2>3. BufInBounds'
    BY <1>0, <1>7 DEF Clear, ReleaseData, BufInBounds
  <2> QED
    BY <2>2, <2>3 DEF BufInv
<1> QED
  BY <1>2, <1>3, <1>4, <1>5, <1>6, <1>7
-----------------------------------------------------------------------------
(* Every call keeps the invariant.                                          *)
LEMMA BufStep == BufInv /\ [BufNext]_bufVars => BufInv'
<1> SUFFICES ASSUME BufInv, [BufNext]_bufVars
             PROVE  BufInv'
  OBVIOUS
<1>1. CASE UNCHANGED bufVars
  BY <1>1 DEF bufVars, bufHistory, BufInv, BufTypeOK, BufInBounds
<1>2. CASE BufNext
  <2>1. Call
    BY <1>2 DEF BufNext, WriteNext, ReadNext, WriteArray, WriteBuffer, ReadArray,
       ReadCharString, GetCharStringAlloc, SetReadPos, SetWritePos, Reserve,
       Nprintf, TakeData, JumpReadPos, JumpWritePos, AlignReadPos, AlignWritePos,
       GetCharString, JumpReadPosTo, Clear, ReleaseData, MoveWrite,
       WriteNext64, ReadNext64
  <2>2. CASE \E k \in Kinds \ {"array", "64bit"} : WriteNext(k) \/ ReadNext(k)
    BY <2>1, <2>2, WriteSteps, ReadSteps
  <2>8. CASE WriteNext64 \/ ReadNext64
    BY <2>1, <2>8, Write64Step, ReadSteps
  <2>3. CASE \E n \in Lengths : \/ WriteArray(n) \/ WriteBuffer(n) \/ ReadArray(n)
                                \/ ReadCharString(n) \/ GetCharStringAlloc(n)
                                \/ SetReadPos(n) \/ SetWritePos(n) \/ Reserve(n)
    <3>1. PICK n \in Lengths : \/ WriteArray(n) \/ WriteBuffer(n) \/ ReadArray(n)
                               \/ ReadCharString(n) \/ GetCharStringAlloc(n)
                               \/ SetReadPos(n) \/ SetWritePos(n) \/ Reserve(n)
      BY <2>3
    <3>2. CASE WriteArray(n) \/ WriteBuffer(n)
      BY <3>2, WriteSteps
    <3>3. CASE \/ ReadArray(n) \/ ReadCharString(n) \/ GetCharStringAlloc(n)
               \/ SetReadPos(n)
      BY <2>1, <3>3, ReadSteps
    <3>4. CASE SetWritePos(n) \/ Reserve(n)
      BY <2>1, <3>4, OtherSteps
    <3> QED
      BY <3>1, <3>2, <3>3, <3>4
  <2>4. CASE \E size, n \in Lengths : Nprintf(size, n) \/ TakeData(size, n)
    BY <2>1, <2>4, WriteSteps, OtherSteps
  <2>5. CASE \E offset \in Offsets : JumpReadPos(offset) \/ JumpWritePos(offset)
    BY <2>1, <2>5, ReadSteps, OtherSteps
  <2>6. CASE \E a \in {2, 4} : AlignReadPos(a) \/ AlignWritePos(a)
    BY <2>1, <2>6, ReadSteps, OtherSteps
  <2>7. CASE GetCharString \/ JumpReadPosTo \/ Clear \/ ReleaseData
    BY <2>1, <2>7, ReadSteps, OtherSteps
  <2> QED
    BY <1>2, <2>2, <2>3, <2>4, <2>5, <2>6, <2>7, <2>8 DEF BufNext
<1> QED
  BY <1>1, <1>2

(* The invariant of the buffer.                                             *)
THEOREM BufInvariant == BufSpec => []BufInv
<1>1. BufInit => BufInv
  <2> SUFFICES ASSUME BufInit PROVE BufInv
    OBVIOUS
  <2>1. m_dataLength \in Nat /\ m_validBytes \in Nat /\ m_validBytes <= m_dataLength
    <3>1. \A n \in Lengths : n \in Nat /\ AlignUp(n, 4) \in Nat
      BY BufAssumption, AlignUpBounds DEF Aligned
    <3>2. CASE m_dataLength \in {AlignUp(n, 4) : n \in Lengths} /\ m_validBytes = 0
      <4>1. m_dataLength \in Nat
        BY <3>1, <3>2
      <4> QED
        BY <3>2, <4>1
    <3>3. CASE /\ m_dataLength \in Lengths
               /\ m_validBytes \in {n \in Lengths : n <= m_dataLength}
      BY <3>1, <3>3
    <3> QED
      BY <3>2, <3>3 DEF BufInit
  <2>2. <<>> \in Seq([kind : Kinds, at : Nat, n : Nat])
    OBVIOUS
  <2>3. m_resize \in BOOLEAN /\ tracked \in BOOLEAN /\ strayed \in BOOLEAN
    BY DEF BufInit
  <2>4. /\ m_writePos = m_validBytes /\ m_readPos = 0 /\ next = 1 /\ calls = 0
        /\ written = <<>>
    BY DEF BufInit
  <2>5. BufInBounds
    BY <2>1, <2>4 DEF BufInBounds
  <2> QED
    BY <2>1, <2>2, <2>3, <2>4, <2>5 DEF BufInv, BufTypeOK
<1> QED
  BY <1>1, BufStep, PTL DEF BufSpec

(* Every variable of the buffer keeps its type.                             *)
THEOREM BufTypeCorrect == BufSpec => []BufTypeOK
  BY BufInvariant, PTL DEF BufInv

(* Both positions stay in the buffer until an alignment has stepped over    *)
(* its end or a string was not terminated.                                  *)
THEOREM PositionsInBounds == BufSpec => []BufInBounds
  BY BufInvariant, PTL DEF BufInv
-----------------------------------------------------------------------------
\* Where the first i items of what was written end.
EndOf(i) == IF i = 0 THEN 0 ELSE written[i].at + written[i].n

(* What was written is laid out from the start of the buffer to the write   *)
(* position, each item at the first place behind the one before it that is  *)
(* aligned for it, and the reader is at the end of the last item it read.   *)
ItemsLaid ==
    /\ \A i \in 1..Len(written) :
          /\ written[i].at = AlignUp(EndOf(i - 1), Alignment[written[i].kind])
          /\ EndOf(i) <= m_validBytes
    /\ m_writePos = EndOf(Len(written))
ReaderPlaced == /\ next \in 0..(Len(written) + 1)
                /\ next > 0 => m_readPos = EndOf(next - 1)

Laid == tracked /\ ~strayed => ItemsLaid /\ ReaderPlaced

(* The items are what their type says, and end at a position.               *)
LEMMA WrittenType ==
    ASSUME BufInv
    PROVE  /\ Len(written) \in Nat
           /\ \A i \in 1..Len(written) : /\ written[i].kind \in Kinds
                                         /\ written[i].at \in Nat /\ written[i].n \in Nat
           /\ \A i \in 0..Len(written) : EndOf(i) \in Nat
<1>1. written \in Seq([kind : Kinds, at : Nat, n : Nat])
  BY DEF BufInv, BufTypeOK
<1>2. \A item \in [kind : Kinds, at : Nat, n : Nat] :
         item.kind \in Kinds /\ item.at \in Nat /\ item.n \in Nat
  OBVIOUS
<1>3. \A i \in 1..Len(written) : written[i] \in [kind : Kinds, at : Nat, n : Nat]
  <2> DEFINE Item == [kind : Kinds, at : Nat, n : Nat]
  <2>1. written \in Seq(Item)
    BY <1>1
  <2> HIDE DEF Item
  <2>2. \A i \in 1..Len(written) : written[i] \in Item
    BY <2>1
  <2> QED BY <2>2 DEF Item
<1> QED BY <1>1, <1>2, <1>3 DEF EndOf

(* A call that leaves the history and the positions in it alone.            *)
LEMMA LaidStay ==
    ASSUME BufInv, Laid, ~strayed,
           tracked' => /\ tracked /\ UNCHANGED <<written, next, m_readPos, m_writePos>>
                       /\ m_validBytes' = m_validBytes
    PROVE  Laid'
  BY DEF Laid, ItemsLaid, ReaderPlaced, EndOf

(* What is stored behind the last item is the next item.                    *)
LEMMA LaidStored ==
    ASSUME BufInv, Laid, ~strayed, NEW kind \in Kinds, NEW n \in Nat,
           NEW at \in Nat, at = AlignUp(m_writePos, Alignment[kind]),
           Stored(kind, at, n)
    PROVE  Laid'
<1> SUFFICES ASSUME tracked'
             PROVE  ItemsLaid' /\ ReaderPlaced'
  BY DEF Laid
<1>0. PICK m \in Nat : m = Len(written)
  BY WrittenType
<1> DEFINE item == [kind |-> kind, at |-> at, n |-> n]
<1>1. /\ tracked /\ m_writePos' = at + n /\ m_readPos' = m_readPos /\ next' = next
      /\ m_validBytes' = Larger(m_validBytes, at + n)
      /\ written' = Append(written, item)
  BY DEF Stored
<1>2. ItemsLaid /\ ReaderPlaced
  BY <1>1 DEF Laid
<1>3. m_validBytes \in Nat /\ \A i \in 0..m : EndOf(i) \in Nat
  BY <1>0, WrittenType, Intact
<1>4. /\ Len(written') = m + 1 /\ \A i \in 1..m : written'[i] = written[i]
      /\ written'[m + 1] = item
  <2>1. written \in Seq([kind : Kinds, at : Nat, n : Nat])
    BY DEF BufInv, BufTypeOK
  <2>2. item \in [kind : Kinds, at : Nat, n : Nat]
    OBVIOUS
  <2> HIDE DEF item
  <2> QED BY <1>0, <1>1, <2>1, <2>2
<1>5. item.kind = kind /\ item.at = at /\ item.n = n
  OBVIOUS
<1> HIDE DEF item
<1>6. \A i \in 0..m : EndOf(i)' = EndOf(i)
  BY <1>3, <1>4 DEF EndOf
<1>7. EndOf(m + 1)' = at + n
  BY <1>3, <1>4, <1>5 DEF EndOf
<1>8. m_validBytes' >= m_validBytes /\ m_validBytes' >= at + n
  BY <1>1, <1>3 DEF Larger
<1>9. m_writePos = EndOf(m)
  BY <1>0, <1>2 DEF ItemsLaid
<1>10. ASSUME NEW i \in 1..Len(written')
       PROVE  /\ written'[i].at = AlignUp(EndOf(i - 1)', Alignment[written'[i].kind])
              /\ EndOf(i)' <= m_validBytes'
  <2>1. CASE i \in 1..m
    <3>1. i - 1 \in 0..m /\ i \in 0..m
      BY <1>3, <2>1
    <3>2. /\ written[i].at = AlignUp(EndOf(i - 1), Alignment[written[i].kind])
          /\ EndOf(i) <= m_validBytes
      BY <1>0, <1>2, <2>1 DEF ItemsLaid
    <3>3. EndOf(i)' <= m_validBytes'
      <4>1. EndOf(i)' = EndOf(i) /\ EndOf(i) \in Nat /\ m_validBytes' \in Nat
        BY <1>1, <1>3, <1>6, <3>1 DEF Larger
      <4> QED BY <1>3, <1>8, <3>2, <4>1
    <3> QED BY <1>4, <1>6, <2>1, <3>1, <3>2, <3>3
  <2>2. CASE i = m + 1
    <3>1. i - 1 = m /\ m \in 0..m
      BY <1>3, <2>2
    <3> QED BY <1>4, <1>5, <1>6, <1>7, <1>8, <1>9, <2>2, <3>1
  <2> QED BY <1>3, <1>4, <2>1, <2>2
<1>11. m_writePos' = EndOf(Len(written))'
  BY <1>1, <1>4, <1>5 DEF EndOf
<1>12. ReaderPlaced'
  <2>1. next \in 0..(m + 1) /\ (next > 0 => m_readPos = EndOf(next - 1))
    BY <1>0, <1>2 DEF ReaderPlaced
  <2>2. next > 0 => m_readPos' = EndOf(next - 1)'
    <3>1. next > 0 => next - 1 \in 0..m
      BY <1>3, <2>1
    <3> QED BY <1>1, <1>6, <2>1, <3>1
  <2>3. next' \in 0..(Len(written') + 1)
    BY <1>1, <1>3, <1>4, <2>1
  <2> QED BY <1>1, <2>2, <2>3 DEF ReaderPlaced, EndOf
<1> QED BY <1>10, <1>11, <1>12 DEF ItemsLaid, EndOf

(* A move of the reader to the end of an item, or away from the items.      *)
LEMMA LaidMove ==
    ASSUME BufInv, Laid, ~strayed, NEW pos \in Nat, NEW follow \in Nat,
           MoveRead(pos, follow),
           tracked => /\ follow \in 0..(Len(written) + 1)
                      /\ follow > 0 => pos = EndOf(follow - 1)
    PROVE  Laid'
<1>1. UNCHANGED <<written, tracked, m_writePos, m_validBytes>>
  BY DEF MoveRead
<1>2. m_readPos' = pos /\ next' = follow
  BY DEF MoveRead
<1>3. tracked /\ ItemsLaid => ItemsLaid'
  BY <1>1 DEF ItemsLaid, EndOf
<1>4. tracked => ReaderPlaced'
  BY <1>1, <1>2 DEF ReaderPlaced, EndOf
<1> QED BY <1>1, <1>3, <1>4 DEF Laid

(* The reader that asks for the item it is at finds it.                     *)
LEMMA Followed ==
    ASSUME BufInv, Laid, ~strayed, tracked, NEW kind \in Kinds, NEW n \in Nat
    PROVE  /\ Follow(kind, n) \in 0..(Len(written) + 1)
           /\ Follow(kind, n) > 0 =>
                 /\ AlignUp(m_readPos, Alignment[kind]) + n = EndOf(Follow(kind, n) - 1)
                 /\ AlignUp(m_readPos, Alignment[kind]) + n <= m_validBytes
<1>1. /\ Len(written) \in Nat /\ next \in Nat
      /\ ItemsLaid /\ ReaderPlaced
  BY WrittenType, Intact DEF Laid
<1>2. CASE next \in 1..Len(written) /\ written[next].kind = kind /\ written[next].n = n
  <2>1. Follow(kind, n) = next + 1 /\ next + 1 \in 0..(Len(written) + 1)
    BY <1>1, <1>2 DEF Follow
  <2>2. written[next].at = AlignUp(m_readPos, Alignment[kind])
    BY <1>1, <1>2 DEF ItemsLaid, ReaderPlaced
  <2>3. EndOf(next) = written[next].at + n /\ EndOf(next) <= m_validBytes
    BY <1>1, <1>2 DEF ItemsLaid, EndOf
  <2>4. Follow(kind, n) - 1 = next
    BY <1>1, <2>1
  <2>5. AlignUp(m_readPos, Alignment[kind]) + n = EndOf(next)
    BY <2>2, <2>3
  <2> QED BY <2>1, <2>3, <2>4, <2>5
<1>3. CASE ~(next \in 1..Len(written) /\ written[next].kind = kind /\ written[next].n = n)
  <2>1. Follow(kind, n) = 0
    BY <1>3 DEF Follow
  <2> QED BY <1>1, <2>1
<1> QED BY <1>2, <1>3

(* The writes put what they store where the reader will look for it.        *)
LEMMA WriteLaid ==
    ASSUME BufInv, Laid
    PROVE  /\ \A k \in Kinds : WriteNext(k) => Laid'
           /\ \A n \in Lengths : WriteArray(n) \/ WriteBuffer(n) => Laid'
           /\ \A size, n \in Lengths : Nprintf(size, n) => Laid'
           /\ WriteNext64 => Laid'
<1>0. m_writePos \in Nat /\ (Call => ~strayed)
  BY DEF BufInv, BufTypeOK, Call
<1>1. ASSUME NEW at \in Nat, NEW n \in Nat, PutFails(at, n), ~strayed
      PROVE  Laid'
  <2>1. tracked' => /\ tracked /\ UNCHANGED <<written, next, m_readPos, m_writePos>>
                    /\ m_validBytes' = m_validBytes
    BY <1>1 DEF PutFails
  <2> QED BY <1>1, <2>1, LaidStay
<1>2. ASSUME NEW kind \in Kinds, NEW need \in Nat, NEW n \in Nat, NEW growth \in Nat,
             NEW at \in Nat, at = AlignUp(m_writePos, Alignment[kind]), ~strayed,
             Put(kind, at, need, n, growth)
      PROVE  Laid'
  BY <1>2, LaidStored DEF Put
<1>3. ASSUME NEW k \in Kinds, WriteNext(k)
      PROVE  Laid'
  <2> DEFINE at == AlignUp(m_writePos, Alignment[k])
  <2>1. Bytes[k] \in Nat /\ Growth[k] \in Nat /\ at \in Nat
    BY <1>0, KindBounds, AlignUpBounds
  <2>2. ~strayed /\ (Put(k, at, Bytes[k], Bytes[k], Growth[k]) \/ PutFails(at, Bytes[k]))
    BY <1>0, <1>3 DEF WriteNext
  <2> QED BY <1>1, <1>2, <2>1, <2>2
<1>4. m_writePos = AlignUp(m_writePos, Alignment["array"]) /\ "array" \in Kinds
  BY <1>0 DEF AlignUp, Alignment, Kinds
<1>5. ASSUME NEW n \in Lengths, WriteArray(n) \/ WriteBuffer(n)
      PROVE  Laid'
  <2>1. n \in Nat /\ AlignUp(n, 4) \in Nat /\ AlignUp(n, 4) + 4 \in Nat
    <3>1. n \in Nat /\ AlignUp(n, 4) \in Nat
      BY BufAssumption, AlignUpBounds DEF Aligned
    <3> QED BY <3>1
  <2>2. /\ ~strayed
        /\ \/ \E growth \in Nat : Put("array", m_writePos, n, n, growth)
           \/ PutFails(m_writePos, n)
    BY <1>0, <1>5, <2>1 DEF WriteArray, WriteBuffer
  <2> QED BY <1>0, <1>1, <1>2, <1>4, <2>1, <2>2
<1>6. ASSUME NEW size \in Lengths, NEW n \in Lengths, Nprintf(size, n)
      PROVE  Laid'
  <2>1. size \in Nat /\ n \in Nat
    BY BufAssumption
  <2>2. /\ ~strayed
        /\ Put("array", m_writePos, size, n, size) \/ PutFails(m_writePos, size)
    BY <1>0, <1>6 DEF Nprintf
  <2> QED BY <1>0, <1>1, <1>2, <1>4, <2>1, <2>2
<1>7. ASSUME WriteNext64
      PROVE  Laid'
  <2> DEFINE at == AlignUp(m_writePos, 4)
  <2>1. at \in Nat /\ "64bit" \in Kinds /\ Alignment["64bit"] = 4
    BY <1>0, AlignUpBounds DEF Aligned, Kinds, Alignment
  <2>2. /\ ~strayed
        /\ Stored("64bit", at, 8) \/ WriteHalf(at) \/ PutFails(m_writePos, 8)
    BY <1>0, <1>7 DEF WriteNext64
  <2> HIDE DEF at
  <2>3. CASE Stored("64bit", at, 8)
    BY <2>1, <2>2, <2>3, LaidStored DEF at
  <2>4. CASE WriteHalf(at)
    BY <2>4 DEF WriteHalf, Laid
  <2> QED BY <1>0, <1>1, <2>2, <2>3, <2>4
<1> QED BY <1>3, <1>5, <1>6, <1>7

(* The reads leave the reader at the end of the item they have read, or     *)
(* nowhere.                                                                 *)
LEMMA ReadLaid ==
    ASSUME BufInv, Laid, Call
    PROVE  /\ \A k \in Kinds : ReadNext(k) => Laid'
           /\ ReadNext64 => Laid'
           /\ \A n \in Lengths : ReadArray(n) => Laid'
<1>0. /\ ~strayed /\ m_readPos \in Nat /\ m_validBytes \in Nat
      /\ m_readPos <= m_validBytes
  BY Intact DEF Call
<1>1. ASSUME NEW pos \in Nat, MoveRead(pos, 0)
      PROVE  Laid'
  BY <1>0, <1>1, WrittenType, LaidMove
<1>2. ASSUME NEW kind \in Kinds, NEW n \in Nat,
             MoveRead(AlignUp(m_readPos, Alignment[kind]) + n, Follow(kind, n))
      PROVE  Laid'
  <2> DEFINE pos == AlignUp(m_readPos, Alignment[kind]) + n
  <2>1. AlignUp(m_readPos, Alignment[kind]) \in Nat
    BY <1>0, KindBounds, AlignUpBounds
  <2>2. pos \in Nat
    BY <2>1
  <2>3. Follow(kind, n) \in Nat
    BY FollowType
  <2>4. tracked => /\ Follow(kind, n) \in 0..(Len(written) + 1)
                   /\ Follow(kind, n) > 0 => pos = EndOf(Follow(kind, n) - 1)
    BY <1>0, Followed
  <2> HIDE DEF pos
  <2>5. MoveRead(pos, Follow(kind, n))
    BY <1>2 DEF pos
  <2> QED BY <1>0, <2>2, <2>3, <2>4, <2>5, LaidMove
<1>3. ASSUME NEW k \in Kinds, ReadNext(k)
      PROVE  Laid'
  <2>1. AlignUp(m_readPos, Alignment[k]) \in Nat /\ Bytes[k] \in Nat
    BY <1>0, KindBounds, AlignUpBounds
  <2>2. \/ MoveRead(AlignUp(m_readPos, Alignment[k]) + Bytes[k], Follow(k, Bytes[k]))
        \/ MoveRead(AlignUp(m_readPos, Alignment[k]), 0)
    BY <1>3 DEF ReadNext
  <2> QED BY <1>1, <1>2, <2>1, <2>2
<1>4. ASSUME ReadNext64
      PROVE  Laid'
  <2>1. AlignUp(m_readPos, 4) \in Nat /\ "64bit" \in Kinds /\ Alignment["64bit"] = 4
    BY <1>0, AlignUpBounds DEF Aligned, Kinds, Alignment
  <2>2. \/ MoveRead(AlignUp(m_readPos, 4) + 8, Follow("64bit", 8))
        \/ MoveRead(AlignUp(m_readPos, 4) + 4, 0)
        \/ MoveRead(m_readPos, 0)
    BY <1>4 DEF ReadNext64
  <2>3. AlignUp(m_readPos, 4) + 4 \in Nat /\ 8 \in Nat
    BY <2>1
  <2> QED BY <1>0, <1>1, <1>2, <2>1, <2>2, <2>3
<1>5. ASSUME NEW n \in Lengths, ReadArray(n)
      PROVE  Laid'
  <2> DEFINE pos == m_readPos + Smaller(n, m_validBytes - m_readPos)
             follow == Follow("array", n)
  <2>1. n \in Nat /\ pos \in Nat
    BY <1>0, BufAssumption DEF Smaller
  <2>2. AlignUp(m_readPos, Alignment["array"]) = m_readPos /\ "array" \in Kinds
    BY <1>0 DEF AlignUp, Alignment, Kinds
  <2>3. follow \in Nat
    BY FollowType
  <2>4. tracked => /\ follow \in 0..(Len(written) + 1)
                   /\ follow > 0 => /\ m_readPos + n = EndOf(follow - 1)
                                    /\ m_readPos + n <= m_validBytes
    BY <1>0, <2>1, <2>2, Followed
  <2>5. m_readPos + n <= m_validBytes => pos = m_readPos + n
    BY <1>0, <2>1 DEF Smaller
  <2>6. MoveRead(pos, follow)
    BY <1>5 DEF ReadArray
  <2> HIDE DEF pos, follow
  <2>7. tracked => /\ follow \in 0..(Len(written) + 1)
                   /\ follow > 0 => pos = EndOf(follow - 1)
    BY <2>4, <2>5
  <2> QED BY <1>0, <2>1, <2>3, <2>6, <2>7, LaidMove
<1> QED BY <1>3, <1>4, <1>5

(* The other calls begin again at the start, leave the items, or leave them *)
(* alone.                                                                   *)
LEMMA OtherLaid ==
    ASSUME BufInv, Laid, Call,
           \/ \E n \in Lengths : \/ ReadCharString(n) \/ GetCharStringAlloc(n)
                                 \/ SetReadPos(n) \/ SetWritePos(n) \/ Reserve(n)
           \/ \E size, n \in Lengths : TakeData(size, n)
           \/ \E offset \in Offsets : JumpReadPos(offset) \/ JumpWritePos(offset)
           \/ \E a \in {2, 4} : AlignReadPos(a) \/ AlignWritePos(a)
           \/ GetCharString \/ JumpReadPosTo \/ Clear \/ ReleaseData
    PROVE  Laid'
<1>0. /\ ~strayed /\ m_readPos \in Nat /\ m_validBytes \in Nat
      /\ m_readPos <= m_validBytes /\ Len(written) \in Nat /\ next \in Nat
  BY Intact, WrittenType DEF Call
<1>1. ASSUME NEW pos \in Nat, MoveRead(pos, 0)
      PROVE  Laid'
  BY <1>0, <1>1, LaidMove
<1>2. ASSUME NEW pos \in Nat, MoveRead(pos, IF pos = 0 THEN 1 ELSE 0)
      PROVE  Laid'
  <2> DEFINE follow == IF pos = 0 THEN 1 ELSE 0
  <2>1. follow \in Nat /\ follow \in 0..(Len(written) + 1)
    BY <1>0
  <2>2. follow > 0 => pos = EndOf(follow - 1)
    BY DEF EndOf
  <2>3. MoveRead(pos, follow)
    BY <1>2
  <2> HIDE DEF follow
  <2> QED BY <1>0, <2>1, <2>2, <2>3, LaidMove
<1>3. CASE \E n \in Lengths : ReadCharString(n) \/ GetCharStringAlloc(n)
  <2>1. PICK n \in Lengths : ReadCharString(n) \/ GetCharStringAlloc(n)
    BY <1>3
  <2>2. n \in Nat
    BY BufAssumption
  <2>3. \E pos \in Nat : MoveRead(pos, 0)
    <3>1. CASE ReadCharString(n)
      <4>1. PICK i \in 0..Smaller(n, Minus(m_validBytes, m_readPos)) :
                    MoveRead(m_readPos + i, 0)
        BY <3>1 DEF ReadCharString
      <4>2. m_readPos + i \in Nat
        BY <1>0, <2>2 DEF Smaller, Minus
      <4> QED BY <4>1, <4>2
    <3>2. CASE GetCharStringAlloc(n)
      <4>1. m_readPos + n \in Nat
        BY <1>0, <2>2
      <4> QED BY <3>2, <4>1 DEF GetCharStringAlloc
    <3> QED BY <2>1, <3>1, <3>2
  <2> QED BY <1>1, <2>3
<1>4. CASE \E n \in Lengths : SetReadPos(n)
  <2>1. PICK n \in Lengths : SetReadPos(n)
    BY <1>4
  <2>2. Smaller(n, m_validBytes) \in Nat
    BY <1>0, BufAssumption DEF Smaller
  <2> QED BY <1>2, <2>1, <2>2 DEF SetReadPos
<1>5. CASE \E offset \in Offsets : JumpReadPos(offset)
  <2>1. PICK offset \in Offsets : JumpReadPos(offset)
    BY <1>5
  <2>2. Jump(m_readPos, offset) \in Nat
    BY <1>0, BufAssumption DEF Jump, Smaller, Larger
  <2> QED BY <1>2, <2>1, <2>2 DEF JumpReadPos
<1>6. CASE (\E a \in {2, 4} : AlignReadPos(a)) \/ JumpReadPosTo
  <2>1. \A a \in {2, 4} : AlignUp(m_readPos, a) \in Nat
    BY <1>0, AlignUpBounds DEF Aligned
  <2>2. \A pos \in m_readPos..m_validBytes : pos \in Nat
    BY <1>0
  <2> QED BY <1>1, <1>6, <2>1, <2>2 DEF AlignReadPos, JumpReadPosTo
<1>7. CASE GetCharString
  <2>1. CASE \E pos \in (m_readPos + 1)..m_validBytes : MoveRead(pos, 0)
    <3>1. \A pos \in (m_readPos + 1)..m_validBytes : pos \in Nat
      BY <1>0
    <3> QED BY <1>1, <2>1, <3>1
  <2>2. CASE MoveRead(m_readPos, next)
    BY <1>0, <2>2, LaidMove DEF Laid, ReaderPlaced
  <2> QED BY <1>7, <2>1, <2>2 DEF GetCharString
<1>8. ASSUME NEW pos, MoveWrite(pos)
      PROVE  Laid'
  BY <1>0, <1>8, LaidStay DEF MoveWrite
<1>9. CASE \/ \E n \in Lengths : SetWritePos(n)
           \/ \E offset \in Offsets : JumpWritePos(offset)
           \/ \E a \in {2, 4} : AlignWritePos(a)
  BY <1>8, <1>9 DEF SetWritePos, JumpWritePos, AlignWritePos
<1>10. CASE \E n \in Lengths : Reserve(n)
  BY <1>0, <1>10, LaidStay DEF Reserve, bufHistory
<1>11. CASE \E size, n \in Lengths : TakeData(size, n)
  BY <1>11 DEF TakeData, Laid
<1>12. CASE Clear \/ ReleaseData
  <2>1. /\ written' = <<>> /\ next' = 1 /\ m_writePos' = 0 /\ m_readPos' = 0
    BY <1>12 DEF Clear, ReleaseData
  <2>2. ItemsLaid' /\ ReaderPlaced'
    BY <2>1 DEF ItemsLaid, ReaderPlaced, EndOf
  <2> QED BY <2>2 DEF Laid
<1> QED
  BY <1>3, <1>4, <1>5, <1>6, <1>7, <1>9, <1>10, <1>11, <1>12

(* Every call keeps the items where they were put.                          *)
LEMMA LaidStep == BufInv /\ Laid /\ [BufNext]_bufVars => Laid'
<1> SUFFICES ASSUME BufInv, Laid, [BufNext]_bufVars
             PROVE  Laid'
  OBVIOUS
<1>1. CASE UNCHANGED bufVars
  BY <1>1 DEF bufVars, bufHistory, Laid, ItemsLaid, ReaderPlaced, EndOf
<1>2. CASE \/ \E k \in Kinds : WriteNext(k)
           \/ \E n \in Lengths : WriteArray(n) \/ WriteBuffer(n)
           \/ \E size, n \in Lengths : Nprintf(size, n)
           \/ WriteNext64
  BY <1>2, WriteLaid
<1>3. CASE \/ \E k \in Kinds : ReadNext(k)
           \/ \E n \in Lengths : ReadArray(n)
           \/ ReadNext64
  <2>1. Call
    BY <1>3 DEF ReadNext, ReadArray, ReadNext64
  <2> QED BY <1>3, <2>1, ReadLaid
<1>4. CASE
           \/ \E n \in Lengths : \/ ReadCharString(n) \/ GetCharStringAlloc(n)
                                 \/ SetReadPos(n) \/ SetWritePos(n) \/ Reserve(n)
           \/ \E size, n \in Lengths : TakeData(size, n)
           \/ \E offset \in Offsets : JumpReadPos(offset) \/ JumpWritePos(offset)
           \/ \E a \in {2, 4} : AlignReadPos(a) \/ AlignWritePos(a)
           \/ GetCharString \/ JumpReadPosTo \/ Clear \/ ReleaseData
  <2>1. Call
    BY <1>4 DEF ReadCharString, GetCharStringAlloc, SetReadPos, SetWritePos,
       Reserve, TakeData, JumpReadPos, JumpWritePos, AlignReadPos, AlignWritePos,
       GetCharString, JumpReadPosTo, Clear, ReleaseData, MoveWrite
  <2> QED BY <1>4, <2>1, OtherLaid
<1> QED BY <1>1, <1>2, <1>3, <1>4 DEF BufNext

(* However long the items are and however the buffer grew, a reader that    *)
(* asks for them in the order they were written finds each where it is.     *)
THEOREM WrittenIsRead == BufSpec => []ReadBack
<1>1. BufInit => Laid
  <2> SUFFICES ASSUME BufInit, tracked
               PROVE  ItemsLaid /\ ReaderPlaced
    BY DEF Laid
  <2>1. /\ written = <<>> /\ next = 1 /\ m_readPos = 0
        /\ m_writePos = m_validBytes /\ m_validBytes = 0
    BY DEF BufInit
  <2> QED BY <2>1 DEF ItemsLaid, ReaderPlaced, EndOf
<1>2. BufInv /\ Laid => ReadBack
  <2> SUFFICES ASSUME BufInv, Laid, tracked, ~strayed, next \in 1..Len(written)
               PROVE  /\ AlignUp(m_readPos, Alignment[written[next].kind]) = written[next].at
                      /\ written[next].at + written[next].n <= m_validBytes
    BY DEF ReadBack
  <2>1. Len(written) \in Nat /\ next > 0
    BY WrittenType
  <2>2. m_readPos = EndOf(next - 1)
    BY <2>1 DEF Laid, ReaderPlaced
  <2>3. /\ written[next].at = AlignUp(EndOf(next - 1), Alignment[written[next].kind])
        /\ EndOf(next) <= m_validBytes
    BY DEF Laid, ItemsLaid
  <2> QED BY <2>1, <2>2, <2>3 DEF EndOf
<1> QED BY <1>1, <1>2, BufInvariant, LaidStep, PTL DEF BufSpec
=============================================================================
