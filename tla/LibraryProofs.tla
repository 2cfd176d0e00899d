--------------------------- MODULE LibraryProofs ----------------------------
(***************************************************************************)
(* Proofs about the thread library and the parameter block: for any number *)
(* of threads, any time of day and limit, and blocks of any size.          *)
(***************************************************************************)
EXTENDS JTCThreads, JTCTimeouts, NParamBlock, FiniteSetTheorems,
        SequenceTheorems, TLAPS

-----------------------------------------------------------------------------
(* The deadline of a timed join is the time of day and the limit, for every *)
(* time of day and every limit: the carry into the seconds is not lost.     *)
THEOREM DeadlinesExact == TimInit => DeadlineExact
<1> SUFFICES ASSUME TimInit
             PROVE  DeadlineExact
  OBVIOUS
<1>1. /\ joinCall.usec \in Microseconds /\ joinCall.millis \in Millis
      /\ joinCall.nanos \in Nanos
  BY DEF TimInit
<1>2. /\ joinCall.usec \in Nat /\ joinCall.usec < 1000000
      /\ joinCall.millis \in Nat /\ joinCall.nanos \in Nat
  <2>1. joinCall.usec \in Nat /\ joinCall.usec < 1000000
    <3>1. \A u \in Microseconds : u \in Nat /\ u < 1000000
      BY TimAssumption, SMT
    <3> QED BY <1>1, <3>1, SMT
  <2>2. joinCall.millis \in Nat
    <3>1. Millis \subseteq Nat
      BY TimAssumption, SMT
    <3> QED BY <1>1, <3>1
  <2>3. joinCall.nanos \in Nat
    BY <1>1, TimAssumption, SMT
  <2> QED BY <2>1, <2>2, <2>3, SMT
<1> DEFINE usec == joinCall.usec
           limit == JoinMillis(joinCall.millis, joinCall.nanos)
           end == CalcTimeout([sec |-> 7, usec |-> usec], limit)
           sum == usec * 1000 + (limit % 1000) * 1000000
           s == 7 + limit \div 1000
<1>t. /\ limit = joinCall.millis \/ limit = joinCall.millis + 1
      /\ limit = 0 => joinCall.millis = 0 /\ joinCall.nanos = 0
  BY <1>2, SMT DEF JoinMillis
<1>3. end = IF sum > oneBillion THEN [sec |-> s + 1, nsec |-> sum - oneBillion]
            ELSE [sec |-> s, nsec |-> sum]
  BY SMT DEF CalcTimeout
<1> HIDE DEF limit, usec
<1>4. /\ limit \in Nat /\ limit - joinCall.millis \in 0..1
  BY <1>2, <1>t, SMT
<1>5. PICK q \in Nat, r \in Nat : /\ limit = q * 1000 + r /\ r < 1000
                                 /\ q = limit \div 1000 /\ r = limit % 1000
  BY <1>4, SMT
<1>q. q \in Nat /\ r \in Nat /\ r < 1000
  BY <1>5, SMT
<1>6. /\ sum = usec * 1000 + r * 1000000 /\ s = 7 + q
      /\ sum \in Nat /\ sum <= 1998999000 /\ s \in Nat
  BY <1>2, <1>5, SMT DEF usec
<1> HIDE DEF end, sum, s
<1>7. CASE sum > oneBillion
  <2>1. end.sec = s + 1 /\ end.nsec = sum - oneBillion
    BY <1>3, <1>7, SMT
  <2>2. end.nsec \in 0..(oneBillion - 1)
    <3>1. end.nsec \in Nat /\ end.nsec < oneBillion /\ oneBillion \in Nat
      BY <1>6, <1>7, <2>1, SMT DEF oneBillion
    <3> QED BY <3>1, SMT
  <2>3. end.nsec - usec * 1000 = limit * 1000000 - (end.sec - 7) * oneBillion
    <3>1. end.sec - 7 = q + 1
      BY <1>q, <1>6, <2>1, SMT
    <3>2. end.nsec - usec * 1000 = r * 1000000 - oneBillion
      BY <1>2, <1>5, <1>6, <2>1, SMT DEF oneBillion, usec
    <3>3. limit * 1000000 = q * oneBillion + r * 1000000
      BY <1>5, SMT DEF oneBillion
    <3>4. limit * 1000000 - (q + 1) * oneBillion = r * 1000000 - oneBillion
      BY <1>5, <3>3, SMT DEF oneBillion
    <3> QED BY <3>1, <3>2, <3>4, SMT
  <2> QED BY <1>t, <1>4, <2>2, <2>3, SMT DEF DeadlineExact, end, limit, usec
<1>8. CASE ~(sum > oneBillion)
  <2>1. end.sec = s /\ end.nsec = sum
    BY <1>3, <1>8, SMT
  <2>2. sum # oneBillion => end.nsec \in 0..(oneBillion - 1)
    <3>1. /\ end.nsec \in Nat /\ oneBillion \in Nat
          /\ sum # oneBillion => end.nsec < oneBillion
      BY <1>6, <1>8, <2>1, SMT DEF oneBillion
    <3> QED BY <3>1, SMT
  <2>3. end.nsec - usec * 1000 = limit * 1000000 - (end.sec - 7) * oneBillion
    <3>1. end.sec - 7 = q
      BY <1>q, <1>6, <2>1, SMT
    <3>2. end.nsec - usec * 1000 = r * 1000000
      BY <1>2, <1>5, <1>6, <2>1, SMT DEF usec
    <3>3. limit * 1000000 - q * oneBillion = r * 1000000
      BY <1>5, SMT DEF oneBillion
    <3> QED BY <3>1, <3>2, <3>3, SMT
  <2> QED BY <1>t, <1>4, <2>2, <2>3, SMT DEF DeadlineExact, end, limit, usec,
         sum
<1> QED BY <1>7, <1>8, SMT
-----------------------------------------------------------------------------
Sorted(ps) == \A i, j \in 1..Len(ps) : i < j => ps[i].id <= ps[j].id

(* A set of numbers from 1 to n that has with each number those below it is *)
(* an interval, as long as it has elements.                                 *)
LEMMA Prefix ==
    ASSUME NEW n \in Nat, NEW S \in SUBSET (1..n),
           \A i \in S : \A j \in 1..i : j \in S
    PROVE  /\ Cardinality(S) \in 0..n
           /\ S = 1..Cardinality(S)
<1>1. /\ IsFiniteSet(1..n) /\ Cardinality(1..n) = n
  BY FS_Interval
<1>2. IsFiniteSet(S) /\ Cardinality(S) <= n
  <2> DEFINE D == 1..n
  <2>1. S \in SUBSET D /\ IsFiniteSet(D) /\ Cardinality(D) = n
    BY <1>1
  <2> HIDE DEF D
  <2>2. IsFiniteSet(S) /\ Cardinality(S) <= Cardinality(D)
    BY <2>1, FS_Subset
  <2> QED BY <2>1, <2>2
<1>3. Cardinality(S) \in Nat
  BY <1>2, FS_CardinalityType
<1>4. ASSUME NEW i \in S
      PROVE  i \in 1..Cardinality(S)
  <2>1. i \in Nat /\ i > 0
    OBVIOUS
  <2>2. 1..i \in SUBSET S
    OBVIOUS
  <2>3. Cardinality(1..i) = i
    <3>1. 1 \in Int /\ i \in Int /\ ~(1 > i)
      BY <2>1
    <3>2. Cardinality(1..i) = IF 1 > i THEN 0 ELSE i - 1 + 1
      BY <3>1, FS_Interval
    <3> QED BY <2>1, <3>2
  <2>4. Cardinality(1..i) <= Cardinality(S)
    BY <1>2, <2>2, FS_Subset
  <2> QED BY <1>3, <2>1, <2>3, <2>4
<1>5. S \in SUBSET (1..Cardinality(S))
  BY <1>4
<1>6. /\ IsFiniteSet(1..Cardinality(S))
      /\ Cardinality(1..Cardinality(S)) = Cardinality(S)
  BY <1>3, FS_Interval
<1>7. S = 1..Cardinality(S)
  BY <1>5, <1>6, FS_Subset
<1> QED BY <1>2, <1>3, <1>7

\* The places of the parameters with lower ids, and with ids no higher.
BelowSet(ps, id) == {i \in 1..Len(ps) : ps[i].id < id}
UpToSet(ps, id) == {i \in 1..Len(ps) : ps[i].id <= id}

(* In a block that is ordered, the equal parameters are those between the   *)
(* two bounds.                                                              *)
LEMMA Bounds ==
    ASSUME NEW ps \in Seq(Params), Sorted(ps), NEW id \in Nat
    PROVE  /\ Below(ps, id) \in 0..Len(ps) /\ UpTo(ps, id) \in 0..Len(ps)
           /\ \A i \in 1..Len(ps) : /\ i <= Below(ps, id) <=> ps[i].id < id
                                    /\ i <= UpTo(ps, id) <=> ps[i].id <= id
<1>1. Len(ps) \in Nat /\ \A i \in 1..Len(ps) : ps[i].id \in Nat
  <2>1. \A p \in Params : p.id \in Nat
    <3>1. Radix * Radix - 1 \in Int
      BY ParAssumption
    <3> DEFINE top == Radix * Radix - 1
    <3>2. ParamIds \subseteq 0..top /\ top \in Int
      BY <3>1, ParAssumption
    <3> HIDE DEF top
    <3>3. \A i \in ParamIds : i \in Nat
      BY <3>2
    <3> QED BY <3>3 DEF Params
  <2>2. \A i \in 1..Len(ps) : ps[i] \in Params
    OBVIOUS
  <2> QED BY <2>1, <2>2
<1>2. /\ BelowSet(ps, id) \in SUBSET (1..Len(ps))
      /\ \A i \in BelowSet(ps, id) : \A j \in 1..i : j \in BelowSet(ps, id)
  BY <1>1 DEF BelowSet, Sorted
<1>3. /\ UpToSet(ps, id) \in SUBSET (1..Len(ps))
      /\ \A i \in UpToSet(ps, id) : \A j \in 1..i : j \in UpToSet(ps, id)
  BY <1>1 DEF UpToSet, Sorted
<1>4. /\ Cardinality(BelowSet(ps, id)) \in 0..Len(ps)
      /\ BelowSet(ps, id) = 1..Cardinality(BelowSet(ps, id))
  BY <1>1, <1>2, Prefix
<1>5. /\ Cardinality(UpToSet(ps, id)) \in 0..Len(ps)
      /\ UpToSet(ps, id) = 1..Cardinality(UpToSet(ps, id))
  BY <1>1, <1>3, Prefix
<1>6. /\ Below(ps, id) = Cardinality(BelowSet(ps, id))
      /\ UpTo(ps, id) = Cardinality(UpToSet(ps, id))
  BY DEF Below, UpTo, BelowSet, UpToSet
<1>7. \A i \in 1..Len(ps) : i \in BelowSet(ps, id) <=> i <= Below(ps, id)
  BY <1>4, <1>6
<1>8. \A i \in 1..Len(ps) : i \in UpToSet(ps, id) <=> i <= UpTo(ps, id)
  BY <1>5, <1>6
<1> QED BY <1>4, <1>5, <1>6, <1>7, <1>8 DEF BelowSet, UpToSet

\* What is at each place of two sequences joined.
LEMMA Joined ==
    ASSUME NEW S, NEW s \in Seq(S), NEW t \in Seq(S)
    PROVE  /\ s \o t \in Seq(S) /\ Len(s \o t) = Len(s) + Len(t)
           /\ \A i \in 1..(Len(s) + Len(t)) :
                  (s \o t)[i] = IF i <= Len(s) THEN s[i] ELSE t[i - Len(s)]
  OBVIOUS

\* What putting an element into a sequence leaves at each place.
LEMMA Put ==
    ASSUME NEW S, NEW s \in Seq(S), NEW u \in 0..Len(s), NEW e \in S
    PROVE  LET t == InsertAt(s, u + 1, e)
           IN /\ t \in Seq(S) /\ Len(t) = Len(s) + 1
              /\ \A i \in 1..(Len(s) + 1) :
                     t[i] = IF i <= u THEN s[i] ELSE IF i = u + 1 THEN e ELSE s[i - 1]
<1> DEFINE a == SubSeq(s, 1, u)
           b == SubSeq(s, u + 1, Len(s))
<1>1. /\ u \in Nat /\ u <= Len(s) /\ Len(s) \in Nat
  OBVIOUS
<1>2. /\ a \in Seq(S) /\ Len(a) = u
      /\ \A i \in 1..u : a[i] = s[i]
  BY <1>1
<1>3. /\ b \in Seq(S) /\ Len(b) = Len(s) - u
      /\ \A i \in 1..(Len(s) - u) : b[i] = s[i + u]
  BY <1>1
<1>4. InsertAt(s, u + 1, e) = (a \o <<e>>) \o b
  <2>1. (u + 1) - 1 = u
    BY <1>1
  <2> QED BY <2>1 DEF InsertAt
<1> HIDE DEF a, b
<1>5. /\ a \o <<e>> \in Seq(S) /\ Len(a \o <<e>>) = u + 1
      /\ \A i \in 1..(u + 1) : (a \o <<e>>)[i] = IF i <= u THEN s[i] ELSE e
  BY <1>1, <1>2
<1> DEFINE c == a \o <<e>>
<1> HIDE DEF c
<1>6. /\ c \in Seq(S) /\ Len(c) = u + 1
      /\ \A i \in 1..(u + 1) : c[i] = IF i <= u THEN s[i] ELSE e
  BY <1>5 DEF c
<1>7. /\ c \o b \in Seq(S) /\ Len(c \o b) = Len(s) + 1
      /\ \A i \in 1..(Len(s) + 1) :
             (c \o b)[i] = IF i <= u + 1 THEN c[i] ELSE b[i - u - 1]
  BY <1>1, <1>3, <1>6
<1>8. \A i \in 1..(Len(s) + 1) : ~(i <= u + 1) => b[i - u - 1] = s[i - 1]
  BY <1>1, <1>3
<1>9. \A i \in 1..(Len(s) + 1) :
          (c \o b)[i] = IF i <= u THEN s[i] ELSE IF i = u + 1 THEN e ELSE s[i - 1]
  BY <1>1, <1>6, <1>7, <1>8
<1>10. InsertAt(s, u + 1, e) = c \o b
  BY <1>4 DEF c
<1> DEFINE t == InsertAt(s, u + 1, e)
<1>11. t = c \o b
  BY <1>10
<1> HIDE DEF t
<1>12. /\ t \in Seq(S) /\ Len(t) = Len(s) + 1
       /\ \A i \in 1..(Len(s) + 1) :
              t[i] = IF i <= u THEN s[i] ELSE IF i = u + 1 THEN e ELSE s[i - 1]
  BY <1>7, <1>9, <1>11
<1> QED BY <1>12 DEF t

\* What taking a range out of a sequence leaves at each place.
LEMMA TakenOut ==
    ASSUME NEW S, NEW s \in Seq(S), NEW l \in 0..Len(s), NEW u \in l..Len(s)
    PROVE  LET t == SubSeq(s, 1, l) \o SubSeq(s, u + 1, Len(s))
           IN /\ t \in Seq(S) /\ Len(t) = Len(s) - (u - l)
              /\ \A i \in 1..(Len(s) - (u - l)) :
                     t[i] = IF i <= l THEN s[i] ELSE s[i + (u - l)]
<1> DEFINE a == SubSeq(s, 1, l)
           b == SubSeq(s, u + 1, Len(s))
<1>1. /\ l \in Nat /\ u \in Nat /\ l <= u /\ u <= Len(s) /\ Len(s) \in Nat
  OBVIOUS
<1>2. /\ a \in Seq(S) /\ Len(a) = l
      /\ \A i \in 1..l : a[i] = s[i]
  BY <1>1
<1>3. /\ b \in Seq(S) /\ Len(b) = Len(s) - u
      /\ \A i \in 1..(Len(s) - u) : b[i] = s[i + u]
  BY <1>1
<1> HIDE DEF a, b
<1>4. /\ a \o b \in Seq(S) /\ Len(a \o b) = Len(s) - (u - l)
      /\ \A i \in 1..(Len(s) - (u - l)) :
             (a \o b)[i] = IF i <= l THEN a[i] ELSE b[i - l]
  <2>1. /\ a \o b \in Seq(S) /\ Len(a \o b) = Len(a) + Len(b)
        /\ \A i \in 1..(Len(a) + Len(b)) :
               (a \o b)[i] = IF i <= Len(a) THEN a[i] ELSE b[i - Len(a)]
    BY <1>2, <1>3, Joined
  <2>2. Len(a) + Len(b) = Len(s) - (u - l)
    <3> DEFINE N == Len(s)
    <3>1. l \in Nat /\ u \in Nat /\ N \in Nat
      BY <1>1
    <3> HIDE DEF N
    <3>2. l + (N - u) = N - (u - l)
      BY <3>1
    <3>3. Len(a) = l /\ Len(b) = N - u
      BY <1>2, <1>3 DEF N
    <3> QED BY <3>2, <3>3 DEF N
  <2> QED BY <1>2, <2>1, <2>2
<1>5. ASSUME NEW i \in 1..(Len(s) - (u - l)), ~(i <= l)
      PROVE  b[i - l] = s[i + (u - l)]
  <2> DEFINE N == Len(s)
  <2>1. l \in Nat /\ u \in Nat /\ l <= u /\ N \in Nat /\ i \in 1..(N - (u - l))
    BY <1>1
  <2> HIDE DEF N
  <2>2. i - l \in 1..(N - u)
    BY <1>5, <2>1
  <2>3. (i - l) + u = i + (u - l)
    BY <2>1
  <2> QED BY <1>3, <2>2, <2>3 DEF N
<1>6. \A i \in 1..(Len(s) - (u - l)) : i <= l => a[i] = s[i]
  BY <1>1, <1>2
<1> QED BY <1>4, <1>5, <1>6 DEF a, b

\* The ids of parameters are numbers.
LEMMA IdsNat == (\A id \in ParamIds : id \in Nat) /\ \A p \in Params : p.id \in Nat
<1>1. Radix * Radix - 1 \in Int
  BY ParAssumption
<1> DEFINE top == Radix * Radix - 1
<1>2. ParamIds \subseteq 0..top /\ top \in Int
  BY <1>1, ParAssumption
<1> HIDE DEF top
<1>3. \A i \in ParamIds : i \in Nat
  BY <1>2
<1> QED BY <1>3 DEF Params

\* An insertion behind the equal parameters leaves the block in order.
LEMMA AddOrdered ==
    ASSUME NEW ps \in Seq(Params), Sorted(ps), NEW p \in Params
    PROVE  Inserted(ps, p) \in Seq(Params) /\ Sorted(Inserted(ps, p))
<1> DEFINE u == UpTo(ps, p.id)
           t == Inserted(ps, p)
<1>1. /\ p.id \in Nat /\ Len(ps) \in Nat
      /\ \A i \in 1..Len(ps) : ps[i].id \in Nat
  <2>1. \A i \in 1..Len(ps) : ps[i] \in Params
    OBVIOUS
  <2> QED BY <2>1, IdsNat
<1>2. u \in 0..Len(ps) /\ \A i \in 1..Len(ps) : i <= u <=> ps[i].id <= p.id
  BY <1>1, Bounds
<1>3. t = InsertAt(ps, u + 1, p)
  BY DEF Inserted
<1> HIDE DEF u, t
<1>4. /\ t \in Seq(Params) /\ Len(t) = Len(ps) + 1
      /\ \A i \in 1..(Len(ps) + 1) :
             t[i] = IF i <= u THEN ps[i] ELSE IF i = u + 1 THEN p ELSE ps[i - 1]
  <2>1. /\ InsertAt(ps, u + 1, p) \in Seq(Params)
        /\ Len(InsertAt(ps, u + 1, p)) = Len(ps) + 1
        /\ \A i \in 1..(Len(ps) + 1) :
               InsertAt(ps, u + 1, p)[i] = IF i <= u THEN ps[i]
                                           ELSE IF i = u + 1 THEN p ELSE ps[i - 1]
    BY <1>2, Put
  <2> QED BY <1>3, <2>1
<1>5. ASSUME NEW i \in 1..(Len(ps) + 1), NEW j \in 1..(Len(ps) + 1), i < j
      PROVE  t[i].id <= t[j].id
  <2>1. u \in Nat /\ u <= Len(ps) /\ i \in Nat /\ j \in Nat
    BY <1>1, <1>2
  <2>2. CASE j <= u
    <3>1. t[i] = ps[i] /\ t[j] = ps[j]
      BY <1>1, <1>4, <1>5, <2>1, <2>2
    <3> QED BY <1>1, <1>5, <2>1, <2>2, <3>1 DEF Sorted
  <2>3. CASE j = u + 1
    <3>1. t[i] = ps[i] /\ t[j] = p /\ i <= u /\ i \in 1..Len(ps)
      BY <1>1, <1>4, <1>5, <2>1, <2>3
    <3> QED BY <1>1, <1>2, <3>1
  <2>4. CASE j > u + 1
    <3>1. t[j] = ps[j - 1] /\ j - 1 \in 1..Len(ps) /\ ~(j - 1 <= u)
      BY <1>1, <1>4, <2>1, <2>4
    <3>2. CASE i <= u
      <4>1. t[i] = ps[i] /\ i < j - 1 /\ i \in 1..Len(ps)
        BY <1>1, <1>4, <2>1, <2>4, <3>2
      <4> QED BY <3>1, <4>1 DEF Sorted
    <3>3. CASE i = u + 1
      <4>1. t[i] = p
        BY <1>4, <2>1, <3>3
      <4>2. ~(ps[j - 1].id <= p.id)
        BY <1>2, <3>1
      <4>3. ps[j - 1].id \in Nat
        BY <1>1, <3>1
      <4> QED BY <1>1, <3>1, <4>1, <4>2, <4>3
    <3>4. CASE i > u + 1
      <4>1. t[i] = ps[i - 1] /\ i - 1 < j - 1 /\ i - 1 \in 1..Len(ps)
        BY <1>1, <1>4, <1>5, <2>1, <3>4
      <4> QED BY <3>1, <4>1 DEF Sorted
    <3> QED BY <2>1, <3>2, <3>3, <3>4
  <2> QED BY <2>1, <2>2, <2>3, <2>4
<1>6. Sorted(t)
  BY <1>4, <1>5 DEF Sorted
<1> QED BY <1>4, <1>6 DEF t

\* A removal of all that is equal leaves the block in order.
LEMMA RemoveOrdered ==
    ASSUME NEW ps \in Seq(Params), Sorted(ps), NEW id \in ParamIds
    PROVE  LET t == SubSeq(ps, 1, Below(ps, id))
                      \o SubSeq(ps, UpTo(ps, id) + 1, Len(ps))
           IN t \in Seq(Params) /\ Sorted(t)
<1> DEFINE l == Below(ps, id)
           u == UpTo(ps, id)
           t == SubSeq(ps, 1, l) \o SubSeq(ps, u + 1, Len(ps))
<1>1. /\ id \in Nat /\ Len(ps) \in Nat
      /\ \A i \in 1..Len(ps) : ps[i].id \in Nat
  <2>1. \A i \in 1..Len(ps) : ps[i] \in Params
    OBVIOUS
  <2> QED BY <2>1, IdsNat
<1>2. /\ l \in 0..Len(ps) /\ u \in 0..Len(ps)
      /\ \A i \in 1..Len(ps) : (i <= l <=> ps[i].id < id) /\ (i <= u <=> ps[i].id <= id)
  BY <1>1, Bounds
<1> HIDE DEF l, u
<1>3. l <= u
  <2>1. CASE l = 0
    BY <1>2, <2>1
  <2>2. CASE l # 0
    <3>1. l \in 1..Len(ps)
      BY <1>1, <1>2, <2>2
    <3>2. l <= l /\ ps[l].id < id
      BY <1>2, <3>1
    <3>3. ps[l].id <= id
      BY <1>1, <3>1, <3>2
    <3> QED BY <1>2, <3>1, <3>3
  <2> QED BY <2>1, <2>2
<1>4. PICK k \in Nat : k = u - l
  BY <1>1, <1>2, <1>3
<1>5. /\ t \in Seq(Params) /\ Len(t) = Len(ps) - (u - l)
      /\ \A i \in 1..(Len(ps) - (u - l)) :
             t[i] = IF i <= l THEN ps[i] ELSE ps[i + (u - l)]
  <2>1. u \in l..Len(ps)
    BY <1>1, <1>2, <1>3
  <2>2. l \in 0..Len(ps)
    BY <1>2
  <2> QED BY <2>1, <2>2, TakenOut, Zenon
<1> HIDE DEF t
<1>6. ASSUME NEW i \in 1..(Len(ps) - k), NEW j \in 1..(Len(ps) - k), i < j
      PROVE  t[i].id <= t[j].id
  <2>1. PICK a \in 1..Len(ps) : t[i] = ps[a] /\ (a = i \/ a = i + k) /\ (a = i <=> i <= l \/ k = 0)
    <3>1. CASE i <= l
      <4>1. i \in 1..Len(ps)
        BY <1>1
      <4>2. t[i] = ps[i]
        BY <1>4, <1>5, <3>1
      <4> QED BY <3>1, <4>1, <4>2
    <3>2. CASE ~(i <= l)
      <4>1. i + k \in 1..Len(ps) /\ t[i] = ps[i + k]
        BY <1>1, <1>2, <1>4, <1>5, <3>2
      <4>2. i + k = i <=> k = 0
        OBVIOUS
      <4> QED BY <3>2, <4>1, <4>2
    <3> QED BY <3>1, <3>2
  <2>2. PICK b \in 1..Len(ps) : t[j] = ps[b] /\ (b = j \/ b = j + k) /\ (b = j <=> j <= l \/ k = 0)
    <3>1. CASE j <= l
      <4>1. j \in 1..Len(ps)
        BY <1>1
      <4>2. t[j] = ps[j]
        BY <1>4, <1>5, <3>1
      <4> QED BY <3>1, <4>1, <4>2
    <3>2. CASE ~(j <= l)
      <4>1. j + k \in 1..Len(ps) /\ t[j] = ps[j + k]
        BY <1>1, <1>2, <1>4, <1>5, <3>2
      <4>2. j + k = j <=> k = 0
        OBVIOUS
      <4> QED BY <3>2, <4>1, <4>2
    <3> QED BY <3>1, <3>2
  <2>3. a < b
    BY <1>1, <1>2, <1>4, <1>6, <2>1, <2>2
  <2> QED BY <2>1, <2>2, <2>3 DEF Sorted
<1>7. Sorted(t)
  BY <1>4, <1>5, <1>6 DEF Sorted
<1> QED BY <1>5, <1>7 DEF t, l, u

(* The parameter block is ordered by id whatever calls make it, however     *)
(* many parameters it takes: what getParam searches it by.                  *)
THEOREM BlockOrdered == ParSpec => []ParTypeOK
<1>1. ParInit => ParTypeOK
  BY DEF ParInit, ParTypeOK
<1>2. ParTypeOK /\ [ParNext]_m_params => ParTypeOK'
  <2> SUFFICES ASSUME ParTypeOK, [ParNext]_m_params
               PROVE  ParTypeOK'
    OBVIOUS
  <2>1. m_params \in Seq(Params) /\ Sorted(m_params)
    BY DEF ParTypeOK, Sorted
  <2>2. ASSUME m_params' \in Seq(Params), Sorted(m_params')
        PROVE  ParTypeOK'
    BY <2>2 DEF ParTypeOK, Sorted
  <2>3. ASSUME NEW p \in Params, AddParam(p)
        PROVE  ParTypeOK'
    BY <2>1, <2>2, <2>3, AddOrdered DEF AddParam
  <2>4. ASSUME NEW p \in Params, UpdateParam(p)
        PROVE  ParTypeOK'
    <3>1. CASE AddParam(p)
      BY <2>3, <3>1
    <3>2. ASSUME NEW i \in 1..Len(m_params), m_params[i].id = p.id,
                 m_params' = [m_params EXCEPT ![i].body = p.body]
          PROVE  ParTypeOK'
      <4>1. /\ \A x \in Params, y \in Params :
                   [x EXCEPT !.body = y.body] \in Params
                   /\ [x EXCEPT !.body = y.body].id = x.id
        BY DEF Params
      <4>2. m_params[i] \in Params
        BY <2>1
      <4>3. m_params' = [m_params EXCEPT ![i] = [m_params[i] EXCEPT !.body = p.body]]
        BY <3>2
      <4> DEFINE x == [m_params[i] EXCEPT !.body = p.body]
      <4>4. x \in Params /\ x.id = m_params[i].id
        BY <4>1, <4>2
      <4>5. m_params' = [m_params EXCEPT ![i] = x]
        BY <4>3
      <4> HIDE DEF x
      <4>6. m_params' \in Seq(Params) /\ Len(m_params') = Len(m_params)
        BY <2>1, <4>4, <4>5
      <4>7. \A j \in 1..Len(m_params) : m_params'[j].id = m_params[j].id
        BY <2>1, <4>4, <4>5
      <4>8. Sorted(m_params')
        BY <2>1, <4>6, <4>7 DEF Sorted
      <4> QED BY <2>2, <4>6, <4>8
    <3> QED BY <2>4, <3>1, <3>2 DEF UpdateParam
  <2>5. ASSUME NEW id \in ParamIds, RemoveParam(id)
        PROVE  ParTypeOK'
    BY <2>1, <2>2, <2>5, RemoveOrdered DEF RemoveParam
  <2>6. CASE UNCHANGED m_params
    BY <2>6 DEF ParTypeOK
  <2> QED BY <2>3, <2>4, <2>5, <2>6 DEF ParNext
<1> QED BY <1>1, <1>2, PTL DEF ParSpec

\* A number is its quotient and its remainder.
LEMMA DivMod ==
    ASSUME NEW n \in Nat, NEW r \in Nat, r > 0
    PROVE  /\ n \div r \in Nat /\ n % r \in Nat /\ n % r < r
           /\ n = (r * (n \div r)) + (n % r)
  OBVIOUS

\* What is a digit already stays as it is.
LEMMA SmallDiv ==
    ASSUME NEW r \in Nat, r > 0, NEW q \in Nat, q < r
    PROVE  q % r = q
  OBVIOUS

\* The higher digit of a number of two digits.
LEMMA Less ==
    ASSUME NEW n \in Nat, NEW r \in Nat, r > 0, n < r * r,
           NEW q \in Nat, NEW m \in Nat, n = r * q + m
    PROVE  q < r
<1> SUFFICES ASSUME q >= r
             PROVE  FALSE
  OBVIOUS
<1>1. r * q >= r * r
  OBVIOUS
<1> QED BY <1>1

(* A number that fits in 16 bits is written as two bytes, and what is read  *)
(* from them is the number: ids and lengths arrive as they were sent.       *)
THEOREM NumbersKept ==
    \A n \in 0..(Radix * Radix - 1) :
        /\ Short(n) \in Seq(0..(Radix - 1)) /\ Len(Short(n)) = 2
        /\ ShortAt(Short(n), 1) = n
<1>1. Radix \in Nat /\ Radix > 1
  BY ParAssumption
<1> SUFFICES ASSUME NEW n \in 0..(Radix * Radix - 1)
             PROVE  /\ Short(n) \in Seq(0..(Radix - 1)) /\ Len(Short(n)) = 2
                    /\ ShortAt(Short(n), 1) = n
  OBVIOUS
<1>2. n \in Nat /\ n < Radix * Radix
  BY <1>1
<1>3. PICK q \in Nat, m \in Nat : /\ q = n \div Radix /\ m = n % Radix /\ m < Radix
                                 /\ n = Radix * q + m
  BY <1>1, <1>2, DivMod
<1>4. q < Radix
  BY <1>1, <1>2, <1>3, Less
<1>5. q % Radix = q
  BY <1>1, <1>4, SmallDiv
<1>6. Short(n) = <<q, m>>
  BY <1>3, <1>5 DEF Short
<1>7. q \in 0..(Radix - 1) /\ m \in 0..(Radix - 1)
  BY <1>1, <1>3, <1>4
<1>8. q * Radix + m = n
  BY <1>1, <1>3
<1> QED BY <1>6, <1>7, <1>8 DEF ShortAt

(* Induction on the numbers up to n, over a set of numbers.                 *)
LEMMA Induct ==
    ASSUME NEW n \in Nat, NEW S,
           \A i \in 0..n : (\A j \in 0..(i - 1) : j \in S) => i \in S
    PROVE  \A i \in 0..n : i \in S
<1> DEFINE P == {i \in 1..(n + 1) : \A j \in 0..(i - 1) : j \in S}
           c == Cardinality(P)
<1>1. c \in 0..(n + 1) /\ P = 1..c
  <2>1. P \in SUBSET (1..(n + 1)) /\ n + 1 \in Nat
    OBVIOUS
  <2>2. \A i \in P : \A j \in 1..i : j \in P
    OBVIOUS
  <2> HIDE DEF P
  <2> QED BY <2>1, <2>2, Prefix
<1>2. ASSUME c < n + 1
      PROVE  FALSE
  <2>1. c \in 0..n
    BY <1>1, <1>2
  <2>2. \A j \in 0..(c - 1) : j \in S
    <3>1. CASE c = 0
      BY <3>1
    <3>2. CASE c # 0
      <4>1. c \in P
        BY <1>1, <3>2
      <4> QED BY <4>1
    <3> QED BY <3>1, <3>2
  <2>3. c \in S
    BY <2>1, <2>2
  <2>4. c + 1 \in P
    <3> HIDE DEF c
    <3>1. \A j \in 0..((c + 1) - 1) : j \in 0..(c - 1) \/ j = c
      BY <2>1
    <3>2. c + 1 \in 1..(n + 1)
      BY <2>1
    <3> QED BY <2>2, <2>3, <3>1, <3>2
  <2> HIDE DEF c, P
  <2> QED BY <1>1, <2>1, <2>4
<1>3. n + 1 \in P
  <2> HIDE DEF c, P
  <2> QED BY <1>1, <1>2
<1> QED BY <1>3

\* The functions of the numbers up to n that begin with b and follow step.
Following(T, b, n, step) ==
    {f \in [0..n -> T] : f[0] = b /\ \A i \in 1..n : f[i] = step[i][f[i - 1]]}

(* A function of the numbers up to n that is given by recursion exists.     *)
LEMMA Recursion ==
    ASSUME NEW T, NEW b \in T, NEW n \in Nat, NEW step \in [1..n -> [T -> T]]
    PROVE  Following(T, b, n, step) # {}
<1> DEFINE Rec(f, k) == /\ f \in [0..k -> T] /\ f[0] = b
                        /\ \A i \in 1..k : f[i] = step[i][f[i - 1]]
           S == {k \in 0..n : \E f : Rec(f, k)}
<1>1. ASSUME NEW k \in 0..n, \A j \in 0..(k - 1) : j \in S
      PROVE  k \in S
  <2>1. CASE k = 0
    <3>1. Rec([i \in 0..0 |-> b], 0)
      OBVIOUS
    <3> QED BY <2>1, <3>1
  <2>2. CASE k # 0
    <3>k. k - 1 \in 0..(k - 1)
      BY <2>2
    <3>1. PICK f : Rec(f, k - 1)
      BY <1>1, <3>k
    <3> DEFINE g == [i \in 0..k |-> IF i = k THEN step[k][f[k - 1]] ELSE f[i]]
    <3>2. k - 1 \in 0..(k - 1) /\ k \in 1..n /\ k \in 0..k /\ 0 \in 0..k
      BY <2>2
    <3>3. step[k][f[k - 1]] \in T
      BY <3>1, <3>2
    <3>4. g \in [0..k -> T]
      BY <3>1, <3>2, <3>3
    <3>5. g[0] = b
      BY <2>2, <3>1, <3>2
    <3>6. ASSUME NEW i \in 1..k
          PROVE  g[i] = step[i][g[i - 1]]
      <4>1. i \in 0..k /\ i - 1 \in 0..k /\ i - 1 # k /\ (i # k => i \in 1..(k - 1))
        OBVIOUS
      <4>2. g[i - 1] = f[i - 1] /\ g[i] = IF i = k THEN step[k][f[k - 1]] ELSE f[i]
        BY <4>1
      <4> HIDE DEF g
      <4> QED BY <3>1, <4>1, <4>2
    <3> HIDE DEF g
    <3>7. Rec(g, k)
      BY <3>4, <3>5, <3>6
    <3> QED BY <3>7
  <2> QED BY <2>1, <2>2
<1>2. n \in S
  <2> HIDE DEF S
  <2>1. \A k \in 0..n : (\A j \in 0..(k - 1) : j \in S) => k \in S
    BY <1>1
  <2>2. \A k \in 0..n : k \in S
    BY <2>1, Induct
  <2> QED BY <2>2
<1> QED BY <1>2 DEF Following

\* The results of concatenating the first 0, 1, 2, ... of the sequences.
Flats(T, ws) ==
    {f \in [0..Len(ws) -> Seq(T)] :
        f[0] = <<>> /\ \A i \in 1..Len(ws) : f[i] = f[i - 1] \o ws[i]}

(* FlattenSeq's recursion has a solution.                                   *)
LEMMA FlatsExist ==
    ASSUME NEW T, NEW ws \in Seq(Seq(T))
    PROVE  Flats(T, ws) # {}
<1> DEFINE n == Len(ws)
           step == [i \in 1..n |-> [s \in Seq(T) |-> s \o ws[i]]]
<1>1. n \in Nat /\ <<>> \in Seq(T) /\ \A i \in 1..n : ws[i] \in Seq(T)
  OBVIOUS
<1>2. step \in [1..n -> [Seq(T) -> Seq(T)]]
  <2>1. \A i \in 1..n : \A s \in Seq(T) : s \o ws[i] \in Seq(T)
    BY <1>1
  <2> QED BY <2>1
<1> HIDE DEF n
<1>3. PICK f \in [0..n -> Seq(T)] : f[0] = <<>> /\ \A i \in 1..n : f[i] = step[i][f[i - 1]]
  <2> HIDE DEF step
  <2> DEFINE R == Seq(T)
             b == <<>>
  <2>1. b \in R /\ step \in [1..n -> [R -> R]]
    BY <1>1, <1>2
  <2> HIDE DEF R, b
  <2>2. Following(R, b, n, step) # {}
    BY <1>1, <2>1, Recursion
  <2> QED BY <2>2 DEF R, b, Following
<1>4. \A i \in 1..n : i - 1 \in 0..n /\ f[i - 1] \in Seq(T)
  BY <1>1
<1>5. \A i \in 1..n : f[i] = f[i - 1] \o ws[i]
  BY <1>3, <1>4
<1> QED BY <1>3, <1>5 DEF Flats, n

(* FlattenSeq is the last of them.                                          *)
LEMMA Flattened ==
    ASSUME NEW T, NEW ws \in Seq(Seq(T)), NEW f \in Flats(T, ws)
    PROVE  FlattenSeq(ws) = f[Len(ws)]
<1> DEFINE n == Len(ws)
<1>1. n \in Nat /\ \A i \in 1..n : ws[i] \in Seq(T)
  OBVIOUS
<1> HIDE DEF n
<1>3. f \in [0..n -> Seq(T)] /\ f[0] = <<>>
  BY DEF Flats, n
<1>5. \A i \in 1..n : f[i] = f[i - 1] \o ws[i]
  BY DEF Flats, n
<1>6. CASE n = 0
  <2>1. ws = <<>>
    BY <1>6 DEF n
  <2> QED BY <1>3, <1>6, <2>1 DEF FlattenSeq, n
<1>7. CASE n # 0
  <2> DEFINE fl == CHOOSE h : h = [i \in 1..n |-> IF i = 1 THEN ws[i] ELSE h[i - 1] \o ws[i]]
             g == [i \in 1..n |-> f[i]]
  <2>1. ASSUME NEW i \in 1..n
        PROVE  g[i] = IF i = 1 THEN ws[i] ELSE g[i - 1] \o ws[i]
    <3>1. CASE i = 1
      <4>1. f[1] = f[0] \o ws[1] /\ ws[1] \in Seq(T)
        <5>1. 1 - 1 = 0
          OBVIOUS
        <5> QED BY <1>1, <1>5, <3>1, <5>1
      <4>2. <<>> \o ws[1] = ws[1]
        BY <4>1
      <4> QED BY <1>3, <3>1, <4>1, <4>2
    <3>2. CASE i # 1
      <4>1. i - 1 \in 1..n
        BY <1>1, <3>2
      <4>2. g[i] = f[i] /\ g[i - 1] = f[i - 1]
        BY <4>1
      <4>3. f[i] = f[i - 1] \o ws[i]
        BY <1>5
      <4> HIDE DEF g
      <4> QED BY <3>2, <4>2, <4>3, Zenon
    <3> QED BY <3>1, <3>2
  <2>2. g = [i \in 1..n |-> IF i = 1 THEN ws[i] ELSE g[i - 1] \o ws[i]]
    <3>1. g = [i \in 1..n |-> g[i]]
      OBVIOUS
    <3> HIDE DEF g
    <3> QED BY <2>1, <3>1, Zenon
  <2>3. fl = [i \in 1..n |-> IF i = 1 THEN ws[i] ELSE fl[i - 1] \o ws[i]]
    <3> HIDE DEF g
    <3> QED BY <2>2, Zenon
  <2>4. FlattenSeq(ws) = fl[n]
    BY <1>7 DEF FlattenSeq, n
  <2> HIDE DEF fl
  <2> DEFINE S == {i \in 0..n : i # 0 => fl[i] = f[i]}
  <2>5. ASSUME NEW k \in 0..n, \A j \in 0..(k - 1) : j \in S
        PROVE  k \in S
    <3>1. CASE k = 0 \/ k = 1
      <4>1. CASE k = 1
        <5>0. k \in 1..n
          BY <4>1
        <5>1. g[k] = f[k] /\ g[k] = ws[k]
          BY <2>1, <4>1, <5>0
        <5>2. fl[k] = ws[k]
          <6> HIDE DEF g, S
          <6> QED BY <2>3, <4>1, <5>0
        <5> QED BY <5>1, <5>2
      <4> QED BY <3>1, <4>1
    <3>2. CASE ~(k = 0 \/ k = 1)
      <4>1. k - 1 \in 0..(k - 1) /\ k \in 1..n /\ k - 1 # 0
        BY <3>2
      <4>2. fl[k - 1] = f[k - 1]
        BY <2>5, <4>1
      <4>3. fl[k] = fl[k - 1] \o ws[k]
        <5> HIDE DEF g, S
        <5> QED BY <2>3, <3>2, <4>1
      <4>4. f[k] = f[k - 1] \o ws[k]
        BY <1>5, <4>1
      <4>5. fl[k] = f[k]
        BY <4>2, <4>3, <4>4, Zenon
      <4> QED BY <4>5
    <3> QED BY <3>1, <3>2
  <2>6. n \in S
    <3> HIDE DEF S
    <3>1. \A k \in 0..n : (\A j \in 0..(k - 1) : j \in S) => k \in S
      BY <2>5
    <3>2. \A k \in 0..n : k \in S
      BY <1>1, <3>1, Induct
    <3> QED BY <1>1, <3>2
  <2> QED BY <1>3, <1>5, <1>7, <2>4, <2>6 DEF n
<1> QED BY <1>6, <1>7

(* The first of the sequences are at the beginning of all.                  *)
LEMMA FlatPrefix ==
    ASSUME NEW T, NEW ws \in Seq(Seq(T)), NEW f \in Flats(T, ws),
           NEW i \in 0..Len(ws), NEW j \in i..Len(ws)
    PROVE  /\ Len(f[i]) <= Len(f[j])
           /\ \A k \in 1..Len(f[i]) : f[j][k] = f[i][k]
<1> DEFINE n == Len(ws)
           Begun(m) == /\ Len(f[i]) <= Len(f[m])
                       /\ \A k \in 1..Len(f[i]) : f[m][k] = f[i][k]
           S == {m \in 0..n : m >= i => Begun(m)}
<1>1. n \in Nat /\ \A m \in 1..n : ws[m] \in Seq(T)
  OBVIOUS
<1> HIDE DEF n
<1>2. /\ f \in [0..n -> Seq(T)] /\ \A m \in 0..n : f[m] \in Seq(T) /\ Len(f[m]) \in Nat
      /\ \A m \in 1..n : f[m] = f[m - 1] \o ws[m]
  <2>1. f \in [0..n -> Seq(T)] /\ \A m \in 1..n : f[m] = f[m - 1] \o ws[m]
    BY DEF Flats, n
  <2>2. \A m \in 0..n : f[m] \in Seq(T)
    BY <2>1
  <2>3. \A s \in Seq(T) : Len(s) \in Nat
    OBVIOUS
  <2> QED BY <2>1, <2>2, <2>3
<1>3. i \in 0..n /\ j \in 0..n /\ j >= i /\ i \in Nat
  BY <1>1 DEF n
<1>4. ASSUME NEW m \in 0..n, \A x \in 0..(m - 1) : x \in S
      PROVE  m \in S
  <2>1. CASE m < i \/ m = i
    BY <1>2, <1>3, <2>1
  <2>2. CASE ~(m < i \/ m = i)
    <3>1. m - 1 \in 0..(m - 1) /\ m - 1 >= i /\ m \in 1..n /\ m - 1 \in 0..n
      BY <1>1, <1>3, <2>2
    <3>2. Begun(m - 1)
      BY <1>4, <3>1
    <3>3. /\ Len(f[m]) = Len(f[m - 1]) + Len(ws[m])
          /\ \A k \in 1..Len(f[m - 1]) : f[m][k] = f[m - 1][k]
      <4> DEFINE a == f[m - 1]
                 b == ws[m]
      <4>1. a \in Seq(T) /\ b \in Seq(T) /\ f[m] = a \o b
        BY <1>1, <1>2, <3>1
      <4> HIDE DEF a, b
      <4>2. /\ Len(a \o b) = Len(a) + Len(b) /\ Len(a) \in Nat /\ Len(b) \in Nat
            /\ \A k \in 1..(Len(a) + Len(b)) :
                   (a \o b)[k] = IF k <= Len(a) THEN a[k] ELSE b[k - Len(a)]
        BY <4>1, Joined
      <4>3. \A k \in 1..Len(a) : k \in 1..(Len(a) + Len(b)) /\ k <= Len(a)
        BY <4>2
      <4> QED BY <4>1, <4>2, <4>3 DEF a, b
    <3>4. Len(ws[m]) \in Nat /\ Len(f[m - 1]) \in Nat /\ Len(f[i]) \in Nat
      BY <1>1, <1>2, <1>3, <3>1
    <3>5. Len(f[i]) <= Len(f[m]) /\ \A k \in 1..Len(f[i]) : k \in 1..Len(f[m - 1])
      <4>1. \A a, b, c, d \in Nat : a <= b /\ d = b + c => a <= d
        OBVIOUS
      <4>2. Len(f[m]) \in Nat /\ Len(f[i]) <= Len(f[m - 1])
        BY <1>2, <3>2
      <4>3. Len(f[i]) <= Len(f[m])
        BY <3>3, <3>4, <4>1, <4>2
      <4> QED BY <3>4, <4>2, <4>3
    <3>6. \A k \in 1..Len(f[i]) : f[m][k] = f[i][k]
      BY <3>2, <3>3, <3>5
    <3>7. Begun(m)
      BY <3>5, <3>6
    <3> QED BY <3>7
  <2> QED BY <2>1, <2>2
<1>5. j \in S
  <2> HIDE DEF S
  <2>1. \A k \in 0..n : (\A x \in 0..(k - 1) : x \in S) => k \in S
    BY <1>4
  <2>2. \A k \in 0..n : k \in S
    BY <1>1, <2>1, Induct
  <2> QED BY <1>3, <2>2
<1> QED BY <1>3, <1>5

(* One turn of the loop over the parameters, from the turns after it.       *)
LoopTurn(bytes, from, pos) ==
    IF pos + 3 > Len(bytes) THEN [valid |-> pos = Len(bytes) + 1, params |-> <<>>]
    ELSE LET last == pos + 3 + ShortAt(bytes, pos + 2)
             p == [id |-> ShortAt(bytes, pos), body |-> SubSeq(bytes, pos + 4, last)]
         IN IF last > Len(bytes) THEN [valid |-> FALSE, params |-> <<>>]
            ELSE [valid |-> from[last + 1].valid,
                  params |-> <<p>> \o from[last + 1].params]

(* A turn depends on those behind it only.                                  *)
LEMMA TurnsBehind ==
    ASSUME NEW bytes \in Seq(Nat), NEW pos \in 1..(Len(bytes) + 1), NEW g, NEW h,
           \A x \in (pos + 1)..(Len(bytes) + 1) : g[x] = h[x]
    PROVE  LoopTurn(bytes, g, pos) = LoopTurn(bytes, h, pos)
<1>1. CASE pos + 3 > Len(bytes)
  BY <1>1, Zenon DEF LoopTurn
<1>2. CASE ~(pos + 3 > Len(bytes))
  <2>1. ShortAt(bytes, pos + 2) \in Nat
    <3>1. bytes[pos + 2] \in Nat /\ bytes[pos + 2 + 1] \in Nat
      <4>1. pos + 2 \in 1..Len(bytes) /\ pos + 2 + 1 \in 1..Len(bytes)
        BY <1>2
      <4> QED BY <4>1, ElementOfSeq
    <3>2. \A a, b, r \in Nat : a * r + b \in Nat
      OBVIOUS
    <3> QED BY <3>1, <3>2, ParAssumption DEF ShortAt
  <2> DEFINE last == pos + 3 + ShortAt(bytes, pos + 2)
  <2>2. last \in Nat /\ last > pos
    BY <2>1
  <2> HIDE DEF last
  <2>3. CASE last > Len(bytes)
    BY <1>2, <2>3 DEF LoopTurn, last
  <2>4. CASE ~(last > Len(bytes))
    <3>1. g[last + 1] = h[last + 1]
      BY <2>2, <2>4
    <3> QED BY <3>1 DEF LoopTurn, last
  <2> QED BY <2>3, <2>4
<1> QED BY <1>1, <1>2

(* The loop over the parameters is what its turns make it.                  *)
LEMMA ParseLoop ==
    ASSUME NEW bytes \in Seq(Nat)
    PROVE  \E from : \A pos \in 1..(Len(bytes) + 1) :
               /\ ParseFrom(bytes, pos) = from[pos]
               /\ from[pos] = LoopTurn(bytes, from, pos)
<1> DEFINE N == Len(bytes)
           Loop(g, k) == g = [pos \in (N + 1 - k)..(N + 1) |-> LoopTurn(bytes, g, pos)]
           S == {k \in 0..N : \E g : Loop(g, k)}
           fr == CHOOSE h : h = [pos \in 1..(N + 1) |-> LoopTurn(bytes, h, pos)]
<1>1. N \in Nat
  OBVIOUS
<1>2. ASSUME NEW k \in 0..N, \A j \in 0..(k - 1) : j \in S
      PROVE  k \in S
  <2> DEFINE q == N + 1 - k
  <2>1. PICK g : \A pos \in (q + 1)..(N + 1) : g[pos] = LoopTurn(bytes, g, pos)
    <3>1. CASE k = 0
      BY <1>1, <3>1
    <3>2. CASE k # 0
      <4>1. k - 1 \in 0..(k - 1) /\ N + 1 - (k - 1) = q + 1
        BY <1>1, <3>2
      <4>2. PICK g : Loop(g, k - 1)
        BY <1>2, <4>1
      <4>3. g = [pos \in (q + 1)..(N + 1) |-> LoopTurn(bytes, g, pos)]
        BY <4>1, <4>2
      <4> HIDE DEF q
      <4> QED BY <4>3
    <3> QED BY <3>1, <3>2
  <2> DEFINE h == [pos \in q..(N + 1) |-> IF pos = q THEN LoopTurn(bytes, g, q) ELSE g[pos]]
  <2>2. q \in 1..(N + 1)
    BY <1>1
  <2> HIDE DEF N, q
  <2>3. \A pos \in (q + 1)..(N + 1) : h[pos] = g[pos]
    BY <1>1, <2>2
  <2>4. ASSUME NEW pos \in q..(N + 1)
        PROVE  h[pos] = LoopTurn(bytes, h, pos)
    <3>1. h[pos] = LoopTurn(bytes, g, pos)
      <4>1. pos = q \/ pos \in (q + 1)..(N + 1)
        BY <1>1, <2>2
      <4> QED BY <2>1, <2>4, <4>1
    <3>2. \A x \in (pos + 1)..(N + 1) : x \in (q + 1)..(N + 1)
      BY <1>1, <2>2
    <3> HIDE DEF h
    <3>3. \A x \in (pos + 1)..(N + 1) : h[x] = g[x]
      BY <2>3, <3>2
    <3>4. pos \in 1..(Len(bytes) + 1)
      BY <1>1, <2>2 DEF N
    <3> QED BY <3>1, <3>3, <3>4, TurnsBehind DEF N
  <2>5. h = [pos \in q..(N + 1) |-> LoopTurn(bytes, h, pos)]
    BY <2>4
  <2> HIDE DEF h
  <2> QED BY <2>5 DEF q
<1>3. N \in S
  <2> HIDE DEF S, N
  <2>1. \A k \in 0..N : (\A j \in 0..(k - 1) : j \in S) => k \in S
    BY <1>2
  <2>2. \A k \in 0..N : k \in S
    BY <1>1, <2>1, Induct
  <2> QED BY <1>1, <2>2
<1>4. PICK g : g = [pos \in 1..(N + 1) |-> LoopTurn(bytes, g, pos)]
  <2>1. PICK g : Loop(g, N)
    BY <1>3
  <2>2. N + 1 - N = 1
    BY <1>1
  <2> HIDE DEF N
  <2> QED BY <2>1, <2>2
<1>5. fr = [pos \in 1..(N + 1) |-> LoopTurn(bytes, fr, pos)]
  <2> HIDE DEF N
  <2> QED BY <1>4
<1>6. \A pos : ParseFrom(bytes, pos) = fr[pos]
  BY DEF ParseFrom, LoopTurn
<1> HIDE DEF fr
<1> QED BY <1>5, <1>6

\* A parameter whose body has a length that its field can say.
Sound(p) == p \in Params /\ Len(p.body) < Radix * Radix

(* What a parameter looks like as bytes.                                    *)
LEMMA Written ==
    ASSUME NEW p, Sound(p)
    PROVE  LET w == WriteParam(p)
           IN /\ w \in Seq(Nat) /\ Len(w) = 4 + Len(p.body)
              /\ Len(p.body) \in Nat /\ p.body \in Seq(Nat)
              /\ ShortAt(w, 1) = p.id /\ ShortAt(w, 3) = Len(p.body)
              /\ \A k \in 1..Len(p.body) : w[4 + k] = p.body[k]
<1> DEFINE a == Short(p.id)
           b == Short(Len(p.body))
           c == p.body
           w == (a \o b) \o c
           D == 0..(Radix - 1)
<1>1. p.id \in 0..(Radix * Radix - 1) /\ c \in Seq(D) /\ p.id \in ParamIds
  BY ParAssumption DEF Sound, Params
<1>2. Len(c) \in 0..(Radix * Radix - 1)
  <2>1. Len(c) \in Nat
    BY <1>1
  <2>2. Len(c) < Radix * Radix
    BY DEF Sound
  <2>3. Radix * Radix \in Nat
    BY ParAssumption
  <2> QED BY <2>1, <2>2, <2>3
<1>3. /\ a \in Seq(D) /\ Len(a) = 2 /\ ShortAt(a, 1) = p.id
      /\ b \in Seq(D) /\ Len(b) = 2 /\ ShortAt(b, 1) = Len(c)
  BY <1>1, <1>2, NumbersKept
<1>4. \A s : s \in Seq(D) => s \in Seq(Nat)
  <2>1. D \subseteq Nat
    BY ParAssumption
  <2> HIDE DEF D
  <2> QED BY <2>1, SeqMonotonic
<1>5. a \in Seq(Nat) /\ b \in Seq(Nat) /\ c \in Seq(Nat)
  BY <1>1, <1>3, <1>4
<1> HIDE DEF a, b, c, D
<1>6. /\ a \o b \in Seq(Nat) /\ Len(a \o b) = 4
      /\ (a \o b)[1] = a[1] /\ (a \o b)[2] = a[2]
      /\ (a \o b)[3] = b[1] /\ (a \o b)[4] = b[2]
  <2>1. /\ a \o b \in Seq(Nat) /\ Len(a \o b) = Len(a) + Len(b)
        /\ \A i \in 1..(Len(a) + Len(b)) :
               (a \o b)[i] = IF i <= Len(a) THEN a[i] ELSE b[i - Len(a)]
    BY <1>5, Joined
  <2>2. 3 - 2 = 1 /\ 4 - 2 = 2 /\ 2 + 2 = 4
    OBVIOUS
  <2> QED BY <1>3, <2>1, <2>2
<1> DEFINE e == a \o b
<1> HIDE DEF e
<1>7. /\ e \in Seq(Nat) /\ Len(e) = 4
      /\ e[1] = a[1] /\ e[2] = a[2] /\ e[3] = b[1] /\ e[4] = b[2]
  BY <1>6 DEF e
<1>8. Len(c) \in Nat
  BY <1>5
<1>9. /\ e \o c \in Seq(Nat) /\ Len(e \o c) = 4 + Len(c)
      /\ \A k \in 1..4 : (e \o c)[k] = e[k]
      /\ \A k \in 1..Len(c) : (e \o c)[4 + k] = c[k]
  <2>1. /\ e \o c \in Seq(Nat) /\ Len(e \o c) = Len(e) + Len(c)
        /\ \A i \in 1..(Len(e) + Len(c)) :
               (e \o c)[i] = IF i <= Len(e) THEN e[i] ELSE c[i - Len(e)]
    BY <1>5, <1>7, Joined
  <2> DEFINE d == e \o c
  <2> HIDE DEF d
  <2>2. /\ d \in Seq(Nat) /\ Len(d) = 4 + Len(c)
        /\ \A i \in 1..(4 + Len(c)) : d[i] = IF i <= 4 THEN e[i] ELSE c[i - 4]
    BY <1>7, <2>1 DEF d
  <2>3. \A k \in 1..4 : k \in 1..(4 + Len(c)) /\ k <= 4
    BY <1>8
  <2>4. \A k \in 1..Len(c) : 4 + k \in 1..(4 + Len(c)) /\ ~(4 + k <= 4) /\ (4 + k) - 4 = k
    BY <1>8
  <2>5. \A k \in 1..Len(c) : d[4 + k] = c[k]
    BY <2>2, <2>4
  <2> QED BY <2>2, <2>3, <2>5 DEF d
<1>10. e \o c = WriteParam(p)
  BY DEF WriteParam, e, a, b, c
<1> DEFINE v == WriteParam(p)
<1> HIDE DEF v
<1>11. /\ v \in Seq(Nat) /\ Len(v) = 4 + Len(c)
       /\ v[1] = a[1] /\ v[2] = a[2] /\ v[3] = b[1] /\ v[4] = b[2]
       /\ \A k \in 1..Len(c) : v[4 + k] = c[k]
  BY <1>7, <1>9, <1>10 DEF v
<1>12. ShortAt(v, 1) = p.id /\ ShortAt(v, 3) = Len(c)
  <2>1. 1 + 1 = 2 /\ 3 + 1 = 4
    OBVIOUS
  <2> QED BY <1>3, <1>11, <2>1, Zenon DEF ShortAt
<1> QED BY <1>5, <1>8, <1>11, <1>12 DEF v, c

\* Where the bytes of each parameter begin, from pos on.
Begins(ps, pos) ==
    {at \in [0..Len(ps) -> Nat] :
        at[0] = pos /\ \A i \in 1..Len(ps) : at[i] = at[i - 1] + 4 + Len(ps[i].body)}

(* From pos on, the bytes are those of p as far as they go.                 *)
Lies(bytes, p, pos) ==
    \A k \in 1..(4 + Len(p.body)) :
        pos + k - 1 <= Len(bytes) => bytes[pos + k - 1] = WriteParam(p)[k]

(* The bytes are those of a block, or the first of them.                    *)
IsBlock(bytes, ps, at) == \A i \in 1..Len(ps) : Lies(bytes, ps[i], at[i - 1])

(* A turn of the loop finds the parameter whose bytes begin there, unless   *)
(* they are cut off.                                                        *)
LEMMA TurnTaken ==
    ASSUME NEW bytes \in Seq(Nat), NEW from, NEW p, Sound(p),
           NEW pos \in 1..(Len(bytes) + 1), Lies(bytes, p, pos)
    PROVE  LET next == pos + 4 + Len(p.body)
               turn == LoopTurn(bytes, from, pos)
           IN /\ next <= Len(bytes) + 1 =>
                    turn = [valid |-> from[next].valid,
                            params |-> <<p>> \o from[next].params]
              /\ pos # Len(bytes) + 1 /\ next > Len(bytes) + 1 => ~turn.valid
              /\ pos = Len(bytes) + 1 => turn = [valid |-> TRUE, params |-> <<>>]
<1> DEFINE w == WriteParam(p)
           n == Len(p.body)
           turn == LoopTurn(bytes, from, pos)
<1>1. /\ w \in Seq(Nat) /\ Len(w) = 4 + n /\ n \in Nat /\ p.body \in Seq(Nat)
      /\ ShortAt(w, 1) = p.id /\ ShortAt(w, 3) = n
      /\ \A k \in 1..n : w[4 + k] = p.body[k]
  BY Written
<1>2. Len(bytes) \in Nat /\ pos \in Nat
  OBVIOUS
<1> HIDE DEF w, n
<1>0. \A k \in 1..(4 + n) : pos + k - 1 <= Len(bytes) => bytes[pos + k - 1] = w[k]
  BY DEF Lies, w, n
<1>3. CASE pos + 3 > Len(bytes)
  <2>1. turn = [valid |-> pos = Len(bytes) + 1, params |-> <<>>]
    BY <1>3 DEF LoopTurn
  <2>2. ~(pos + 4 + n <= Len(bytes) + 1)
    BY <1>1, <1>2, <1>3
  <2> HIDE DEF turn
  <2>3. pos # Len(bytes) + 1 => ~turn.valid
    BY <2>1
  <2> QED BY <2>1, <2>2, <2>3 DEF turn, n
<1>4. CASE ~(pos + 3 > Len(bytes))
  <2>1. /\ bytes[pos] = w[1] /\ bytes[pos + 1] = w[2]
        /\ bytes[pos + 2] = w[3] /\ bytes[pos + 3] = w[4]
    <3>1. 1 \in 1..(4 + n) /\ 2 \in 1..(4 + n) /\ 3 \in 1..(4 + n) /\ 4 \in 1..(4 + n)
      BY <1>1
    <3>2. /\ pos + 1 - 1 = pos /\ pos + 2 - 1 = pos + 1 /\ pos + 3 - 1 = pos + 2
          /\ pos + 4 - 1 = pos + 3 /\ pos <= Len(bytes) /\ pos + 1 <= Len(bytes)
          /\ pos + 2 <= Len(bytes) /\ pos + 3 <= Len(bytes)
      BY <1>2, <1>4
    <3> QED BY <1>0, <3>1, <3>2
  <2>2. ShortAt(bytes, pos) = p.id /\ ShortAt(bytes, pos + 2) = n
    <3>1. 1 + 1 = 2 /\ 3 + 1 = 4 /\ (pos + 2) + 1 = pos + 3
      BY <1>2
    <3> QED BY <1>1, <2>1, <3>1, Zenon DEF ShortAt
  <2> DEFINE last == pos + 3 + n
  <2>3. turn = IF last > Len(bytes) THEN [valid |-> FALSE, params |-> <<>>]
               ELSE [valid |-> from[last + 1].valid,
                     params |-> <<[id |-> p.id, body |-> SubSeq(bytes, pos + 4, last)]>>
                                  \o from[last + 1].params]
    <3> DEFINE Read(id, len) ==
                   IF pos + 3 + len > Len(bytes) THEN [valid |-> FALSE, params |-> <<>>]
                   ELSE [valid |-> from[pos + 3 + len + 1].valid,
                         params |-> <<[id |-> id,
                                       body |-> SubSeq(bytes, pos + 4, pos + 3 + len)]>>
                                    \o from[pos + 3 + len + 1].params]
    <3>1. turn = Read(ShortAt(bytes, pos), ShortAt(bytes, pos + 2))
      BY <1>4, Zenon DEF LoopTurn
    <3> HIDE DEF Read, turn
    <3>2. turn = Read(p.id, n)
      BY <2>2, <3>1
    <3> QED BY <3>2, Zenon DEF Read
  <2>4. last + 1 = pos + 4 + n /\ pos # Len(bytes) + 1
    <3> DEFINE N == Len(bytes)
    <3>1. N \in Nat /\ pos \in Nat /\ n \in Nat /\ ~(pos + 3 > N)
      BY <1>1, <1>2, <1>4
    <3> HIDE DEF N
    <3>2. pos + 3 + n + 1 = pos + 4 + n /\ pos # N + 1
      BY <3>1
    <3> QED BY <3>2 DEF N
  <2>5. CASE last > Len(bytes)
    <3>1. ~(pos + 4 + n <= Len(bytes) + 1)
      BY <1>1, <1>2, <2>5
    <3> HIDE DEF turn, last
    <3>2. ~turn.valid
      BY <2>3, <2>5
    <3> QED BY <2>4, <3>1, <3>2 DEF turn, n
  <2>6. CASE ~(last > Len(bytes))
    <3> DEFINE body == SubSeq(bytes, pos + 4, last)
    <3>1. /\ body \in Seq(Nat) /\ Len(body) = n
          /\ \A k \in 1..n : body[k] = bytes[pos + 4 + k - 1]
      <4>1. \A i \in (pos + 4)..last : bytes[i] \in Nat
        <5>1. \A i \in (pos + 4)..last : i \in 1..Len(bytes)
          BY <1>1, <1>2, <2>6
        <5> QED BY <5>1, ElementOfSeq
      <4>2. pos + 4 \in Int /\ last \in Int
        BY <1>1, <1>2
      <4>3. /\ SubSeq(bytes, pos + 4, last) \in Seq(Nat)
            /\ Len(SubSeq(bytes, pos + 4, last))
                 = IF pos + 4 <= last THEN last - (pos + 4) + 1 ELSE 0
            /\ \A i \in 1..(last - (pos + 4) + 1) :
                   SubSeq(bytes, pos + 4, last)[i] = bytes[(pos + 4) + i - 1]
        BY <4>1, <4>2, SubSeqProperties
      <4>4. last - (pos + 4) + 1 = n /\ (pos + 4 <= last <=> n # 0)
        BY <1>1, <1>2
      <4>5. \A k \in Int : (pos + 4) + k - 1 = pos + 4 + k - 1
        BY <1>2
      <4> HIDE DEF last
      <4> QED BY <1>1, <4>3, <4>4, <4>5
    <3>2. ASSUME NEW k \in 1..n
          PROVE  body[k] = p.body[k]
      <4>1. /\ 4 + k \in 1..(4 + n) /\ pos + (4 + k) - 1 = pos + 4 + k - 1
            /\ pos + (4 + k) - 1 <= Len(bytes)
        <5>1. k \in Nat /\ k >= 1 /\ k <= n /\ pos + 3 + n <= Len(bytes)
          <6> DEFINE N == Len(bytes)
          <6>1. N \in Nat /\ pos \in Nat /\ n \in Nat /\ ~(pos + 3 + n > N)
            BY <1>1, <1>2, <2>6
          <6> HIDE DEF N, last
          <6>2. pos + 3 + n <= N
            BY <6>1
          <6>3. k \in Nat /\ k >= 1 /\ k <= n
            BY <6>1
          <6> QED BY <6>2, <6>3 DEF N
        <5> HIDE DEF last
        <5>2. 4 + k \in 1..(4 + n) /\ pos + (4 + k) - 1 = pos + 4 + k - 1
          BY <1>1, <1>2, <5>1
        <5>3. pos + (4 + k) - 1 <= Len(bytes)
          <6> DEFINE N == Len(bytes)
          <6>1. N \in Nat /\ pos \in Nat /\ n \in Nat /\ pos + 3 + n <= N
            BY <1>1, <1>2, <5>1
          <6> HIDE DEF N
          <6>2. pos + (4 + k) - 1 <= N
            BY <5>1, <6>1
          <6> QED BY <6>2 DEF N
        <5> QED BY <5>2, <5>3
      <4>2. bytes[pos + (4 + k) - 1] = w[4 + k]
        BY <1>0, <4>1
      <4> HIDE DEF body
      <4> QED BY <1>1, <3>1, <4>1, <4>2
    <3> HIDE DEF body
    <3>3. body = p.body
      BY <1>1, <3>1, <3>2, SeqEqual DEF n
    <3>4. [id |-> p.id, body |-> body] = p
      BY <3>3 DEF Sound, Params
    <3> HIDE DEF last, turn
    <3>5. turn = [valid |-> from[last + 1].valid, params |-> <<p>> \o from[last + 1].params]
      BY <2>3, <2>6, <3>4 DEF body
    <3>6. ~(pos + 4 + n > Len(bytes) + 1)
      BY <1>1, <1>2, <2>6 DEF last
    <3> QED BY <2>4, <3>5, <3>6 DEF turn, n
  <2> QED BY <2>5, <2>6
<1> QED BY <1>3, <1>4

\* Places of parameters grow by at least four bytes from one to the next.
LEMMA PlacesGrow ==
    ASSUME NEW ps \in Seq(Params), \A m \in 1..Len(ps) : Sound(ps[m]),
           NEW pos \in Nat, NEW at \in Begins(ps, pos),
           NEW i \in 0..Len(ps), NEW j \in 0..Len(ps), i < j
    PROVE  at[i] < at[j]
<1> DEFINE n == Len(ps)
           S == {m \in 0..n : m > i => at[m] > at[i]}
<1>1. /\ n \in Nat /\ at \in [0..n -> Nat] /\ \A m \in 0..n : at[m] \in Nat
      /\ \A m \in 1..n : at[m] = at[m - 1] + 4 + Len(ps[m].body)
  BY DEF Begins
<1>2. \A m \in 1..n : Len(ps[m].body) \in Nat
  BY Written
<1> HIDE DEF n
<1>3. ASSUME NEW m \in 0..n, \A x \in 0..(m - 1) : x \in S
      PROVE  m \in S
  <2>1. CASE m <= i
    BY <2>1, <1>1 DEF n
  <2>2. CASE m > i
    <3>1. m - 1 \in 0..(m - 1) /\ m \in 1..n /\ m - 1 \in 0..n /\ (m - 1 > i \/ m - 1 = i)
      BY <1>1, <2>2 DEF n
    <3>2. at[m - 1] > at[i] \/ at[m - 1] = at[i]
      BY <1>3, <3>1
    <3>3. at[i] \in Nat /\ at[m - 1] \in Nat /\ at[m] \in Nat /\ Len(ps[m].body) \in Nat
      BY <1>1, <1>2, <3>1 DEF n
    <3>4. at[m] = at[m - 1] + 4 + Len(ps[m].body)
      BY <1>1, <3>1
    <3>6. at[m] > at[i]
      <4> DEFINE a == at[i]
                 b == at[m - 1]
                 c == at[m]
                 d == Len(ps[m].body)
      <4>1. /\ b > a \/ b = a
            /\ a \in Nat /\ b \in Nat /\ c \in Nat /\ d \in Nat /\ c = b + 4 + d
        BY <3>2, <3>3, <3>4
      <4> HIDE DEF a, b, c, d
      <4>2. c > a
        BY <4>1
      <4> QED BY <4>2 DEF a, c
    <3> QED BY <3>6
  <2> QED BY <2>1, <2>2, <1>1 DEF n
<1>4. j \in S
  <2> HIDE DEF S
  <2>1. \A k \in 0..n : (\A x \in 0..(k - 1) : x \in S) => k \in S
    BY <1>3
  <2>2. \A k \in 0..n : k \in S
    BY <1>1, <2>1, Induct
  <2> QED BY <2>2 DEF n
<1> QED BY <1>1, <1>4 DEF n

(* What the loop makes of the bytes of a block, all of them or the first    *)
(* ones: it is valid if they end with a parameter, and then yields the      *)
(* parameters up to that one.                                               *)
LEMMA Parsed ==
    ASSUME NEW bytes \in Seq(Nat), NEW ps \in Seq(Params),
           \A i \in 1..Len(ps) : Sound(ps[i]),
           NEW pos \in 1..(Len(bytes) + 1), NEW at \in Begins(ps, pos),
           IsBlock(bytes, ps, at), at[Len(ps)] >= Len(bytes) + 1
    PROVE  LET block == ParseFrom(bytes, pos)
           IN /\ block.valid => \E j \in 0..Len(ps) : at[j] = Len(bytes) + 1
              /\ \A j \in 0..Len(ps) : at[j] = Len(bytes) + 1 =>
                     block = [valid |-> TRUE, params |-> SubSeq(ps, 1, j)]
<1> DEFINE n == Len(ps)
           N == Len(bytes)
<1>1. /\ n \in Nat /\ N \in Nat /\ pos \in Nat
      /\ at \in [0..n -> Nat] /\ at[0] = pos
      /\ \A m \in 1..n : at[m] = at[m - 1] + 4 + Len(ps[m].body)
  BY DEF Begins
<1>2. PICK from : \A p \in 1..(N + 1) : /\ ParseFrom(bytes, p) = from[p]
                                        /\ from[p] = LoopTurn(bytes, from, p)
  BY ParseLoop
<1>3. \A i, j \in 0..n : i < j => at[i] < at[j]
  BY <1>1, PlacesGrow
<1> DEFINE Right(i) ==
               LET block == from[at[i]]
               IN /\ block.valid => \E j \in i..n : at[j] = N + 1
                  /\ \A j \in i..n : at[j] = N + 1 =>
                         block = [valid |-> TRUE, params |-> SubSeq(ps, i + 1, j)]
           S == {m \in 0..n : at[n - m] <= N + 1 => Right(n - m)}
<1> HIDE DEF n, N
<1>4. \A i \in 0..n : at[i] \in Nat /\ at[i] >= pos
  <2>1. \A i \in 0..n : at[i] \in Nat
    BY <1>1
  <2>2. \A i \in 0..n : i = 0 \/ at[0] < at[i]
    BY <1>1, <1>3
  <2> QED BY <1>1, <2>1, <2>2
<1>5. \A i \in 0..n : at[i] <= N + 1 => at[i] \in 1..(N + 1)
  BY <1>1, <1>4 DEF N
\* At the end of the bytes.
<1>6. ASSUME NEW i \in 0..n, at[i] = N + 1
      PROVE  Right(i)
  <2>1. from[N + 1] = LoopTurn(bytes, from, N + 1)
    BY <1>1, <1>2
  <2>2. N + 1 + 3 > Len(bytes) /\ N + 1 = Len(bytes) + 1
    BY <1>1 DEF N
  <2>3. LoopTurn(bytes, from, N + 1) = [valid |-> TRUE, params |-> <<>>]
    BY <2>2 DEF LoopTurn
  <2>4. ASSUME NEW j \in i..n, at[j] = N + 1
        PROVE  j = i
    <3>1. j \in 0..n /\ (j > i \/ j = i)
      BY <1>1
    <3>2. j > i => at[i] < at[j]
      BY <1>3, <3>1
    <3> QED BY <1>1, <1>6, <2>4, <3>1, <3>2
  <2>5. SubSeq(ps, i + 1, i) = <<>>
    BY <1>1, SubSeqEmpty
  <2>6. i \in i..n
    BY <1>1
  <2> QED BY <1>6, <2>1, <2>3, <2>4, <2>5, <2>6
\* Before it, from what comes after a parameter.
<1>7. ASSUME NEW i \in 0..n, at[i] < N + 1, i < n,
             at[i + 1] <= N + 1 => Right(i + 1)
      PROVE  Right(i)
  <2> DEFINE p == ps[i + 1]
             next == at[i] + 4 + Len(p.body)
             turn == from[at[i]]
  <2>1. i + 1 \in 1..n /\ i + 1 \in 0..n /\ (i + 1) - 1 = i
    BY <1>1, <1>7
  <2>2. Sound(p) /\ p \in Params /\ next = at[i + 1] /\ at[i] \in 1..(N + 1)
    <3>1. at[i + 1] = at[(i + 1) - 1] + 4 + Len(ps[i + 1].body)
      BY <1>1, <2>1
    <3>2. at[i] \in 1..(N + 1)
      <4>1. at[i] <= N + 1
        BY <1>1, <1>4, <1>7
      <4> QED BY <1>5, <4>1
    <3>3. Sound(ps[i + 1]) /\ ps[i + 1] \in Params
      BY <2>1 DEF n
    <3> QED BY <2>1, <3>1, <3>2, <3>3
  <2>3. Lies(bytes, p, at[i])
    BY <2>1 DEF IsBlock, n
  <2>4. /\ next <= N + 1 =>
              turn = [valid |-> from[next].valid, params |-> <<p>> \o from[next].params]
        /\ at[i] # N + 1 /\ next > N + 1 => ~turn.valid
    <3>1. turn = LoopTurn(bytes, from, at[i])
      BY <1>2, <2>2
    <3> HIDE DEF p
    <3> DEFINE q == at[i]
    <3>2. q \in 1..(Len(bytes) + 1) /\ Sound(p)
      BY <2>2 DEF N
    <3> HIDE DEF q
    <3>3. Lies(bytes, p, q)
      BY <2>3 DEF q
    <3>4. /\ q + 4 + Len(p.body) <= Len(bytes) + 1 =>
                LoopTurn(bytes, from, q)
                  = [valid |-> from[q + 4 + Len(p.body)].valid,
                     params |-> <<p>> \o from[q + 4 + Len(p.body)].params]
          /\ q # Len(bytes) + 1 /\ q + 4 + Len(p.body) > Len(bytes) + 1 =>
                ~LoopTurn(bytes, from, q).valid
      BY <3>2, <3>3, TurnTaken, Zenon
    <3> QED BY <3>1, <3>4 DEF N, q
  <2>5. at[i] # N + 1 /\ at[i] \in Nat /\ at[i + 1] \in Nat /\ i + 1 \in Nat
    BY <1>1, <1>4, <1>7, <2>1
  <2>6. \A j \in i..n : at[j] = N + 1 => j \in (i + 1)..n
    <3>1. \A j \in i..n : j = i \/ j \in (i + 1)..n
      BY <1>1
    <3> QED BY <2>5, <3>1
  <2>7. CASE next <= N + 1
    <3>1. Right(i + 1)
      BY <1>7, <2>2, <2>7
    <3>2. turn = [valid |-> from[at[i + 1]].valid,
                  params |-> <<p>> \o from[at[i + 1]].params]
      BY <2>2, <2>4, <2>7
    <3>3. turn.valid => \E j \in i..n : at[j] = N + 1
      <4>1. \A j \in (i + 1)..n : j \in i..n
        BY <1>1
      <4>2. turn.valid = from[at[i + 1]].valid
        BY <3>2
      <4> QED BY <3>1, <4>1, <4>2
    <3>4. ASSUME NEW j \in i..n, at[j] = N + 1
          PROVE  turn = [valid |-> TRUE, params |-> SubSeq(ps, i + 1, j)]
      <4>1. j \in (i + 1)..n
        BY <2>6, <3>4
      <4>2. from[at[i + 1]] = [valid |-> TRUE, params |-> SubSeq(ps, (i + 1) + 1, j)]
        BY <3>1, <3>4, <4>1
      <4>3. SubSeq(ps, i + 1, j) = <<p>> \o SubSeq(ps, (i + 1) + 1, j)
        BY <2>1, <4>1, SubSeqRecursiveFirst DEF n
      <4> HIDE DEF turn, p
      <4> DEFINE rest == SubSeq(ps, (i + 1) + 1, j)
                 after == from[at[i + 1]]
                 here == SubSeq(ps, i + 1, j)
      <4>4. /\ after = [valid |-> TRUE, params |-> rest] /\ here = <<p>> \o rest
            /\ turn = [valid |-> after.valid, params |-> <<p>> \o after.params]
        BY <3>2, <4>2, <4>3
      <4> HIDE DEF rest, after, here
      <4>5. after.valid = TRUE /\ after.params = rest
        BY <4>4
      <4>6. turn = [valid |-> TRUE, params |-> here]
        BY <4>4, <4>5, Zenon
      <4> QED BY <4>6 DEF here
    <3> QED BY <3>3, <3>4
  <2>8. CASE ~(next <= N + 1)
    <3>1. at[i + 1] > N + 1 /\ ~turn.valid
      <4>1. at[i + 1] > N + 1
        BY <1>1, <2>2, <2>5, <2>8
      <4> HIDE DEF turn
      <4> QED BY <2>2, <2>4, <2>5, <4>1
    <3>2. ASSUME NEW j \in i..n, at[j] = N + 1
          PROVE  FALSE
      <4>1. j \in 0..n /\ (j = i + 1 \/ i + 1 < j)
        BY <1>1, <2>6, <3>2
      <4>2. i + 1 < j => at[i + 1] < at[j]
        BY <1>3, <2>1, <4>1
      <4>3. at[j] > N + 1
        <5>1. at[j] \in Nat /\ at[i + 1] \in Nat /\ N \in Nat
          BY <1>1, <2>5, <4>1
        <5>2. CASE j = i + 1
          BY <3>1, <5>2
        <5>3. CASE i + 1 < j
          BY <3>1, <4>2, <5>1, <5>3
        <5> QED BY <4>1, <5>2, <5>3
      <4> QED BY <1>1, <3>2, <4>3
    <3> QED BY <3>1, <3>2
  <2> QED BY <2>7, <2>8
<1>8. ASSUME NEW m \in 0..n, \A x \in 0..(m - 1) : x \in S
      PROVE  m \in S
  <2> SUFFICES ASSUME at[n - m] <= N + 1
               PROVE  Right(n - m)
    OBVIOUS
  <2>1. n - m \in 0..n /\ at[n - m] \in Nat
    BY <1>1, <1>4
  <2>2. CASE at[n - m] = N + 1
    BY <1>6, <2>1, <2>2
  <2>3. CASE at[n - m] # N + 1
    <3>1. at[n - m] < N + 1
      BY <1>1, <2>1, <2>3
    <3>2. m # 0
      BY <1>1, <3>1, <2>1 DEF n, N
    <3>3. m - 1 \in 0..(m - 1) /\ n - m < n /\ n - (m - 1) = (n - m) + 1
      BY <1>1, <3>2
    <3>4. at[(n - m) + 1] <= N + 1 => Right((n - m) + 1)
      BY <1>8, <3>3
    <3> QED BY <1>7, <2>1, <3>1, <3>3, <3>4
  <2> QED BY <2>2, <2>3
<1>9. Right(0)
  <2> HIDE DEF S
  <2>1. \A k \in 0..n : (\A x \in 0..(k - 1) : x \in S) => k \in S
    BY <1>8
  <2>2. n \in S
    <3>1. \A k \in 0..n : k \in S
      BY <1>1, <2>1, Induct
    <3> QED BY <1>1, <3>1
  <2>3. at[n - n] <= N + 1 /\ n - n = 0
    BY <1>1 DEF N
  <2> QED BY <2>2, <2>3 DEF S
<1>10. ParseFrom(bytes, pos) = from[at[0]]
  BY <1>1, <1>2 DEF N
<1> QED BY <1>9, <1>10 DEF n, N

\* The highest element of a set of numbers that has its upper bound.
LEMMA MaxTop ==
    ASSUME NEW k \in Nat, NEW s \in SUBSET (1..k), k \in s
    PROVE  Max(s) = k
<1>1. \A y \in s : k >= y
  OBVIOUS
<1>2. \A x \in s : (\A y \in s : x >= y) => x = k
  OBVIOUS
<1>3. Max(s) \in s /\ \A y \in s : Max(s) >= y
  BY <1>1, Zenon DEF Max
<1> QED BY <1>2, <1>3

\* What is inserted behind all that are no higher comes last.
LEMMA InsertedLast ==
    ASSUME NEW ps \in Seq(Params), Sorted(ps), NEW i \in 1..Len(ps)
    PROVE  Inserted(SubSeq(ps, 1, i - 1), ps[i]) = SubSeq(ps, 1, i)
<1> DEFINE q == SubSeq(ps, 1, i - 1)
           e == ps[i]
<1>1. i \in Nat /\ i >= 1 /\ i <= Len(ps) /\ Len(ps) \in Nat /\ e \in Params
  OBVIOUS
<1>2. /\ q \in Seq(Params) /\ Len(q) = i - 1
      /\ \A k \in 1..(i - 1) : q[k] = ps[k]
  BY <1>1
<1>3. \A k \in 1..(i - 1) : q[k].id <= e.id
  BY <1>1, <1>2 DEF Sorted
<1> HIDE DEF q
<1>4. UpTo(q, e.id) = i - 1
  <2>1. {k \in 1..Len(q) : q[k].id <= e.id} = 1..(i - 1)
    BY <1>2, <1>3
  <2>2. Cardinality(1..(i - 1)) = i - 1
    <3>1. 1 \in Int /\ i - 1 \in Int
      BY <1>1
    <3>2. Cardinality(1..(i - 1)) = IF 1 > i - 1 THEN 0 ELSE (i - 1) - 1 + 1
      BY <3>1, FS_Interval
    <3> QED BY <1>1, <3>2
  <2> QED BY <2>1, <2>2 DEF UpTo
<1>5. Inserted(q, e) = (SubSeq(q, 1, (i - 1 + 1) - 1) \o <<e>>) \o SubSeq(q, i - 1 + 1, Len(q))
  BY <1>4 DEF Inserted, InsertAt
<1>6. (i - 1 + 1) - 1 = i - 1 /\ i - 1 + 1 = i
  BY <1>1
<1>7. SubSeq(q, 1, i - 1) = q
  BY <1>2, SubSeqFull
<1>8. SubSeq(q, i, Len(q)) = <<>>
  BY <1>1, <1>2, SubSeqEmpty
<1>9. Inserted(q, e) = (q \o <<e>>) \o <<>>
  BY <1>5, <1>6, <1>7, <1>8
<1>10. (q \o <<e>>) \o <<>> = q \o <<e>>
  <2>1. <<e>> \in Seq(Params)
    BY <1>1
  <2>2. q \o <<e>> \in Seq(Params)
    BY <1>2, <2>1, Joined
  <2> QED BY <2>2, ConcatEmptySeq
<1>11. SubSeq(ps, 1, i) = SubSeq(ps, 1, i - 1) \o <<ps[i]>>
  <2>1. 1 \in 1..Len(ps) /\ i \in 1..Len(ps)
    BY <1>1
  <2> QED BY <1>1, <2>1, SubSeqRecursiveSecond
<1> QED BY <1>9, <1>10, <1>11 DEF q

(* A list that is in order is what inserting its elements one after the     *)
(* other yields.                                                            *)
LEMMA FoldOrdered ==
    ASSUME NEW ps \in Seq(Params), Sorted(ps)
    PROVE  FoldLeft(Inserted, <<>>, ps) = ps
<1> DEFINE n == Len(ps)
           Turn(g, s) == IF s = {} THEN <<>>
                         ELSE Inserted(g[s \ {Max(s)}], ps[Max(s)])
           Fold(g, k) == g = [s \in SUBSET (1..k) |-> Turn(g, s)]
           S == {k \in 0..n : \E g : Fold(g, k)}
           it == CHOOSE h : h = [s \in SUBSET (DOMAIN ps) |-> Turn(h, s)]
<1>1. n \in Nat /\ DOMAIN ps = 1..n
  OBVIOUS
<1>2. FoldLeft(Inserted, <<>>, ps) = it[DOMAIN ps]
  BY DEF FoldLeft, MapThenFoldSet
<1>3. ASSUME NEW k \in 0..n, \A j \in 0..(k - 1) : j \in S
      PROVE  k \in S
  <2>1. CASE k = 0
    <3> DEFINE g == [s \in SUBSET (1..0) |-> <<>>]
    <3>1. \A s \in SUBSET (1..0) : s = {}
      OBVIOUS
    <3>2. Fold(g, 0)
      BY <3>1
    <3> HIDE DEF g
    <3> QED BY <2>1, <3>2
  <2>2. CASE k # 0
    <3>1. k \in Nat /\ k - 1 \in 0..(k - 1) /\ k - 1 \in Nat
      BY <2>2
    <3>2. PICK g : Fold(g, k - 1)
      BY <1>3, <3>1
    <3>3. \A s \in SUBSET (1..(k - 1)) : g[s] = Turn(g, s)
      BY <3>2
    <3> DEFINE h == [s \in SUBSET (1..k) |-> IF k \in s THEN Inserted(g[s \ {k}], ps[k])
                                             ELSE g[s]]
    <3>4. \A s \in SUBSET (1..k) :
              h[s] = IF k \in s THEN Inserted(g[s \ {k}], ps[k]) ELSE g[s]
      OBVIOUS
    <3>5. DOMAIN h = SUBSET (1..k) /\ h = [s \in SUBSET (1..k) |-> h[s]]
      OBVIOUS
    <3>6. ASSUME NEW s \in SUBSET (1..k)
          PROVE  h[s] = Turn(h, s)
      <4> HIDE DEF h
      <4>1. CASE k \in s
        <5>1. Max(s) = k
          BY <3>1, <4>1, MaxTop
        <5>2. s \ {k} \in SUBSET (1..k) /\ k \notin s \ {k}
          OBVIOUS
        <5>3. h[s \ {k}] = g[s \ {k}]
          BY <3>4, <5>2
        <5> QED BY <3>4, <4>1, <5>1, <5>3
      <4>2. CASE k \notin s
        <5>1. s \in SUBSET (1..(k - 1))
          BY <3>1, <4>2
        <5>2. s \ {Max(s)} \in SUBSET (1..k) /\ k \notin s \ {Max(s)}
          BY <4>2
        <5>3. h[s \ {Max(s)}] = g[s \ {Max(s)}]
          BY <3>4, <5>2
        <5> QED BY <3>3, <3>4, <4>2, <5>1, <5>3
      <4> QED BY <4>1, <4>2
    <3> HIDE DEF h
    <3>7. Fold(h, k)
      BY <3>5, <3>6
    <3> QED BY <3>7
  <2> QED BY <2>1, <2>2
<1>4. n \in S
  <2> HIDE DEF S
  <2>1. \A k \in 0..n : (\A j \in 0..(k - 1) : j \in S) => k \in S
    BY <1>3
  <2>2. \A k \in 0..n : k \in S
    BY <1>1, <2>1, Induct
  <2> QED BY <1>1, <2>2
<1>5. it = [s \in SUBSET (DOMAIN ps) |-> Turn(it, s)]
  <2>1. PICK g : Fold(g, n)
    BY <1>4
  <2>2. g = [s \in SUBSET (DOMAIN ps) |-> Turn(g, s)]
    BY <1>1, <2>1
  <2> HIDE DEF Turn
  <2> QED BY <2>2
<1> HIDE DEF it
<1>6. \A s \in SUBSET (1..n) : it[s] = Turn(it, s)
  BY <1>1, <1>5
<1> DEFINE Q == {k \in 0..n : it[1..k] = SubSeq(ps, 1, k)}
<1>7. ASSUME NEW k \in 0..n, \A j \in 0..(k - 1) : j \in Q
      PROVE  k \in Q
  <2>0. 1..k \in SUBSET (1..n)
    OBVIOUS
  <2>1. CASE k = 0
    <3>1. 1..k = {} /\ SubSeq(ps, 1, k) = <<>>
      BY <2>1
    <3> QED BY <1>6, <2>0, <3>1
  <2>2. CASE k # 0
    <3>1. k \in 1..n /\ k \in 1..k /\ k - 1 \in 0..(k - 1) /\ k \in Nat
      BY <1>1, <2>2
    <3>2. Max(1..k) = k
      BY <3>1, MaxTop
    <3>3. (1..k) \ {k} = 1..(k - 1)
      BY <3>1
    <3>4. it[1..k] = Inserted(it[1..(k - 1)], ps[k])
      BY <1>6, <2>0, <3>1, <3>2, <3>3
    <3>5. it[1..(k - 1)] = SubSeq(ps, 1, k - 1)
      BY <1>7, <3>1
    <3> QED BY <3>1, <3>4, <3>5, InsertedLast
  <2> QED BY <2>1, <2>2
<1>8. n \in Q
  <2> HIDE DEF Q
  <2>1. \A k \in 0..n : (\A j \in 0..(k - 1) : j \in Q) => k \in Q
    BY <1>7
  <2>2. \A k \in 0..n : k \in Q
    BY <1>1, <2>1, Induct
  <2> QED BY <1>1, <2>2
<1>9. SubSeq(ps, 1, n) = ps
  BY SubSeqFull
<1> QED BY <1>1, <1>2, <1>8, <1>9

\* The flags, and where the parameters begin behind them.
FlagBytes(ver) == IF HasFlags(ver) THEN Flags ELSE <<>>
Start(ver) == IF HasFlags(ver) THEN 5 ELSE 1

(* What a block of parameters looks like as bytes; its first bytes are      *)
(* those of a block of its first parameters.                                *)
LEMMA BlockLaid ==
    ASSUME NEW ps \in Seq(Params), \A i \in 1..Len(ps) : Sound(ps[i]), NEW ver
    PROVE  LET bytes == WriteParams(ps, ver)
           IN /\ bytes \in Seq(Nat) /\ Len(bytes) >= Start(ver) - 1
              /\ \E at \in Begins(ps, Start(ver)) :
                    /\ IsBlock(bytes, ps, at) /\ at[Len(ps)] = Len(bytes) + 1
                    /\ \A j \in 0..Len(ps) :
                          WriteParams(SubSeq(ps, 1, j), ver) = SubSeq(bytes, 1, at[j] - 1)
<1> DEFINE n == Len(ps)
           ws == [i \in 1..n |-> WriteParam(ps[i])]
           pre == FlagBytes(ver)
           start == Start(ver)
<1>1. n \in Nat
  OBVIOUS
<1>2. /\ pre \in Seq(Nat) /\ Len(pre) = start - 1 /\ start \in Nat /\ start >= 1
  BY DEF FlagBytes, Start, Flags
<1>3. \A i \in 1..n : /\ WriteParam(ps[i]) \in Seq(Nat) /\ Len(ps[i].body) \in Nat
                      /\ Len(WriteParam(ps[i])) = 4 + Len(ps[i].body)
  BY Written
<1>4. /\ ws \in Seq(Seq(Nat)) /\ Len(ws) = n
      /\ \A i \in 1..n : ws[i] = WriteParam(ps[i])
  <2> HIDE DEF n
  <2> QED BY <1>1, <1>3
<1>5. PICK f : f \in Flats(Nat, ws)
  <2> HIDE DEF ws
  <2> QED BY <1>4, FlatsExist
<1> HIDE DEF n, pre, start
<1>6. /\ f \in [0..n -> Seq(Nat)] /\ f[0] = <<>>
      /\ \A i \in 1..n : f[i] = f[i - 1] \o ws[i]
  <2> HIDE DEF ws
  <2> QED BY <1>4, <1>5 DEF Flats
<1>7. \A i \in 0..n : f[i] \in Seq(Nat) /\ Len(f[i]) \in Nat
  <2>1. \A s \in Seq(Nat) : Len(s) \in Nat
    OBVIOUS
  <2> QED BY <1>6, <2>1
<1>8. \A i \in 0..n : \A j \in i..n : /\ Len(f[i]) <= Len(f[j])
                                      /\ \A k \in 1..Len(f[i]) : f[j][k] = f[i][k]
  <2> HIDE DEF ws
  <2> QED BY <1>4, <1>5, FlatPrefix
<1>9. \A i \in 1..n : /\ Len(f[i]) = Len(f[i - 1]) + 4 + Len(ps[i].body)
                      /\ \A k \in 1..(4 + Len(ps[i].body)) :
                             f[i][Len(f[i - 1]) + k] = WriteParam(ps[i])[k]
  <2> TAKE i \in 1..n
  <2> DEFINE a == f[i - 1]
             b == WriteParam(ps[i])
             l == Len(ps[i].body)
  <2>1. i - 1 \in 0..n
    BY <1>1
  <2>2. a \in Seq(Nat) /\ b \in Seq(Nat) /\ Len(b) = 4 + l /\ l \in Nat /\ Len(a) \in Nat
    BY <1>3, <1>7, <2>1
  <2>3. f[i] = a \o b
    BY <1>4, <1>6
  <2> HIDE DEF a, b, l
  <2>4. /\ Len(a \o b) = Len(a) + Len(b)
        /\ \A k \in 1..(Len(a) + Len(b)) :
               (a \o b)[k] = IF k <= Len(a) THEN a[k] ELSE b[k - Len(a)]
    BY <2>2, Joined
  <2>5. \A k \in 1..(4 + l) : /\ Len(a) + k \in 1..(Len(a) + Len(b))
                              /\ ~(Len(a) + k <= Len(a)) /\ (Len(a) + k) - Len(a) = k
    BY <2>2
  <2>6. Len(a) + Len(b) = Len(a) + 4 + l
    BY <2>2
  <2> QED BY <2>3, <2>4, <2>5, <2>6 DEF a, b, l
\* FlattenSeq of the first j.
<1>10. ASSUME NEW j \in 0..n
       PROVE  WriteParams(SubSeq(ps, 1, j), ver) = pre \o f[j]
  <2> DEFINE qs == SubSeq(ps, 1, j)
             vs == [i \in 1..Len(qs) |-> WriteParam(qs[i])]
             g == [i \in 0..j |-> f[i]]
  <2>1. j \in Nat /\ j <= n
    BY <1>1
  <2>2. qs \in Seq(Params) /\ Len(qs) = j /\ \A i \in 1..j : qs[i] = ps[i]
    BY <2>1 DEF n
  <2> HIDE DEF qs
  <2>3. \A i \in 1..j : i \in 1..n /\ i \in 0..j /\ i - 1 \in 0..j
    BY <1>1, <2>1
  <2>4. /\ vs \in Seq(Seq(Nat)) /\ Len(vs) = j
        /\ \A i \in 1..j : vs[i] = ws[i]
    <3>1. \A i \in 1..j : WriteParam(qs[i]) = ws[i] /\ WriteParam(qs[i]) \in Seq(Nat)
      BY <1>3, <1>4, <2>2, <2>3
    <3> HIDE DEF ws
    <3> QED BY <2>1, <2>2, <3>1
  <2>5. /\ g \in [0..j -> Seq(Nat)] /\ g[0] = <<>>
        /\ \A i \in 1..j : g[i] = g[i - 1] \o vs[i]
    <3>1. \A i \in 0..j : i \in 0..n
      BY <1>1, <2>1
    <3>2. \A i \in 0..j : g[i] = f[i] /\ f[i] \in Seq(Nat)
      BY <1>7, <3>1
    <3>3. 0 \in 0..j
      BY <2>1
    <3>4. g \in [0..j -> Seq(Nat)]
      BY <3>2
    <3> HIDE DEF g, vs, ws
    <3> QED BY <1>6, <2>3, <2>4, <3>2, <3>3, <3>4
  <2>6. FlattenSeq(vs) = g[j] /\ g[j] = f[j]
    <3>1. g \in Flats(Nat, vs)
      <4> HIDE DEF g, vs
      <4> QED BY <2>4, <2>5 DEF Flats
    <3>2. g[j] = f[j]
      BY <2>1
    <3> HIDE DEF g, vs
    <3> QED BY <2>4, <3>1, <3>2, Flattened
  <2> QED BY <2>6 DEF WriteParams, pre, FlagBytes, qs
<1> DEFINE bytes == pre \o f[n]
           at == [i \in 0..n |-> start + Len(f[i])]
<1>11. WriteParams(ps, ver) = bytes
  <2>1. n \in 0..n
    BY <1>1
  <2>2. SubSeq(ps, 1, n) = ps
    BY SubSeqFull DEF n
  <2> QED BY <1>10, <2>1, <2>2
<1>12. /\ bytes \in Seq(Nat) /\ Len(bytes) = (start - 1) + Len(f[n])
       /\ \A k \in 1..Len(f[n]) : bytes[(start - 1) + k] = f[n][k]
       /\ \A k \in 1..(start - 1) : bytes[k] = pre[k]
  <2> DEFINE b == f[n]
  <2>1. b \in Seq(Nat) /\ Len(b) \in Nat /\ Len(pre) \in Nat /\ start - 1 \in Nat
    BY <1>1, <1>2, <1>7
  <2> HIDE DEF b
  <2>2. /\ pre \o b \in Seq(Nat) /\ Len(pre \o b) = Len(pre) + Len(b)
        /\ \A k \in 1..(Len(pre) + Len(b)) :
               (pre \o b)[k] = IF k <= Len(pre) THEN pre[k] ELSE b[k - Len(pre)]
    BY <1>2, <2>1, Joined
  <2> DEFINE c == pre \o b
             l == start - 1
  <2> HIDE DEF c
  <2>3. l \in Nat /\ Len(pre) = l
    BY <1>2, <2>1
  <2> HIDE DEF l
  <2>4. /\ \A k \in 1..Len(b) : l + k \in 1..(l + Len(b)) /\ ~(l + k <= l) /\ (l + k) - l = k
        /\ \A k \in 1..l : k \in 1..(l + Len(b)) /\ k <= l
    BY <2>1, <2>3
  <2>5. /\ c \in Seq(Nat) /\ Len(c) = l + Len(b)
        /\ \A k \in 1..Len(b) : c[l + k] = b[k]
        /\ \A k \in 1..l : c[k] = pre[k]
    BY <2>2, <2>3, <2>4 DEF c
  <2> QED BY <2>5 DEF b, c, l
<1> HIDE DEF bytes, ws
<1>13. \A i \in 0..n : at[i] = start + Len(f[i]) /\ at[i] \in Nat
  BY <1>2, <1>7
<1>14. at \in [0..n -> Nat]
  BY <1>13
<1> HIDE DEF at
<1>15. at \in Begins(ps, start)
  <2>1. at[0] = start
    <3>1. 0 \in 0..n /\ Len(f[0]) = 0
      BY <1>1, <1>6
    <3> QED BY <1>2, <1>13, <3>1
  <2>2. ASSUME NEW i \in 1..n
        PROVE  at[i] = at[i - 1] + 4 + Len(ps[i].body)
    <3>1. i \in 0..n /\ i - 1 \in 0..n
      BY <1>1
    <3>2. Len(f[i]) = Len(f[i - 1]) + 4 + Len(ps[i].body) /\ Len(ps[i].body) \in Nat
      BY <1>3, <1>9
    <3>3. at[i] = start + Len(f[i]) /\ at[i - 1] = start + Len(f[i - 1])
      BY <1>13, <3>1
    <3>4. Len(f[i - 1]) \in Nat
      BY <1>7, <3>1
    <3> DEFINE a == Len(f[i - 1])
               l == Len(ps[i].body)
    <3>5. /\ a \in Nat /\ l \in Nat /\ start \in Nat
          /\ at[i] = start + (a + 4 + l) /\ at[i - 1] = start + a
      BY <1>2, <3>2, <3>3, <3>4
    <3> HIDE DEF a, l
    <3>6. at[i] = at[i - 1] + 4 + l
      BY <3>5
    <3> QED BY <3>6 DEF l
  <2> QED BY <1>14, <2>1, <2>2 DEF Begins, n
<1>16. IsBlock(bytes, ps, at)
  <2> SUFFICES ASSUME NEW i \in 1..n, NEW k \in 1..(4 + Len(ps[i].body))
               PROVE  bytes[at[i - 1] + k - 1] = WriteParam(ps[i])[k]
    BY DEF IsBlock, Lies, n
  <2> DEFINE o == Len(f[i - 1])
             l == Len(ps[i].body)
  <2>1. i \in 0..n /\ i - 1 \in 0..n /\ n \in i..n
    BY <1>1
  <2>2. o \in Nat /\ l \in Nat /\ k \in 1..(4 + l)
    BY <1>3, <1>7, <2>1
  <2>3. f[i][o + k] = WriteParam(ps[i])[k] /\ Len(f[i]) = o + 4 + l
    BY <1>9
  <2>4. Len(f[i]) <= Len(f[n]) /\ \A m \in 1..Len(f[i]) : f[n][m] = f[i][m]
    BY <1>8, <2>1
  <2>5. at[i - 1] = start + o
    BY <1>13, <2>1
  <2>6. Len(f[n]) \in Nat
    BY <1>1, <1>7
  <2> HIDE DEF o, l
  <2>7. o + k \in 1..Len(f[i]) /\ o + k \in 1..Len(f[n])
    BY <2>2, <2>3, <2>4, <2>6
  <2>8. at[i - 1] + k - 1 = (start - 1) + (o + k)
    BY <1>2, <2>2, <2>5
  <2> QED BY <1>12, <2>3, <2>4, <2>7, <2>8
<1>17. at[n] = Len(bytes) + 1 /\ Len(bytes) >= start - 1
  <2>1. at[n] = start + Len(f[n]) /\ Len(f[n]) \in Nat
    BY <1>1, <1>7, <1>13
  <2> QED BY <1>2, <1>12, <2>1
<1>18. ASSUME NEW j \in 0..n
       PROVE  WriteParams(SubSeq(ps, 1, j), ver) = SubSeq(bytes, 1, at[j] - 1)
  <2> DEFINE a == f[j]
             l == start - 1
             c == pre \o a
             d == SubSeq(bytes, 1, at[j] - 1)
  <2>1. /\ a \in Seq(Nat) /\ Len(a) \in Nat /\ l \in Nat /\ Len(pre) = l /\ at[j] - 1 = l + Len(a)
        /\ Len(f[n]) \in Nat
    BY <1>1, <1>2, <1>7, <1>13
  <2>2. Len(a) <= Len(f[n]) /\ \A m \in 1..Len(a) : f[n][m] = a[m]
    <3>1. n \in j..n
      BY <1>1
    <3> QED BY <1>8, <3>1
  <2> HIDE DEF a, l
  <2>3. /\ c \in Seq(Nat) /\ Len(c) = l + Len(a)
        /\ \A k \in 1..(l + Len(a)) : c[k] = IF k <= l THEN pre[k] ELSE a[k - l]
    <3>1. /\ pre \o a \in Seq(Nat) /\ Len(pre \o a) = Len(pre) + Len(a)
          /\ \A k \in 1..(Len(pre) + Len(a)) :
                 (pre \o a)[k] = IF k <= Len(pre) THEN pre[k] ELSE a[k - Len(pre)]
      BY <1>2, <2>1, Joined
    <3> QED BY <2>1, <3>1
  <2>4. /\ d \in Seq(Nat) /\ Len(d) = l + Len(a)
        /\ \A k \in 1..(l + Len(a)) : d[k] = bytes[k]
    <3> DEFINE m == l + Len(a)
    <3>1. m \in Nat /\ m <= Len(bytes) /\ Len(bytes) \in Nat /\ at[j] - 1 = m
      BY <1>12, <2>1, <2>2 DEF l
    <3> HIDE DEF m
    <3>2. /\ SubSeq(bytes, 1, m) \in Seq(Nat) /\ Len(SubSeq(bytes, 1, m)) = m
          /\ \A k \in 1..m : SubSeq(bytes, 1, m)[k] = bytes[k]
      BY <1>12, <3>1
    <3> QED BY <3>1, <3>2 DEF m
  <2> HIDE DEF c, d
  <2>5. ASSUME NEW k \in 1..(l + Len(a))
        PROVE  c[k] = d[k]
    <3>1. CASE k <= l
      <4>1. k \in 1..l
        BY <2>1, <3>1
      <4>2. bytes[k] = pre[k]
        BY <1>12, <4>1 DEF l
      <4> QED BY <2>3, <2>4, <3>1, <4>2
    <3>2. CASE ~(k <= l)
      <4>1. k - l \in 1..Len(a) /\ k - l \in 1..Len(f[n]) /\ l + (k - l) = k
        BY <2>1, <2>2, <3>2
      <4>2. bytes[l + (k - l)] = f[n][k - l]
        BY <1>12, <4>1 DEF l
      <4>3. f[n][k - l] = a[k - l]
        BY <2>2, <4>1
      <4> QED BY <2>3, <2>4, <3>2, <4>1, <4>2, <4>3
    <3> QED BY <3>1, <3>2
  <2>6. c = d
    BY <2>3, <2>4, <2>5, SeqEqual
  <2> QED BY <1>10, <2>6 DEF a, c, d
<1> QED BY <1>11, <1>12, <1>15, <1>16, <1>17, <1>18 DEF n, start

(* What a reader of a block finds in its first bytes.                       *)
LEMMA CutRead ==
    ASSUME NEW ps \in Seq(Params), Sorted(ps), Writable(ps), NEW ver,
           NEW m \in (Start(ver) - 1)..Len(WriteParams(ps, ver))
    PROVE  LET part == SubSeq(WriteParams(ps, ver), 1, m)
               block == ParseParams(part, ver)
           IN /\ block.valid => WriteParams(block.params, ver) = part
              /\ m = Len(WriteParams(ps, ver)) =>
                     block = [valid |-> TRUE, params |-> ps]
<1> DEFINE n == Len(ps)
           bytes == WriteParams(ps, ver)
           start == Start(ver)
           part == SubSeq(bytes, 1, m)
           read == ParseFrom(part, start)
           block == ParseParams(part, ver)
<1>1. \A i \in 1..n : Sound(ps[i])
  <2>1. \A i \in 1..n : ps[i] \in Params
    OBVIOUS
  <2> QED BY <2>1 DEF Sound, Writable
<1>2. bytes \in Seq(Nat) /\ Len(bytes) >= start - 1
  BY <1>1, BlockLaid
<1>3. PICK at \in Begins(ps, start) :
          /\ IsBlock(bytes, ps, at) /\ at[n] = Len(bytes) + 1
          /\ \A j \in 0..n : WriteParams(SubSeq(ps, 1, j), ver) = SubSeq(bytes, 1, at[j] - 1)
  BY <1>1, BlockLaid
<1>4. n \in Nat /\ start \in {1, 5} /\ (start = 5 <=> HasFlags(ver))
  BY DEF Start
<1> HIDE DEF bytes, start
<1>5. m \in Nat /\ m <= Len(bytes) /\ Len(bytes) \in Nat /\ start <= m + 1
  BY <1>2, <1>4 DEF bytes, start
<1>6. part \in Seq(Nat) /\ Len(part) = m /\ \A k \in 1..m : part[k] = bytes[k]
  BY <1>2, <1>5
<1> HIDE DEF part
<1>7. start \in 1..(Len(part) + 1)
  BY <1>4, <1>5, <1>6
<1>8. IsBlock(part, ps, at)
  <2> SUFFICES ASSUME NEW i \in 1..n, NEW k \in 1..(4 + Len(ps[i].body)),
                      at[i - 1] + k - 1 <= Len(part)
               PROVE  part[at[i - 1] + k - 1] = WriteParam(ps[i])[k]
    BY DEF IsBlock, Lies
  <2>1. i - 1 \in 0..n /\ Len(ps[i].body) \in Nat
    BY <1>1, <1>4, Written
  <2>2. at[i - 1] \in Nat /\ at[i - 1] >= 1
    <3>1. at \in [0..n -> Nat] /\ at[0] = start
      BY DEF Begins
    <3>2. i - 1 = 0 \/ at[0] < at[i - 1]
      <4>1. start \in Nat /\ 0 \in 0..n
        BY <1>4
      <4>2. i - 1 = 0 \/ 0 < i - 1
        BY <2>1
      <4> QED BY <1>1, <2>1, <4>1, <4>2, PlacesGrow
    <3>3. start \in Nat /\ start >= 1
      BY <1>4
    <3>4. at[i - 1] \in Nat
      BY <2>1, <3>1
    <3> QED BY <3>1, <3>2, <3>3, <3>4
  <2> DEFINE x == at[i - 1] + k - 1
  <2>3. x \in 1..m /\ x <= Len(bytes)
    <3> DEFINE a == at[i - 1]
               l == Len(ps[i].body)
    <3>1. a \in Nat /\ a >= 1 /\ l \in Nat /\ k \in 1..(4 + l) /\ a + k - 1 <= m
      BY <1>6, <2>1, <2>2
    <3> HIDE DEF a, l
    <3>2. a + k - 1 \in 1..m /\ a + k - 1 <= Len(bytes)
      BY <1>5, <3>1
    <3> QED BY <3>2 DEF a
  <2>4. bytes[x] = WriteParam(ps[i])[k]
    BY <1>3, <2>3 DEF IsBlock, Lies
  <2> HIDE DEF x
  <2>5. part[x] = WriteParam(ps[i])[k]
    BY <1>6, <2>3, <2>4
  <2> QED BY <2>5 DEF x
<1>9. at[n] >= Len(part) + 1
  BY <1>3, <1>5, <1>6
<1>10. /\ read.valid => \E j \in 0..n : at[j] = m + 1
       /\ \A j \in 0..n : at[j] = m + 1 =>
              read = [valid |-> TRUE, params |-> SubSeq(ps, 1, j)]
  <2> HIDE DEF n
  <2>1. /\ read.valid => \E j \in 0..n : at[j] = Len(part) + 1
        /\ \A j \in 0..n : at[j] = Len(part) + 1 =>
               read = [valid |-> TRUE, params |-> SubSeq(ps, 1, j)]
    BY <1>1, <1>6, <1>7, <1>8, <1>9, Parsed DEF n
  <2> QED BY <1>6, <2>1
<1>11. block = [valid |-> read.valid, params |-> FoldLeft(Inserted, <<>>, read.params)]
  <2>1. (IF HasFlags(ver) /\ Len(part) >= 4 THEN 5 ELSE 1) = start
    BY <1>4, <1>5, <1>6
  <2> QED BY <2>1 DEF ParseParams
<1> HIDE DEF read, block
<1>12. ASSUME NEW j \in 0..n, at[j] = m + 1
       PROVE  block = [valid |-> TRUE, params |-> SubSeq(ps, 1, j)]
  <2> DEFINE q == SubSeq(ps, 1, j)
  <2>1. read.valid = TRUE /\ read.params = q
    <3> HIDE DEF q
    <3>1. read = [valid |-> TRUE, params |-> q]
      BY <1>10, <1>12 DEF q
    <3> QED BY <3>1
  <2>2. q \in Seq(Params) /\ Len(q) = j /\ \A k \in 1..j : q[k] = ps[k]
    BY <1>4
  <2>3. Sorted(q)
    <3>1. \A k \in 1..j : k \in 1..n
      BY <1>4
    <3> HIDE DEF q
    <3> QED BY <2>2, <3>1 DEF Sorted
  <2> HIDE DEF q
  <2>4. FoldLeft(Inserted, <<>>, q) = q
    BY <2>2, <2>3, FoldOrdered
  <2> QED BY <1>11, <2>1, <2>4 DEF q
<1>13. ASSUME block.valid
       PROVE  WriteParams(block.params, ver) = part
  <2>1. read.valid
    BY <1>11, <1>13
  <2>2. PICK j \in 0..n : at[j] = m + 1
    BY <1>10, <2>1
  <2>3. block.params = SubSeq(ps, 1, j)
    BY <1>12, <2>2
  <2>4. at[j] - 1 = m
    BY <1>5, <2>2
  <2> QED BY <1>3, <2>3, <2>4 DEF part
<1>14. ASSUME m = Len(bytes)
       PROVE  block = [valid |-> TRUE, params |-> ps]
  <2>1. n \in 0..n /\ at[n] = m + 1
    BY <1>3, <1>4, <1>14
  <2>2. SubSeq(ps, 1, n) = ps
    BY SubSeqFull
  <2> QED BY <1>12, <2>1, <2>2
<1> QED BY <1>13, <1>14 DEF block, part, bytes

(* What a reader of a block finds when not even the flags are left.         *)
LEMMA FlagsCut ==
    ASSUME NEW part \in Seq(Nat), NEW ver, HasFlags(ver), 4 > Len(part)
    PROVE  ParseParams(part, ver) = [valid |-> Len(part) = 0, params |-> <<>>]
<1>1. Len(part) \in Nat /\ 1 \in 1..(Len(part) + 1)
  OBVIOUS
<1>2. PICK from : ParseFrom(part, 1) = from[1] /\ from[1] = LoopTurn(part, from, 1)
  BY <1>1, ParseLoop
<1>3. LoopTurn(part, from, 1) = [valid |-> Len(part) = 0, params |-> <<>>]
  <2>1. 1 + 3 > Len(part) /\ (1 = Len(part) + 1 <=> Len(part) = 0)
    BY <1>1
  <2> QED BY <2>1 DEF LoopTurn
<1>4. ~(HasFlags(ver) /\ Len(part) >= 4)
  BY <1>1
<1>5. FoldLeft(Inserted, <<>>, <<>>) = <<>>
  <2>1. <<>> \in Seq(Params) /\ Sorted(<<>>)
    BY DEF Sorted
  <2> QED BY <2>1, FoldOrdered
<1>6. ParseFrom(part, 1) = [valid |-> Len(part) = 0, params |-> <<>>]
  BY <1>2, <1>3
<1>7. ParseParams(part, ver)
        = [valid |-> ParseFrom(part, 1).valid,
           params |-> FoldLeft(Inserted, <<>>, ParseFrom(part, 1).params)]
  BY <1>4 DEF ParseParams
<1> QED BY <1>5, <1>6, <1>7

(* A block that was cut off anywhere is found invalid, or was cut between   *)
(* two parameters and yields those before the cut: for blocks of any size,  *)
(* and any number of values of a byte. A cut that leaves a part of the      *)
(* flags is seen as well; only one that leaves no byte at all of a block    *)
(* with flags is taken for a valid block, and that one is empty.            *)
THEOREM CutsSeen == ParSpec => []CutsAreSeen
<1>1. ParTypeOK => CutsAreSeen
  <2> DEFINE Part(ver, m) == SubSeq(WriteParams(m_params, ver), 1, m)
             Block(ver, m) == ParseParams(Part(ver, m), ver)
  <2> SUFFICES ASSUME ParTypeOK, NEW ver \in Versions,
                      NEW m \in 0..Len(WriteParams(m_params, ver)),
                      Writable(m_params), Block(ver, m).valid
               PROVE  \/ WriteParams(Block(ver, m).params, ver) = Part(ver, m)
                      \/ m = 0 /\ HasFlags(ver) /\ Block(ver, m).params = <<>>
    BY DEF CutsAreSeen
  <2>1. m_params \in Seq(Params) /\ Sorted(m_params)
    BY DEF ParTypeOK, Sorted
  <2>2. WriteParams(m_params, ver) \in Seq(Nat)
    <3>1. \A i \in 1..Len(m_params) : m_params[i] \in Params
      BY <2>1
    <3>2. \A i \in 1..Len(m_params) : Sound(m_params[i])
      BY <3>1 DEF Sound, Writable
    <3> QED BY <2>1, <3>2, BlockLaid
  <2>3. CASE m >= Start(ver) - 1
    <3>1. m \in (Start(ver) - 1)..Len(WriteParams(m_params, ver))
      BY <2>3 DEF Start
    <3> QED BY <2>1, <3>1, CutRead
  <2>4. CASE ~(m >= Start(ver) - 1)
    <3>1. HasFlags(ver) /\ m < 4
      BY <2>4 DEF Start
    <3>2. Part(ver, m) \in Seq(Nat) /\ Len(Part(ver, m)) = m
      BY <2>2
    <3>3. Block(ver, m) = [valid |-> m = 0, params |-> <<>>]
      BY <3>1, <3>2, FlagsCut
    <3>4. Block(ver, m).params = <<>> /\ (Block(ver, m).valid => m = 0)
      <4> DEFINE block == Block(ver, m)
      <4>1. block = [valid |-> m = 0, params |-> <<>>]
        BY <3>3
      <4> HIDE DEF block
      <4>2. block.params = <<>>
        BY <4>1
      <4>3. block.valid <=> m = 0
        BY <4>1, Zenon
      <4> QED BY <4>2, <4>3 DEF block
    <3> QED BY <3>1, <3>4
  <2> QED BY <2>3, <2>4
<1> QED BY <1>1, BlockOrdered, PTL

(* What a reader finds of a reply whose status message is one of these as   *)
(* it is kept: never set, or set to no character or to one. Where it was    *)
(* never set the parameters are found as well.                              *)
LEMMA ReplyRead ==
    ASSUME NEW ps \in Seq(Params), Sorted(ps), Writable(ps),
           NEW ver \in Versions, NEW type \in ParamIds,
           NEW stored \in {<<>>, << 0 >>, << 1, 0 >>}
    PROVE  LET reply == ParseReply(WriteReply(ver, type, 1, 0, stored, ps))
               message == IF stored = << 1, 0 >> THEN << 1 >> ELSE <<>>
           IN /\ reply.type = type /\ reply.reqID = 1 /\ reply.status = 0
              /\ reply.message = message
              /\ stored = <<>> =>
                     reply = [type |-> type, reqID |-> 1, status |-> 0, message |-> message,
                              valid |-> TRUE, params |-> ps]
<1> DEFINE w == WriteParams(ps, ver)
           d == WriteReply(ver, type, 1, 0, stored, ps)
           q == (type \div Radix) % Radix
           r == type % Radix
           h == (((<<ver>> \o Short(type)) \o <<1, 0>>) \o << 0 >>) \o stored \o << 0 >>
           y == Len(h)
           z == IF stored = << 1, 0 >> THEN 8 ELSE 7
<1>1. ps \in Seq(Params) /\ Sorted(ps)
  OBVIOUS
<1>2. /\ ver \in Nat /\ type \in 0..(Radix * Radix - 1)
  BY ParAssumption
<1>3. /\ Short(type) = <<q, r>> /\ q \in Nat /\ r \in Nat
      /\ q * Radix + r = type
  <2>1. Short(type) = <<q, r>>
    BY DEF Short
  <2>2. Short(type) \in Seq(0..(Radix - 1)) /\ Len(Short(type)) = 2
        /\ ShortAt(Short(type), 1) = type
    BY <1>2, NumbersKept
  <2> DEFINE a == Short(type)
  <2>3. a[1] \in 0..(Radix - 1) /\ a[2] \in 0..(Radix - 1)
    <3> DEFINE D == 0..(Radix - 1)
    <3>1. a \in Seq(D) /\ Len(a) = 2
      BY <2>2
    <3> HIDE DEF a, D
    <3>2. 1 \in 1..Len(a) /\ 2 \in 1..Len(a)
      BY <3>1
    <3>3. a[1] \in D /\ a[2] \in D
      BY <3>1, <3>2, ElementOfSeq
    <3> QED BY <3>3 DEF D
  <2> HIDE DEF q, r
  <2>4. a[1] = q /\ a[2] = r
    BY <2>1
  <2>5. q \in Nat /\ r \in Nat
    BY <2>3, <2>4, ParAssumption
  <2>6. a[1] * Radix + a[1 + 1] = type
    BY <2>2 DEF ShortAt
  <2>7. 1 + 1 = 2
    OBVIOUS
  <2> QED BY <2>1, <2>4, <2>5, <2>6, <2>7
<1> HIDE DEF q, r
<1>4. /\ w \in Seq(Nat) /\ Len(w) \in Nat
      /\ ParseParams(w, ver) = [valid |-> TRUE, params |-> ps]
  <2>1. \A i \in 1..Len(ps) : Sound(ps[i])
    <3>1. \A i \in 1..Len(ps) : ps[i] \in Params
      BY <1>1
    <3> QED BY <3>1 DEF Sound, Writable
  <2>2. w \in Seq(Nat) /\ Len(w) >= Start(ver) - 1
    BY <1>1, <2>1, BlockLaid
  <2>3. Start(ver) \in {1, 5} /\ Len(w) \in Nat
    BY <2>2 DEF Start
  <2>4. Len(w) \in (Start(ver) - 1)..Len(w)
    BY <2>2, <2>3
  <2>5. ParseParams(SubSeq(w, 1, Len(w)), ver) = [valid |-> TRUE, params |-> ps]
    BY <1>1, <2>4, CutRead
  <2>6. SubSeq(w, 1, Len(w)) = w
    BY <2>2, SubSeqFull
  <2> QED BY <2>2, <2>3, <2>5, <2>6
<1>5. d = (h \o w) \o Crc
  BY DEF WriteReply, WriteSpecificHeaderPart
<1>6. /\ h \in Seq(Nat) /\ y \in 7..9 /\ z \in 7..8 /\ z <= y /\ (stored = <<>> => y = z)
      /\ h[1] = ver /\ h[2] = q /\ h[3] = r /\ h[4] = 1 /\ h[6] = 0 /\ h[z] = 0
      /\ z = 8 => h[7] = 1
  <2> HIDE DEF w, d
  <2> DEFINE a == <<q, r>>
             v == <<ver>>
             o == <<1, 0>>
             t == << 0 >>
  <2>1. /\ a \in Seq(Nat) /\ Len(a) = 2 /\ a[1] = q /\ a[2] = r
        /\ v \in Seq(Nat) /\ Len(v) = 1 /\ v[1] = ver
        /\ o \in Seq(Nat) /\ Len(o) = 2 /\ o[1] = 1
        /\ t \in Seq(Nat) /\ Len(t) = 1 /\ t[1] = 0
    BY <1>2, <1>3
  <2>2. /\ stored \in Seq(Nat) /\ Len(stored) \in 0..2
        /\ stored = <<>> => Len(stored) = 0 /\ z = 7
        /\ stored = << 0 >> => Len(stored) = 1 /\ stored[1] = 0 /\ z = 7
        /\ stored = << 1, 0 >> => /\ Len(stored) = 2 /\ stored[1] = 1 /\ stored[2] = 0
                                /\ z = 8
    <3>1. CASE stored = <<>>
      BY <3>1
    <3>2. CASE stored = << 0 >>
      BY <3>2
    <3>3. CASE stored = << 1, 0 >>
      BY <3>3
    <3> QED BY <3>1, <3>2, <3>3
  <2>3. h = (((v \o a) \o o) \o t) \o stored \o t
    BY <1>3
  <2> HIDE DEF a, v, o, t, h, z
  <2> DEFINE b == v \o a
             u == b \o o
             c == u \o t
             e == c \o stored
  <2>4. b \in Seq(Nat) /\ Len(b) = 3 /\ b[1] = ver /\ b[2] = q /\ b[3] = r
    <3>1. /\ b \in Seq(Nat) /\ Len(b) = Len(v) + Len(a)
          /\ \A k \in 1..(Len(v) + Len(a)) :
                 b[k] = IF k <= Len(v) THEN v[k] ELSE a[k - Len(v)]
      BY <2>1, Joined
    <3> HIDE DEF b
    <3> QED BY <2>1, <3>1
  <2> HIDE DEF b
  <2>5. /\ u \in Seq(Nat) /\ Len(u) = 5 /\ u[1] = ver /\ u[2] = q /\ u[3] = r /\ u[4] = 1
    <3>1. /\ u \in Seq(Nat) /\ Len(u) = Len(b) + Len(o)
          /\ \A k \in 1..(Len(b) + Len(o)) :
                 u[k] = IF k <= Len(b) THEN b[k] ELSE o[k - Len(b)]
      BY <2>1, <2>4, Joined
    <3> HIDE DEF u
    <3> QED BY <2>1, <2>4, <3>1
  <2> HIDE DEF u
  <2>6. /\ c \in Seq(Nat) /\ Len(c) = 6 /\ c[1] = ver /\ c[2] = q /\ c[3] = r
        /\ c[4] = 1 /\ c[6] = 0
    <3>1. /\ c \in Seq(Nat) /\ Len(c) = Len(u) + Len(t)
          /\ \A k \in 1..(Len(u) + Len(t)) :
                 c[k] = IF k <= Len(u) THEN u[k] ELSE t[k - Len(u)]
      BY <2>1, <2>5, Joined
    <3> HIDE DEF c
    <3> QED BY <2>1, <2>5, <3>1
  <2> HIDE DEF c
  <2>7. /\ e \in Seq(Nat) /\ Len(e) = 6 + Len(stored)
        /\ \A k \in 1..6 : e[k] = c[k]
        /\ \A k \in 1..Len(stored) : e[6 + k] = stored[k]
    <3>1. /\ e \in Seq(Nat) /\ Len(e) = Len(c) + Len(stored)
          /\ \A k \in 1..(Len(c) + Len(stored)) :
                 e[k] = IF k <= Len(c) THEN c[k] ELSE stored[k - Len(c)]
      BY <2>2, <2>6, Joined
    <3> DEFINE l == Len(stored)
    <3> HIDE DEF e, l
    <3>2. l \in Nat /\ Len(e) = 6 + l /\ e \in Seq(Nat)
          /\ \A k \in 1..(6 + l) : e[k] = IF k <= 6 THEN c[k] ELSE stored[k - 6]
      BY <2>2, <2>6, <3>1 DEF l
    <3>3. /\ \A k \in 1..6 : k \in 1..(6 + l) /\ k <= 6
          /\ \A k \in 1..l : 6 + k \in 1..(6 + l) /\ ~(6 + k <= 6) /\ (6 + k) - 6 = k
      BY <3>2
    <3> QED BY <3>2, <3>3 DEF l
  <2>8. /\ h \in Seq(Nat) /\ Len(h) = 7 + Len(stored)
        /\ \A k \in 1..(6 + Len(stored)) : h[k] = e[k]
        /\ h[7 + Len(stored)] = 0
    <3>1. /\ e \o t \in Seq(Nat) /\ Len(e \o t) = Len(e) + Len(t)
          /\ \A k \in 1..(Len(e) + Len(t)) :
                 (e \o t)[k] = IF k <= Len(e) THEN e[k] ELSE t[k - Len(e)]
      <4>1. e \in Seq(Nat) /\ t \in Seq(Nat)
        BY <2>1, <2>7
      <4> QED BY <4>1, Joined
    <3>2. h = e \o t
      BY <2>3 DEF b, u, c, e
    <3> DEFINE l == Len(stored)
    <3> HIDE DEF l, e
    <3>3. l \in Nat /\ Len(e) = 6 + l /\ Len(t) = 1 /\ t[1] = 0
      BY <2>1, <2>2, <2>7 DEF l
    <3>4. /\ h \in Seq(Nat) /\ Len(h) = (6 + l) + 1
          /\ \A k \in 1..((6 + l) + 1) :
                 h[k] = IF k <= 6 + l THEN e[k] ELSE t[k - (6 + l)]
      BY <3>1, <3>2, <3>3
    <3>5. \A k \in 1..(6 + l) : k \in 1..((6 + l) + 1) /\ k <= 6 + l
      BY <3>3
    <3>6. \A k \in 1..(6 + l) : h[k] = e[k]
      BY <3>4, <3>5
    <3>7. /\ 7 + l \in 1..((6 + l) + 1) /\ ~(7 + l <= 6 + l)
          /\ (7 + l) - (6 + l) = 1 /\ (6 + l) + 1 = 7 + l
      BY <3>3
    <3>8. h[7 + l] = t[1]
      BY <3>4, <3>7
    <3> QED BY <3>3, <3>4, <3>6, <3>7, <3>8 DEF l
  <2> HIDE DEF e
  <2>9. /\ h[1] = ver /\ h[2] = q /\ h[3] = r /\ h[4] = 1 /\ h[6] = 0
    <3>1. \A k \in 1..6 : h[k] = c[k]
      <4>1. \A k \in 1..6 : k \in 1..(6 + Len(stored))
        BY <2>2
      <4> QED BY <2>7, <2>8, <4>1
    <3>2. 1 \in 1..6 /\ 2 \in 1..6 /\ 3 \in 1..6 /\ 4 \in 1..6 /\ 6 \in 1..6
      OBVIOUS
    <3> QED BY <2>6, <3>1, <3>2
  <2>10. \A k \in 1..Len(stored) : h[6 + k] = stored[k]
    <3>1. \A k \in 1..Len(stored) : 6 + k \in 1..(6 + Len(stored))
      BY <2>2
    <3> QED BY <2>7, <2>8, <3>1
  <2>11. CASE stored = <<>>
    BY <2>2, <2>8, <2>9, <2>11
  <2>12. CASE stored = << 0 >>
    <3>1. 1 \in 1..Len(stored) /\ 6 + 1 = 7 /\ stored # <<>>
      BY <2>2, <2>12
    <3> QED BY <2>2, <2>8, <2>9, <2>10, <2>12, <3>1
  <2>13. CASE stored = << 1, 0 >>
    <3>1. /\ 1 \in 1..Len(stored) /\ 2 \in 1..Len(stored)
          /\ 6 + 1 = 7 /\ 6 + 2 = 8 /\ stored # <<>>
      BY <2>2, <2>13
    <3> QED BY <2>2, <2>8, <2>9, <2>10, <2>13, <3>1
  <2> QED BY <2>11, <2>12, <2>13
<1> HIDE DEF w, d, h
<1>7. Crc \in Seq(Nat) /\ Len(Crc) = 4
  BY DEF Crc
<1>8. /\ d \in Seq(Nat) /\ Len(d) = (y + Len(w)) + 4
      /\ \A k \in 1..y : d[k] = h[k]
      /\ \A k \in 1..Len(w) : d[y + k] = w[k]
  <2> HIDE DEF y
  <2>1. /\ h \o w \in Seq(Nat) /\ Len(h \o w) = Len(h) + Len(w)
        /\ \A k \in 1..(Len(h) + Len(w)) :
               (h \o w)[k] = IF k <= Len(h) THEN h[k] ELSE w[k - Len(h)]
    BY <1>4, <1>6, Joined
  <2> DEFINE e == h \o w
  <2> HIDE DEF e
  <2>2. /\ e \in Seq(Nat) /\ Len(e) = y + Len(w)
        /\ \A k \in 1..(y + Len(w)) : e[k] = IF k <= y THEN h[k] ELSE w[k - y]
    BY <2>1 DEF e, y
  <2>3. /\ e \o Crc \in Seq(Nat) /\ Len(e \o Crc) = Len(e) + Len(Crc)
        /\ \A k \in 1..(Len(e) + Len(Crc)) :
               (e \o Crc)[k] = IF k <= Len(e) THEN e[k] ELSE Crc[k - Len(e)]
    BY <1>7, <2>2, Joined
  <2>4. d = e \o Crc
    BY <1>5 DEF e
  <2>5. y \in Nat
    BY <1>6
  <2>6. /\ d \in Seq(Nat) /\ Len(d) = (y + Len(w)) + 4
        /\ \A k \in 1..(y + Len(w)) : d[k] = e[k]
    <3>1. \A k \in 1..(y + Len(w)) : /\ k \in 1..((y + Len(w)) + 4)
                                     /\ k <= y + Len(w)
      BY <1>4, <2>5
    <3> QED BY <1>7, <2>2, <2>3, <2>4, <3>1
  <2>7. /\ \A k \in 1..y : k \in 1..(y + Len(w)) /\ k <= y
        /\ \A k \in 1..Len(w) : /\ y + k \in 1..(y + Len(w)) /\ ~(y + k <= y)
                                /\ (y + k) - y = k
    BY <1>4, <2>5
  <2> QED BY <2>2, <2>6, <2>7
<1> HIDE DEF y, z
<1>9. /\ d[1] = ver /\ d[2] = q /\ d[3] = r /\ d[4] = 1 /\ d[6] = 0 /\ d[z] = 0
      /\ z = 8 => d[7] = 1
  <2>1. /\ 1 \in 1..y /\ 2 \in 1..y /\ 3 \in 1..y /\ 4 \in 1..y /\ 6 \in 1..y
        /\ 7 \in 1..y /\ z \in 1..y
    BY <1>6
  <2> QED BY <1>6, <1>8, <2>1
<1> DEFINE zeros == {i \in 7..Len(d) : d[i] = 0}
           zero == CHOOSE i \in zeros : \A j \in zeros : i <= j
<1>10. zero = z
  <2>1. z \in zeros
    BY <1>4, <1>6, <1>8, <1>9
  <2>2. \A j \in zeros : z <= j /\ j \in Int
    <3>1. \A j \in zeros : j \in Int /\ j >= 7 /\ d[j] = 0
      OBVIOUS
    <3>2. \A j \in zeros : z = 8 => j # 7
      BY <1>9
    <3> QED BY <1>6, <3>1, <3>2
  <2> HIDE DEF zeros
  <2>3. zero \in zeros /\ \A j \in zeros : zero <= j
    BY <2>1, <2>2, Zenon
  <2>4. zero <= z /\ z <= zero /\ zero \in Int
    BY <2>1, <2>2, <2>3
  <2> HIDE DEF zero
  <2> QED BY <1>6, <2>4
<1>11. ASSUME stored = <<>>
       PROVE  SubSeq(d, z + 1, Len(d) - 4) = w
  <2> DEFINE n == Len(w)
             s == SubSeq(d, z + 1, z + n)
  <2>1. n \in Nat /\ z \in Nat /\ Len(d) - 4 = z + n
    BY <1>4, <1>6, <1>8, <1>11
  <2> HIDE DEF n
  <2>2. \A k \in (z + 1)..(z + n) : d[k] \in Nat
    <3>1. \A k \in (z + 1)..(z + n) : k \in 1..Len(d)
      BY <1>6, <1>8, <1>11, <2>1 DEF n
    <3> QED BY <1>8, <3>1
  <2>3. z + 1 \in Int /\ z + n \in Int
    BY <2>1
  <2>4. /\ s \in Seq(Nat) /\ Len(s) = IF z + 1 <= z + n THEN (z + n) - (z + 1) + 1 ELSE 0
        /\ \A k \in 1..((z + n) - (z + 1) + 1) : s[k] = d[(z + 1) + k - 1]
    BY <2>2, <2>3, SubSeqProperties
  <2> HIDE DEF s
  <2>5. (z + n) - (z + 1) + 1 = n /\ (z + 1 <= z + n <=> n # 0)
    BY <2>1
  <2>6. Len(s) = n
    BY <2>1, <2>4, <2>5
  <2>7. ASSUME NEW k \in 1..n
        PROVE  s[k] = w[k]
    <3>1. (z + 1) + k - 1 = z + k
      BY <2>1
    <3>2. s[k] = d[z + k]
      BY <2>4, <2>5, <3>1
    <3> QED BY <1>6, <1>8, <1>11, <3>2 DEF n
  <2>8. s = w
    BY <1>4, <2>4, <2>6, <2>7, SeqEqual DEF n
  <2> QED BY <2>1, <2>8 DEF s
<1>12. SubSeq(d, 7, z - 1) = IF stored = << 1, 0 >> THEN << 1 >> ELSE <<>>
  <2>1. CASE z = 7
    <3>1. z - 1 < 7 /\ z - 1 \in Int
      BY <2>1
    <3>2. stored # << 1, 0 >>
      BY <2>1 DEF z
    <3> QED BY <3>1, <3>2, SubSeqEmpty
  <2>2. CASE z = 8
    <3>1. z - 1 = 7 /\ Len(d) >= 7 /\ Len(d) \in Nat
      BY <1>4, <1>6, <1>8, <2>2
    <3>2. SubSeq(d, 7, 7) = <<d[7]>>
      <4>1. SubSeq(d, 7, 7) = <<d[7]>> \o SubSeq(d, 7 + 1, 7)
        <5>1. 7 \in 1..Len(d) /\ 7 \in 7..Len(d)
          BY <3>1
        <5> QED BY <1>8, <5>1, SubSeqRecursiveFirst
      <4>2. SubSeq(d, 7 + 1, 7) = <<>>
        <5>1. 7 + 1 \in Int /\ 7 \in Int /\ 7 < 7 + 1
          OBVIOUS
        <5> QED BY <5>1, SubSeqEmpty
      <4>3. <<d[7]>> \in Seq(Nat)
        BY <1>8, <3>1
      <4> QED BY <4>1, <4>2, <4>3, ConcatEmptySeq
    <3>3. stored = << 1, 0 >>
      BY <2>2 DEF z
    <3> QED BY <1>9, <2>2, <3>1, <3>2, <3>3
  <2> QED BY <1>6, <2>1, <2>2
<1>13. ShortAt(d, 2) = type
  <2>1. 2 + 1 = 3
    OBVIOUS
  <2> QED BY <1>3, <1>9, <2>1, Zenon DEF ShortAt
<1>14. ParseReply(d) =
          [type |-> ShortAt(d, 2), reqID |-> d[4], status |-> d[6],
           message |-> SubSeq(d, 7, z - 1),
           valid |-> ParseParams(SubSeq(d, z + 1, Len(d) - 4), d[1]).valid,
           params |-> ParseParams(SubSeq(d, z + 1, Len(d) - 4), d[1]).params]
  BY <1>10, Zenon DEF ParseReply
<1> HIDE DEF zero, zeros
<1>15. /\ ParseReply(d).type = type /\ ParseReply(d).reqID = 1 /\ ParseReply(d).status = 0
       /\ ParseReply(d).message = SubSeq(d, 7, z - 1)
  <2> DEFINE block == ParseParams(SubSeq(d, z + 1, Len(d) - 4), d[1])
  <2> HIDE DEF block
  <2>1. ParseReply(d) =
          [type |-> ShortAt(d, 2), reqID |-> d[4], status |-> d[6],
           message |-> SubSeq(d, 7, z - 1),
           valid |-> block.valid, params |-> block.params]
    BY <1>14 DEF block
  <2> DEFINE i == d[4]
             c == d[6]
             m == SubSeq(d, 7, z - 1)
             n == ShortAt(d, 2)
             reply == ParseReply(d)
  <2>2. reply = [type |-> n, reqID |-> i, status |-> c, message |-> m,
                 valid |-> block.valid, params |-> block.params]
    BY <2>1
  <2> HIDE DEF i, c, m, n, reply
  <2>3. reply.type = n /\ reply.reqID = i /\ reply.status = c /\ reply.message = m
    BY <2>2
  <2> QED BY <1>9, <1>13, <2>3 DEF i, c, m, n, reply
<1>16. ASSUME stored = <<>>
       PROVE  ParseReply(d) = [type |-> type, reqID |-> 1, status |-> 0,
                               message |-> SubSeq(d, 7, z - 1),
                               valid |-> TRUE, params |-> ps]
  <2> DEFINE block == ParseParams(w, ver)
  <2>1. block.valid = TRUE /\ block.params = ps
    BY <1>4
  <2> HIDE DEF block
  <2>2. ParseReply(d) = [type |-> type, reqID |-> 1, status |-> 0,
                         message |-> SubSeq(d, 7, z - 1),
                         valid |-> block.valid, params |-> block.params]
    BY <1>9, <1>11, <1>13, <1>14, <1>16, Zenon DEF block
  <2> QED BY <2>1, <2>2
<1> QED BY <1>12, <1>15, <1>16 DEF d

(* A reply arrives as it was sent, with every parameter that fits its       *)
(* length field and in the order of the block, when its status message was  *)
(* never set; when it was set, all that stands before the block arrives:    *)
(* for blocks of any size, ids and bodies of any value, and both versions   *)
(* of the layout.                                                           *)
THEOREM RepliesSurvive == ParSpec => []ReplyRoundTrip
<1>1. ParTypeOK => ReplyRoundTrip
  <2> SUFFICES ASSUME ParTypeOK, NEW ver \in Versions, NEW type \in ParamIds,
                      Writable(m_params)
               PROVE  /\ Arrived(ver, type, <<>>) = Sent(type, <<>>)
                      /\ \A text \in Texts :
                             LET reply == Arrived(ver, type, StatusMessage(text))
                                 sent == Sent(type, text)
                             IN /\ reply.type = sent.type /\ reply.reqID = sent.reqID
                                /\ reply.status = sent.status
                                /\ reply.message = sent.message
    BY DEF ReplyRoundTrip
  <2>1. m_params \in Seq(Params) /\ Sorted(m_params)
    BY DEF ParTypeOK, Sorted
  <2>2. Arrived(ver, type, <<>>) = Sent(type, <<>>)
    <3>1. <<>> \in {<<>>, << 0 >>, << 1, 0 >>} /\ <<>> # << 1, 0 >>
      OBVIOUS
    <3> QED BY <2>1, <3>1, ReplyRead DEF Arrived, Sent
  <2>3. ASSUME NEW text \in Texts
        PROVE  LET reply == Arrived(ver, type, StatusMessage(text))
               IN /\ reply.type = type /\ reply.reqID = 1 /\ reply.status = 0
                  /\ reply.message = text
    <3>1. \/ text = <<>> /\ StatusMessage(text) = << 0 >>
          \/ text = << 1 >> /\ StatusMessage(text) = << 1, 0 >>
      <4>1. <<>> \o << 0 >> = << 0 >>
        <5>1. << 0 >> \in Seq(Nat)
          OBVIOUS
        <5> QED BY <5>1, ConcatEmptySeq
      <4>2. << 1 >> \o << 0 >> = << 1, 0 >>
        <5> DEFINE a == << 1 >>
                   t == << 0 >>
                   b == << 1, 0 >>
                   c == a \o t
        <5>1. /\ a \in Seq(Nat) /\ Len(a) = 1 /\ a[1] = 1
              /\ t \in Seq(Nat) /\ Len(t) = 1 /\ t[1] = 0
              /\ b \in Seq(Nat) /\ Len(b) = 2 /\ b[1] = 1 /\ b[2] = 0
          OBVIOUS
        <5> HIDE DEF a, t, b
        <5>2. /\ c \in Seq(Nat) /\ Len(c) = Len(a) + Len(t)
              /\ \A k \in 1..(Len(a) + Len(t)) :
                     c[k] = IF k <= Len(a) THEN a[k] ELSE t[k - Len(a)]
          BY <5>1, Joined
        <5> HIDE DEF c
        <5>3. \A k \in 1..2 : c[k] = b[k]
          BY <5>1, <5>2
        <5>4. c = b
          BY <5>1, <5>2, <5>3, SeqEqual
        <5> QED BY <5>4 DEF a, b, c, t
      <4> QED BY <4>1, <4>2 DEF Texts, StatusMessage
    <3>2. << 0 >> # << 1, 0 >>
      OBVIOUS
    <3> QED BY <2>1, <3>1, <3>2, ReplyRead DEF Arrived
  <2>4. \A text \in Texts : /\ Sent(type, text).type = type /\ Sent(type, text).reqID = 1
                            /\ Sent(type, text).status = 0
                            /\ Sent(type, text).message = text
    BY DEF Sent
  <2> QED BY <2>2, <2>3, <2>4
<1> QED BY <1>1, BlockOrdered, PTL
-----------------------------------------------------------------------------
(***************************************************************************)
(* The threads. What holds while the program creates, starts, joins and    *)
(* gives up threads and the main thread ends the library:                  *)
(***************************************************************************)
Elems(s) == {s[i] : i \in 1..Len(s)}
Distinct(s) == \A i, j \in 1..Len(s) : s[i] = s[j] => i = j

\* The handles that waitTermination has.
Held == Elems(list) \cup Elems(visited)

Bit(b) == IF b THEN 1 ELSE 0
Handles(t) == Bit(t \in Members) + Bit(t \in Workers /\ ownerStruct[t]) + Bit(t \in Held)

Locked == {"hookDie", "hookRemove", "hookDrop", "hookUnlock"}
Ended == {"hookDrop", "hookUnlock", "gone"}
MainsOnly == {"count", "enumerate", "next", "readState", "destroyTest", "torn"}
Joins == {"joinTest", "joinAsleep"}
Visits == Joins \cup {"readState", "destroyTest"}
Dead == m_state[Main] = "dead"

\* References of a thread object to itself, which its exit_hook gives up.
Selves(t) == IF t # Main THEN Bit(thrPc[t] \notin {"none", "hookUnlock", "gone"})
             ELSE 1 + Bit(\/ ~Dead
                          \/ target[Main] = Main /\ thrPc[Main] \in {"hookRemove", "hookDrop"})

\* waitTermination's destroy has yet to drop the object of t.
ToDrop(t) == target[Main] = t
             /\ thrPc[Main] \in {"hookLock", "hookDie", "hookRemove", "hookDrop"}

\* The variables whose type does not depend on how the steps follow.
Shapes ==
    /\ m_state \in [Agents -> {"none", "new_thread", "runnable", "dead"}]
    /\ m_refcount \in [Agents -> Int]
    /\ m_mutex \in [Agents -> Agents \cup {NoThread}]
    /\ m_threads \in Seq(Agents)
    /\ groupLock \in Agents \cup {NoThread}
    /\ ownerStruct \in [Workers -> BOOLEAN]
    /\ user \in [Workers -> Agents \cup {NoThread}]
    /\ thrPc \in [Agents -> ThrLabels]
    /\ target \in [Agents -> Agents]
    /\ timed \in [Agents -> BOOLEAN]
    /\ count \in Nat /\ list \in Seq(Agents) /\ visited \in Seq(Agents)
    /\ doomed \subseteq Workers

\* The monitor is held from the second step of exit_hook to the last.
HookExclusive == \A a \in Agents : groupLock = a <=> thrPc[a] \in Locked

(* A worker: it is started once, its struct and what refers to it come      *)
(* after its creation, and only its own exit_hook is run by it.             *)
Lives == \A t \in Workers :
    /\ thrPc[t] \notin MainsOnly
    /\ thrPc[t] \in HookLabels => target[t] = t
    /\ m_state[t] = "new_thread" =>
           thrPc[t] = "new" \/ (thrPc[t] = "starting" /\ m_mutex[t] # NoThread)
    /\ thrPc[t] = "none" => /\ ~ownerStruct[t]
                            /\ t \notin Members \cup Held \cup doomed

\* The main thread: its own exit_hook first, then the visits.
MainLives ==
    /\ m_state[Main] \in {"runnable", "dead"}
    /\ ~Dead => /\ \/ thrPc[Main] \in Joins \cup {"running", "startFinish"}
                   \/ thrPc[Main] \in {"hookLock", "hookDie"} /\ target[Main] = Main
                /\ Held = {} /\ doomed = {}
    /\ Dead => /\ thrPc[Main] \in HookLabels \cup Joins \cup MainsOnly
               /\ thrPc[Main] \in {"hookLock", "hookDie"} => target[Main] # Main
               /\ thrPc[Main] \in Visits => target[Main] \in Elems(visited) \ doomed
               /\ thrPc[Main] \in HookLabels =>
                      target[Main] \in doomed \/ (target[Main] = Main /\ Held = {})
               /\ thrPc[Main] \in {"count", "enumerate", "torn"} => Held = {}
    /\ Main \in Members =>
           ~Dead \/ (thrPc[Main] = "hookRemove" /\ target[Main] = Main)

\* Nothing is in an array twice or in both of waitTermination's.
Once == /\ Distinct(m_threads) /\ Distinct(list) /\ Distinct(visited)
        /\ Elems(list) \cap Elems(visited) = {}
        /\ Held \subseteq Workers

\* A thread that waitTermination has destroyed is not met again.
DoomedLeave ==
    /\ Elems(list) \cap doomed = {}
    /\ thrPc[Main] # "torn" => \A t \in doomed \cap Members :
           thrPc[Main] \in {"hookLock", "hookDie", "hookRemove"} /\ target[Main] = t

(* The count of an object is that of the handles on it; one that is         *)
(* destroyed before its start may be given up twice.                        *)
Counted == \A t \in Agents :
    \/ m_refcount[t] = Handles(t) + Selves(t)
    \/ t \in doomed /\ ~ToDrop(t) /\ m_refcount[t] = Handles(t) + Selves(t) - 1

\* Who starts or joins a thread through PAL has its struct to itself.
InUse == \A a \in Agents :
    thrPc[a] = "startFinish" \/ (thrPc[a] \in Joins /\ ~(a = Main /\ Dead)) =>
        /\ target[a] \in Workers
        /\ ownerStruct[target[a]] /\ user[target[a]] = a

\* A thread is in the group from its creation to its exit_hook.
InGroup == \A t \in Workers \ doomed :
    t \in Members <=> thrPc[t] \notin Ended \cup {"none"}

TornDown == thrPc[Main] = "torn" =>
    \A t \in Workers \ doomed : thrPc[t] \in {"none", "gone"}

ThrInv == /\ Shapes /\ HookExclusive /\ Lives /\ MainLives /\ Once /\ DoomedLeave
          /\ Counted /\ InUse /\ InGroup /\ TornDown

\* The agents: the main thread, and the workers, which are others.
LEMMA Who == /\ Main \in Agents /\ Main \notin Workers /\ Workers \subseteq Agents
             /\ \A a \in Agents : a = Main \/ a \in Workers
             /\ NoThread \notin Agents
  BY ThrAssumption DEF Agents

\* The labels, in three parts that the leaves can take in.
LEMMA Labels ==
    /\ {"running", "starting", "new", "startFinish", "hookLock", "hookDie"} \subseteq ThrLabels
    /\ {"hookRemove", "hookDrop", "hookUnlock", "gone"} \subseteq ThrLabels
    /\ {"joinTest", "joinAsleep", "count", "enumerate", "next"} \subseteq ThrLabels
    /\ {"readState", "destroyTest", "torn"} \subseteq ThrLabels
  BY DEF ThrLabels, HookLabels

(* Of a step that leaves the arrays alone.                                  *)
LEMMA ArraysStay ==
    ASSUME UNCHANGED <<m_threads, list, visited>>
    PROVE  /\ Members' = Members /\ Held' = Held
           /\ Elems(list)' = Elems(list) /\ Elems(visited)' = Elems(visited)
           /\ Once => Once'
<1>1. m_threads' = m_threads /\ list' = list /\ visited' = visited
  OBVIOUS
<1>2. Members' = Members
  BY <1>1 DEF Members
<1>3. Elems(list)' = Elems(list) /\ Elems(visited)' = Elems(visited)
  BY <1>1 DEF Elems
<1>4. Held' = Held
  BY <1>3 DEF Held
<1>5. Distinct(m_threads)' = Distinct(m_threads)
  BY <1>1 DEF Distinct
<1>6. Distinct(list)' = Distinct(list) /\ Distinct(visited)' = Distinct(visited)
  BY <1>1 DEF Distinct
<1> QED BY <1>2, <1>3, <1>4, <1>5, <1>6 DEF Once

(* Of sequences without duplicates.                                         *)
LEMMA Occurs ==
    ASSUME NEW S, NEW s \in Seq(S), Distinct(s), NEW e
    PROVE  Cardinality({i \in 1..Len(s) : s[i] = e}) = Bit(e \in Elems(s))
<1>1. CASE e \in Elems(s)
  <2>1. PICK k \in 1..Len(s) : s[k] = e
    BY <1>1 DEF Elems
  <2>2. {i \in 1..Len(s) : s[i] = e} = {k}
    BY <2>1 DEF Distinct
  <2>3. Cardinality({k}) = 1
    BY FS_Singleton
  <2> QED BY <1>1, <2>2, <2>3 DEF Bit
<1>2. CASE e \notin Elems(s)
  <2>1. {i \in 1..Len(s) : s[i] = e} = {}
    BY <1>2 DEF Elems
  <2>2. Cardinality({}) = 0
    BY FS_EmptySet
  <2> QED BY <1>2, <2>1, <2>2 DEF Bit
<1> QED BY <1>1, <1>2

\* The empty array.
LEMMA NoElems == Elems(<<>>) = {} /\ Distinct(<<>>)
  BY DEF Elems, Distinct

\* What an append of something new leaves in an array.
LEMMA Appended ==
    ASSUME NEW S, NEW s \in Seq(S), NEW e \in S, Distinct(s), e \notin Elems(s)
    PROVE  /\ Append(s, e) \in Seq(S) /\ Distinct(Append(s, e))
           /\ Elems(Append(s, e)) = Elems(s) \cup {e}
<1> DEFINE t == Append(s, e)
<1>1. /\ t \in Seq(S) /\ Len(t) = Len(s) + 1 /\ Len(s) \in Nat
      /\ t[Len(s) + 1] = e /\ \A i \in 1..Len(s) : t[i] = s[i]
  OBVIOUS
<1> HIDE DEF t
<1>2. \A i \in 1..Len(t) : i \in 1..Len(s) \/ i = Len(s) + 1
  BY <1>1
<1>3. \A i \in 1..Len(s) : i \in 1..Len(t) /\ s[i] \in Elems(s)
  BY <1>1 DEF Elems
<1>4. Len(s) + 1 \in 1..Len(t)
  BY <1>1
<1>5. Distinct(t)
  BY <1>1, <1>2, <1>3 DEF Distinct
<1>6. ASSUME NEW x \in Elems(t)
      PROVE  x \in Elems(s) \cup {e}
  <2>1. PICK i \in 1..Len(t) : x = t[i]
    BY DEF Elems
  <2> QED BY <1>1, <1>2, <1>3, <2>1
<1>7. ASSUME NEW x \in Elems(s) \cup {e}
      PROVE  x \in Elems(t)
  <2>1. CASE x = e
    BY <1>1, <1>4, <2>1 DEF Elems
  <2>2. CASE x \in Elems(s)
    <3>1. PICK i \in 1..Len(s) : x = s[i]
      BY <2>2 DEF Elems
    <3> QED BY <1>1, <1>3, <3>1 DEF Elems
  <2> QED BY <2>1, <2>2
<1> QED BY <1>1, <1>5, <1>6, <1>7 DEF t

\* What taking one place out leaves in an array.
LEMMA Removed ==
    ASSUME NEW S, NEW s \in Seq(S), Distinct(s), NEW k \in 1..Len(s)
    PROVE  /\ RemoveAt(s, k) \in Seq(S) /\ Distinct(RemoveAt(s, k))
           /\ Elems(RemoveAt(s, k)) = Elems(s) \ {s[k]}
<1> DEFINE t == RemoveAt(s, k)
<1>1. /\ Len(s) \in Nat /\ k \in Nat /\ k - 1 \in 0..Len(s) /\ k \in (k - 1)..Len(s)
      /\ k - (k - 1) = 1
  OBVIOUS
<1>2. /\ t \in Seq(S) /\ Len(t) = Len(s) - 1
      /\ \A i \in 1..(Len(s) - 1) : t[i] = IF i <= k - 1 THEN s[i] ELSE s[i + 1]
  <2> DEFINE c == SubSeq(s, 1, k - 1) \o SubSeq(s, k + 1, Len(s))
  <2>1. RemoveAt(s, k) = c
    BY DEF RemoveAt
  <2>2. /\ c \in Seq(S) /\ Len(c) = Len(s) - (k - (k - 1))
        /\ \A i \in 1..(Len(s) - (k - (k - 1))) :
               c[i] = IF i <= k - 1 THEN s[i] ELSE s[i + (k - (k - 1))]
    BY <1>1, TakenOut
  <2> HIDE DEF c
  <2> QED BY <1>1, <2>1, <2>2
<1> HIDE DEF t
<1> DEFINE at(i) == IF i <= k - 1 THEN i ELSE i + 1
<1>3. \A i \in 1..Len(t) : t[i] = s[at(i)] /\ at(i) \in 1..Len(s) /\ at(i) # k
  BY <1>1, <1>2
<1>4. \A i, j \in 1..Len(t) : at(i) = at(j) => i = j
  BY <1>1, <1>2
<1>5. \A i \in 1..Len(s) : i = k \/ \E j \in 1..Len(t) : at(j) = i
  <2> SUFFICES ASSUME NEW i \in 1..Len(s), i # k
               PROVE  \E j \in 1..Len(t) : at(j) = i
    OBVIOUS
  <2>1. CASE i < k
    <3>1. i \in 1..Len(t) /\ at(i) = i
      BY <1>1, <1>2, <2>1
    <3> QED BY <3>1
  <2>2. CASE i > k
    <3>1. i - 1 \in 1..Len(t) /\ at(i - 1) = i
      BY <1>1, <1>2, <2>2
    <3> QED BY <3>1
  <2> QED BY <1>1, <2>1, <2>2
<1> HIDE DEF at
<1>6. Distinct(t)
  BY <1>3, <1>4 DEF Distinct
<1>7. ASSUME NEW x \in Elems(t)
      PROVE  x \in Elems(s) \ {s[k]}
  <2>1. PICK i \in 1..Len(t) : x = t[i]
    BY DEF Elems
  <2> QED BY <1>3, <2>1 DEF Elems, Distinct
<1>8. ASSUME NEW x \in Elems(s) \ {s[k]}
      PROVE  x \in Elems(t)
  <2>1. PICK i \in 1..Len(s) : x = s[i]
    BY DEF Elems
  <2>2. PICK j \in 1..Len(t) : at(j) = i
    BY <1>5, <2>1
  <2> QED BY <1>3, <2>1, <2>2 DEF Elems
<1> QED BY <1>2, <1>6, <1>7, <1>8 DEF t

\* The first n of an array, which is what enumerate copies.
LEMMA FirstPart ==
    ASSUME NEW S, NEW s \in Seq(S), Distinct(s), NEW n \in 0..Len(s)
    PROVE  /\ SubSeq(s, 1, n) \in Seq(S) /\ Distinct(SubSeq(s, 1, n))
           /\ Elems(SubSeq(s, 1, n)) \subseteq Elems(s)
<1> DEFINE t == SubSeq(s, 1, n)
<1>1. /\ t \in Seq(S) /\ Len(t) = n /\ n \in Nat /\ n <= Len(s) /\ Len(s) \in Nat
      /\ \A i \in 1..n : t[i] = s[i]
  OBVIOUS
<1> HIDE DEF t
<1>2. \A i \in 1..Len(t) : i \in 1..Len(s) /\ t[i] = s[i]
  BY <1>1
<1> QED BY <1>1, <1>2 DEF Distinct, Elems, t

\* The first of an array, and the others.
LEMMA FirstAndRest ==
    ASSUME NEW S, NEW s \in Seq(S), Distinct(s), s # <<>>
    PROVE  /\ Head(s) \in S /\ Tail(s) \in Seq(S) /\ Distinct(Tail(s))
           /\ Elems(s) = Elems(Tail(s)) \cup {Head(s)}
           /\ Head(s) \notin Elems(Tail(s))
<1> DEFINE t == Tail(s)
           h == Head(s)
<1>1. /\ t \in Seq(S) /\ Len(t) = Len(s) - 1 /\ Len(s) \in Nat /\ Len(s) >= 1
      /\ h = s[1] /\ h \in S
      /\ \A i \in 1..Len(t) : t[i] = s[i + 1]
  OBVIOUS
<1> HIDE DEF t, h
<1>2. \A i \in 1..Len(t) : i + 1 \in 1..Len(s) /\ i + 1 # 1 /\ t[i] = s[i + 1]
  BY <1>1
<1>3. \A i \in 1..Len(s) : i = 1 \/ (i - 1 \in 1..Len(t) /\ t[i - 1] = s[i])
  BY <1>1
<1>4. Distinct(t)
  BY <1>2 DEF Distinct
<1>5. 1 \in 1..Len(s)
  BY <1>1
<1>6. ASSUME NEW x \in Elems(t)
      PROVE  x \in Elems(s) /\ x # h
  <2>1. PICK i \in 1..Len(t) : x = t[i]
    BY DEF Elems
  <2> QED BY <1>1, <1>2, <1>5, <2>1 DEF Elems, Distinct
<1>7. ASSUME NEW x \in Elems(s)
      PROVE  x \in Elems(t) \/ x = h
  <2>1. PICK i \in 1..Len(s) : x = s[i]
    BY DEF Elems
  <2> QED BY <1>1, <1>3, <2>1 DEF Elems
<1>8. h \in Elems(s)
  BY <1>1, <1>5 DEF Elems
<1> QED BY <1>1, <1>4, <1>6, <1>7, <1>8 DEF t, h

\* A step after which as many handles are counted as there are.
LEMMA CountKept ==
    ASSUME Counted, doomed' = doomed,
           \A u \in Agents : m_refcount[u] \in Int /\ Handles(u) \in Int /\ Selves(u) \in Int,
           \A u \in Agents : m_refcount'[u] \in Int /\ Handles(u)' \in Int /\ Selves(u)' \in Int,
           \A u \in Agents : m_refcount'[u] - Handles(u)' - Selves(u)'
                               = m_refcount[u] - Handles(u) - Selves(u),
           \A u \in Agents : ToDrop(u)' <=> ToDrop(u)
    PROVE  Counted'
<1> SUFFICES ASSUME NEW u \in Agents
             PROVE  \/ m_refcount'[u] = Handles(u)' + Selves(u)'
                    \/ /\ u \in doomed' /\ ~ToDrop(u)'
                       /\ m_refcount'[u] = Handles(u)' + Selves(u)' - 1
  BY DEF Counted
<1>1. \/ m_refcount[u] = Handles(u) + Selves(u)
      \/ u \in doomed /\ ~ToDrop(u) /\ m_refcount[u] = Handles(u) + Selves(u) - 1
  BY DEF Counted
<1> QED BY <1>1

\* A step that changes no count, no handle, and nothing an object counts.
LEMMA CountSame ==
    ASSUME Counted, UNCHANGED <<m_refcount, ownerStruct, doomed>>,
           Members' = Members, Held' = Held,
           \A u \in Agents : Selves(u)' = Selves(u),
           \A u \in doomed : ToDrop(u)' => ToDrop(u)
    PROVE  Counted'
<1>1. \A u \in Agents : Handles(u)' = Handles(u)
  BY DEF Handles
<1>2. m_refcount' = m_refcount /\ doomed' = doomed
  OBVIOUS
<1> SUFFICES ASSUME NEW u \in Agents
             PROVE  \/ m_refcount'[u] = Handles(u)' + Selves(u)'
                    \/ /\ u \in doomed' /\ ~ToDrop(u)'
                       /\ m_refcount'[u] = Handles(u)' + Selves(u)' - 1
  BY DEF Counted
<1>3. \/ m_refcount[u] = Handles(u) + Selves(u)
      \/ u \in doomed /\ ~ToDrop(u) /\ m_refcount[u] = Handles(u) + Selves(u) - 1
  BY DEF Counted
<1> QED BY <1>1, <1>2, <1>3

\* A join looks at the state of the thread, and sleeps or returns.
LEMMA JoinTestStep ==
    ASSUME NEW a \in Agents, ThrInv, JoinTest(a)
    PROVE  ThrInv'
<1>1. /\ Shapes /\ HookExclusive /\ Lives /\ MainLives /\ Once /\ DoomedLeave
      /\ Counted /\ InUse /\ InGroup /\ TornDown
  BY DEF ThrInv
<1>2. UNCHANGED <<m_threads, list, visited>>
  BY DEF JoinTest, group, mains
<1>3. /\ Members' = Members /\ Held' = Held
      /\ Elems(list)' = Elems(list) /\ Elems(visited)' = Elems(visited) /\ Once'
  BY <1>1, <1>2, ArraysStay
<1>4. Shapes'
  BY <1>1, <1>3, Labels DEF JoinTest, AfterJoin, ThrGoto, objects, group,
     program, mains, Shapes
<1>5. HookExclusive'
  BY <1>1, <1>3 DEF JoinTest, AfterJoin, ThrGoto, group, Shapes,
     HookExclusive, Locked
<1>6. Lives'
  BY <1>1, <1>3, Who DEF JoinTest, AfterJoin, ThrGoto, objects, program,
     mains, Shapes, Lives, HookLabels, MainsOnly
<1>7. MainLives'
  BY <1>1, <1>3 DEF JoinTest, AfterJoin, ThrGoto, objects, mains, Shapes,
     MainLives, HookLabels, MainsOnly, Joins, Visits, Dead
<1>8. DoomedLeave'
  BY <1>1, <1>3 DEF JoinTest, AfterJoin, ThrGoto, mains, Shapes, DoomedLeave
<1>9. \A u \in Agents : Selves(u)' = Selves(u)
  <2>1. \A u \in Workers : Selves(u)' = Selves(u)
    BY <1>1, Who DEF JoinTest, AfterJoin, ThrGoto, Shapes, Selves
  <2>2. Selves(Main)' = Selves(Main)
    BY <1>1, Who DEF JoinTest, AfterJoin, ThrGoto, objects, Shapes, Selves, Dead
  <2> QED BY <2>1, <2>2, Who
<1>10. \A u \in doomed : ToDrop(u)' => ToDrop(u)
  BY <1>1 DEF JoinTest, AfterJoin, ThrGoto, Shapes, ToDrop
<1>11. Counted'
  <2>1. UNCHANGED <<m_refcount, ownerStruct, doomed>>
    BY DEF JoinTest, AfterJoin, objects, program, mains
  <2> QED BY <1>1, <1>3, <1>9, <1>10, <2>1, CountSame
<1>12. InUse'
  BY <1>1, <1>3 DEF JoinTest, AfterJoin, ThrGoto, objects, program, Shapes,
     InUse, Joins, Dead
<1>13. InGroup'
  BY <1>1, <1>3 DEF JoinTest, AfterJoin, ThrGoto, mains, Shapes, InGroup, Ended
<1>14. TornDown'
  BY <1>1, <1>3 DEF JoinTest, AfterJoin, ThrGoto, mains, Shapes, TornDown
<1> QED BY <1>3, <1>4, <1>5, <1>6, <1>7, <1>8, <1>11, <1>12, <1>13, <1>14
       DEF ThrInv

\* A timed join returns.
LEMMA JoinTimesOutStep ==
    ASSUME NEW a \in Agents, ThrInv, JoinTimesOut(a)
    PROVE  ThrInv'
<1>1. /\ Shapes /\ HookExclusive /\ Lives /\ MainLives /\ Once /\ DoomedLeave
      /\ Counted /\ InUse /\ InGroup /\ TornDown
  BY DEF ThrInv
<1>2. UNCHANGED <<m_threads, list, visited>>
  BY DEF JoinTimesOut, group, mains
<1>3. /\ Members' = Members /\ Held' = Held
      /\ Elems(list)' = Elems(list) /\ Elems(visited)' = Elems(visited) /\ Once'
  BY <1>1, <1>2, ArraysStay
<1>4. Shapes'
  BY <1>1, <1>3, Labels DEF JoinTimesOut, AfterJoin, ThrGoto, objects, group,
     program, mains, Shapes
<1>5. HookExclusive'
  BY <1>1, <1>3 DEF JoinTimesOut, AfterJoin, ThrGoto, group, Shapes,
     HookExclusive, Locked
<1>6. Lives'
  BY <1>1, <1>3, Who DEF JoinTimesOut, AfterJoin, ThrGoto, objects, program,
     mains, Shapes, Lives, HookLabels, MainsOnly
<1>7. MainLives'
  BY <1>1, <1>3 DEF JoinTimesOut, AfterJoin, ThrGoto, objects, mains, Shapes,
     MainLives, HookLabels, MainsOnly, Joins, Visits, Dead
<1>8. DoomedLeave'
  BY <1>1, <1>3 DEF JoinTimesOut, AfterJoin, ThrGoto, mains, Shapes, DoomedLeave
<1>9. \A u \in Agents : Selves(u)' = Selves(u)
  <2>1. \A u \in Workers : Selves(u)' = Selves(u)
    BY <1>1, Who DEF JoinTimesOut, AfterJoin, ThrGoto, Shapes, Selves
  <2>2. Selves(Main)' = Selves(Main)
    BY <1>1, Who DEF JoinTimesOut, AfterJoin, ThrGoto, objects, Shapes,
       Selves, Dead
  <2> QED BY <2>1, <2>2, Who
<1>10. \A u \in doomed : ToDrop(u)' => ToDrop(u)
  BY <1>1 DEF JoinTimesOut, AfterJoin, ThrGoto, Shapes, ToDrop
<1>11. Counted'
  <2>1. UNCHANGED <<m_refcount, ownerStruct, doomed>>
    BY DEF JoinTimesOut, AfterJoin, objects, program, mains
  <2> QED BY <1>1, <1>3, <1>9, <1>10, <2>1, CountSame
<1>12. InUse'
  BY <1>1, <1>3 DEF JoinTimesOut, AfterJoin, ThrGoto, objects, program,
     Shapes, InUse, Joins, Dead
<1>13. InGroup'
  BY <1>1, <1>3 DEF JoinTimesOut, AfterJoin, ThrGoto, mains, Shapes, InGroup,
     Ended
<1>14. TornDown'
  BY <1>1, <1>3 DEF JoinTimesOut, AfterJoin, ThrGoto, mains, Shapes, TornDown
<1> QED BY <1>3, <1>4, <1>5, <1>6, <1>7, <1>8, <1>11, <1>12, <1>13, <1>14
       DEF ThrInv

\* A join wakes up by itself and looks again.
LEMMA JoinSpuriousWakeupStep ==
    ASSUME NEW a \in Agents, ThrInv, JoinSpuriousWakeup(a)
    PROVE  ThrInv'
<1>1. /\ Shapes /\ HookExclusive /\ Lives /\ MainLives /\ Once /\ DoomedLeave
      /\ Counted /\ InUse /\ InGroup /\ TornDown
  BY DEF ThrInv
<1>2. UNCHANGED <<m_threads, list, visited>>
  BY DEF JoinSpuriousWakeup, group, mains
<1>3. /\ Members' = Members /\ Held' = Held
      /\ Elems(list)' = Elems(list) /\ Elems(visited)' = Elems(visited) /\ Once'
  BY <1>1, <1>2, ArraysStay
<1>4. Shapes'
  BY <1>1, <1>3, Labels DEF JoinSpuriousWakeup, ThrGoto, objects, group,
     program, mains, Shapes
<1>5. HookExclusive'
  BY <1>1, <1>3 DEF JoinSpuriousWakeup, ThrGoto, group, Shapes, HookExclusive,
     Locked
<1>6. Lives'
  BY <1>1, <1>3 DEF JoinSpuriousWakeup, ThrGoto, objects, program, mains,
     Shapes, Lives, HookLabels, MainsOnly
<1>7. MainLives'
  BY <1>1, <1>3 DEF JoinSpuriousWakeup, ThrGoto, objects, mains, Shapes,
     MainLives, HookLabels, MainsOnly, Joins, Visits, Dead
<1>8. DoomedLeave'
  BY <1>1, <1>3 DEF JoinSpuriousWakeup, ThrGoto, mains, Shapes, DoomedLeave
<1>9. \A u \in Agents : Selves(u)' = Selves(u)
  <2>1. \A u \in Workers : Selves(u)' = Selves(u)
    BY <1>1, Who DEF JoinSpuriousWakeup, ThrGoto, Shapes, Selves
  <2>2. Selves(Main)' = Selves(Main)
    BY <1>1, Who DEF JoinSpuriousWakeup, ThrGoto, objects, Shapes, Selves, Dead
  <2> QED BY <2>1, <2>2, Who
<1>10. \A u \in doomed : ToDrop(u)' => ToDrop(u)
  BY <1>1 DEF JoinSpuriousWakeup, ThrGoto, Shapes, ToDrop
<1>11. Counted'
  <2>1. UNCHANGED <<m_refcount, ownerStruct, doomed>>
    BY DEF JoinSpuriousWakeup, objects, program, mains
  <2> QED BY <1>1, <1>3, <1>9, <1>10, <2>1, CountSame
<1>12. InUse'
  BY <1>1, <1>3 DEF JoinSpuriousWakeup, ThrGoto, objects, program, Shapes,
     InUse, Joins, Dead
<1>13. InGroup'
  BY <1>1, <1>3 DEF JoinSpuriousWakeup, ThrGoto, mains, Shapes, InGroup, Ended
<1>14. TornDown'
  BY <1>1, <1>3 DEF JoinSpuriousWakeup, ThrGoto, mains, Shapes, TornDown
<1> QED BY <1>3, <1>4, <1>5, <1>6, <1>7, <1>8, <1>11, <1>12, <1>13, <1>14
       DEF ThrInv

\* A thread runs once start has given up its mutex.
LEMMA BeginRunStep ==
    ASSUME NEW a \in Agents, ThrInv, BeginRun(a)
    PROVE  ThrInv'
<1>1. /\ Shapes /\ HookExclusive /\ Lives /\ MainLives /\ Once /\ DoomedLeave
      /\ Counted /\ InUse /\ InGroup /\ TornDown
  BY DEF ThrInv
<1>2. UNCHANGED <<m_threads, list, visited>>
  BY DEF BeginRun, group, mains
<1>3. /\ Members' = Members /\ Held' = Held
      /\ Elems(list)' = Elems(list) /\ Elems(visited)' = Elems(visited) /\ Once'
  BY <1>1, <1>2, ArraysStay
<1>4. Shapes'
  BY <1>1, <1>3, Labels DEF BeginRun, ThrGoto, objects, group, program, mains,
     Shapes
<1>5. HookExclusive'
  BY <1>1, <1>3 DEF BeginRun, ThrGoto, group, Shapes, HookExclusive, Locked
<1>6. Lives'
  BY <1>1, <1>3 DEF BeginRun, ThrGoto, objects, program, mains, Shapes, Lives,
     HookLabels, MainsOnly
<1>7. MainLives'
  BY <1>1, <1>3 DEF BeginRun, ThrGoto, objects, mains, Shapes, MainLives,
     HookLabels, MainsOnly, Joins, Visits, Dead
<1>8. DoomedLeave'
  BY <1>1, <1>3 DEF BeginRun, ThrGoto, mains, Shapes, DoomedLeave
<1>9. \A u \in Agents : Selves(u)' = Selves(u)
  <2>1. \A u \in Workers : Selves(u)' = Selves(u)
    BY <1>1, Who DEF BeginRun, ThrGoto, Shapes, Selves
  <2>2. Selves(Main)' = Selves(Main)
    BY <1>1, Who DEF BeginRun, ThrGoto, objects, Shapes, Selves, Dead
  <2> QED BY <2>1, <2>2, Who
<1>10. \A u \in doomed : ToDrop(u)' => ToDrop(u)
  BY <1>1 DEF BeginRun, ThrGoto, Shapes, ToDrop
<1>11. Counted'
  <2>1. UNCHANGED <<m_refcount, ownerStruct, doomed>>
    BY DEF BeginRun, objects, program, mains
  <2> QED BY <1>1, <1>3, <1>9, <1>10, <2>1, CountSame
<1>12. InUse'
  BY <1>1, <1>3 DEF BeginRun, ThrGoto, objects, program, Shapes, InUse, Joins,
     Dead
<1>13. InGroup'
  BY <1>1, <1>3 DEF BeginRun, ThrGoto, mains, Shapes, InGroup, Ended
<1>14. TornDown'
  BY <1>1, <1>3 DEF BeginRun, ThrGoto, mains, Shapes, TornDown
<1> QED BY <1>3, <1>4, <1>5, <1>6, <1>7, <1>8, <1>11, <1>12, <1>13, <1>14
       DEF ThrInv

\* A thread is about to run its own exit_hook.
LEMMA ReturnFromRunStep ==
    ASSUME NEW a \in Agents, ThrInv, ReturnFromRun(a)
    PROVE  ThrInv'
<1>1. /\ Shapes /\ HookExclusive /\ Lives /\ MainLives /\ Once /\ DoomedLeave
      /\ Counted /\ InUse /\ InGroup /\ TornDown
  BY DEF ThrInv
<1>2. UNCHANGED <<m_threads, list, visited>>
  BY DEF ReturnFromRun, group, mains
<1>3. /\ Members' = Members /\ Held' = Held
      /\ Elems(list)' = Elems(list) /\ Elems(visited)' = Elems(visited) /\ Once'
  BY <1>1, <1>2, ArraysStay
<1>4. Shapes'
  BY <1>1, <1>3, Labels DEF ReturnFromRun, ThrGoto, objects, group, program,
     mains, Shapes
<1>5. HookExclusive'
  BY <1>1, <1>3 DEF ReturnFromRun, ThrGoto, group, Shapes, HookExclusive, Locked
<1>6. Lives'
  BY <1>1, <1>3 DEF ReturnFromRun, ThrGoto, objects, program, mains, Shapes,
     Lives, HookLabels, MainsOnly
<1>7. MainLives'
  BY <1>1, <1>3 DEF ReturnFromRun, ThrGoto, objects, mains, Shapes, MainLives,
     HookLabels, MainsOnly, Joins, Visits, Dead
<1>8. DoomedLeave'
  BY <1>1, <1>3 DEF ReturnFromRun, ThrGoto, mains, Shapes, DoomedLeave
<1>9. \A u \in Agents : Selves(u)' = Selves(u)
  <2>1. \A u \in Workers : Selves(u)' = Selves(u)
    BY <1>1, Who DEF ReturnFromRun, ThrGoto, Shapes, Selves
  <2>2. Selves(Main)' = Selves(Main)
    BY <1>1, Who DEF ReturnFromRun, ThrGoto, objects, Shapes, Selves, Dead
  <2> QED BY <2>1, <2>2, Who
<1>10. \A u \in doomed : ToDrop(u)' => ToDrop(u)
  BY <1>1, Who DEF ReturnFromRun, ThrGoto, Shapes, ToDrop
<1>11. Counted'
  <2>1. UNCHANGED <<m_refcount, ownerStruct, doomed>>
    BY DEF ReturnFromRun, objects, program, mains
  <2> QED BY <1>1, <1>3, <1>9, <1>10, <2>1, CountSame
<1>12. InUse'
  BY <1>1, <1>3 DEF ReturnFromRun, ThrGoto, objects, program, Shapes, InUse,
     Joins, Dead
<1>13. InGroup'
  BY <1>1, <1>3 DEF ReturnFromRun, ThrGoto, mains, Shapes, InGroup, Ended
<1>14. TornDown'
  BY <1>1, <1>3 DEF ReturnFromRun, ThrGoto, mains, Shapes, TornDown
<1> QED BY <1>3, <1>4, <1>5, <1>6, <1>7, <1>8, <1>11, <1>12, <1>13, <1>14
       DEF ThrInv

\* Who ends a start is not the main thread's end: the thread it
\* starts is a worker, by InUse.
LEMMA StartFinishStep ==
    ASSUME NEW a \in Agents, ThrInv, StartFinish(a)
    PROVE  ThrInv'
<1>1. /\ Shapes /\ HookExclusive /\ Lives /\ MainLives /\ Once /\ DoomedLeave
      /\ Counted /\ InUse /\ InGroup /\ TornDown
  BY DEF ThrInv
<1>2. UNCHANGED <<m_threads, list, visited>>
  BY DEF StartFinish, group, mains
<1>3. /\ Members' = Members /\ Held' = Held
      /\ Elems(list)' = Elems(list) /\ Elems(visited)' = Elems(visited) /\ Once'
  BY <1>1, <1>2, ArraysStay
<1>4. target[a] \in Workers /\ m_state'[Main] = m_state[Main]
  BY <1>1, Who DEF StartFinish, ThrGoto, InUse, Shapes
<1>5. Shapes'
  BY <1>1, <1>3, <1>4, Labels DEF StartFinish, ThrGoto, group, program, mains,
     Shapes
<1>6. HookExclusive'
  BY <1>1, <1>3, <1>4 DEF StartFinish, ThrGoto, group, Shapes, HookExclusive,
     Locked
<1>7. Lives'
  BY <1>1, <1>3, <1>4 DEF StartFinish, ThrGoto, program, mains, Shapes, Lives,
     HookLabels, MainsOnly
<1>8. MainLives'
  BY <1>1, <1>3, <1>4 DEF StartFinish, ThrGoto, mains, Shapes, MainLives,
     HookLabels, MainsOnly, Joins, Visits, Dead
<1>9. DoomedLeave'
  BY <1>1, <1>3, <1>4 DEF StartFinish, ThrGoto, mains, Shapes, DoomedLeave
<1>10. \A u \in Agents : Selves(u)' = Selves(u)
  <2>1. \A u \in Workers : Selves(u)' = Selves(u)
    BY <1>1, <1>4, Who DEF StartFinish, ThrGoto, Shapes, Selves
  <2>2. Selves(Main)' = Selves(Main)
    BY <1>1, <1>4, Who DEF StartFinish, ThrGoto, Shapes, Selves, Dead
  <2> QED BY <2>1, <2>2, Who
<1>11. \A u \in doomed : ToDrop(u)' => ToDrop(u)
  BY <1>1, <1>4 DEF StartFinish, ThrGoto, Shapes, ToDrop
<1>12. Counted'
  <2>1. UNCHANGED <<m_refcount, ownerStruct, doomed>>
    BY DEF StartFinish, program, mains
  <2> QED BY <1>1, <1>3, <1>10, <1>11, <2>1, CountSame, Zenon
<1>13. InUse'
  BY <1>1, <1>3, <1>4 DEF StartFinish, ThrGoto, program, Shapes, InUse, Joins,
     Dead
<1>14. InGroup'
  BY <1>1, <1>3, <1>4 DEF StartFinish, ThrGoto, mains, Shapes, InGroup, Ended
<1>15. TornDown'
  BY <1>1, <1>3, <1>4 DEF StartFinish, ThrGoto, mains, Shapes, TornDown
<1> QED BY <1>3, <1>5, <1>6, <1>7, <1>8, <1>9, <1>12, <1>13, <1>14, <1>15
       DEF ThrInv

\* The group was free, so nobody else is inside exit_hook.
LEMMA HookLockStep ==
    ASSUME NEW a \in Agents, ThrInv, HookLock(a)
    PROVE  ThrInv'
<1>1. /\ Shapes /\ HookExclusive /\ Lives /\ MainLives /\ Once /\ DoomedLeave
      /\ Counted /\ InUse /\ InGroup /\ TornDown
  BY DEF ThrInv
<1>2. UNCHANGED <<m_threads, list, visited>>
  BY DEF HookLock, mains
<1>3. /\ Members' = Members /\ Held' = Held
      /\ Elems(list)' = Elems(list) /\ Elems(visited)' = Elems(visited) /\ Once'
  BY <1>1, <1>2, ArraysStay
<1>4. Shapes'
  BY <1>1, <1>3, Labels DEF HookLock, ThrGoto, objects, program, mains, Shapes
<1>5. HookExclusive'
  BY <1>1, <1>3, Who DEF HookLock, ThrGoto, Shapes, HookExclusive, Locked
<1>6. Lives'
  BY <1>1, <1>3 DEF HookLock, ThrGoto, objects, program, mains, Shapes, Lives,
     HookLabels, MainsOnly
<1>7. MainLives'
  BY <1>1, <1>3 DEF HookLock, ThrGoto, objects, mains, Shapes, MainLives,
     HookLabels, MainsOnly, Joins, Visits, Dead
<1>8. DoomedLeave'
  BY <1>1, <1>3 DEF HookLock, ThrGoto, mains, Shapes, DoomedLeave
<1>9. \A u \in Agents : Selves(u)' = Selves(u)
  <2>1. \A u \in Workers : Selves(u)' = Selves(u)
    BY <1>1, Who DEF HookLock, ThrGoto, Shapes, Selves
  <2>2. Selves(Main)' = Selves(Main)
    BY <1>1, Who DEF HookLock, ThrGoto, objects, Shapes, Selves, Dead
  <2> QED BY <2>1, <2>2, Who
<1>10. \A u \in doomed : ToDrop(u)' => ToDrop(u)
  BY <1>1 DEF HookLock, ThrGoto, Shapes, ToDrop
<1>11. Counted'
  <2>1. UNCHANGED <<m_refcount, ownerStruct, doomed>>
    BY DEF HookLock, objects, program, mains
  <2> QED BY <1>1, <1>3, <1>9, <1>10, <2>1, CountSame
<1>12. InUse'
  BY <1>1, <1>3 DEF HookLock, ThrGoto, objects, program, Shapes, InUse, Joins,
     Dead
<1>13. InGroup'
  BY <1>1, <1>3 DEF HookLock, ThrGoto, mains, Shapes, InGroup, Ended
<1>14. TornDown'
  BY <1>1, <1>3 DEF HookLock, ThrGoto, mains, Shapes, TornDown
<1> QED BY <1>3, <1>4, <1>5, <1>6, <1>7, <1>8, <1>11, <1>12, <1>13, <1>14
       DEF ThrInv

\* A worker ends its own thread; the main thread ends its own, or one
\* that was never started. Those who wake up go back to joinTest.
LEMMA HookDieStep ==
    ASSUME NEW a \in Agents, ThrInv, HookDie(a)
    PROVE  ThrInv'
<1>1. /\ Shapes /\ HookExclusive /\ Lives /\ MainLives /\ Once /\ DoomedLeave
      /\ Counted /\ InUse /\ InGroup /\ TornDown
  BY DEF ThrInv
<1>2. UNCHANGED <<m_threads, list, visited>>
  BY DEF HookDie, group, mains
<1>3. /\ Members' = Members /\ Held' = Held
      /\ Elems(list)' = Elems(list) /\ Elems(visited)' = Elems(visited) /\ Once'
  BY <1>1, <1>2, ArraysStay
<1>4. \/ a = Main
      \/ a \in Workers /\ target[a] = a /\ m_state'[Main] = m_state[Main]
  BY <1>1, Who DEF HookDie, Lives, HookLabels, Shapes
<1>5. Shapes'
  BY <1>1, <1>3, <1>4, Labels DEF HookDie, group, program, mains, Shapes
<1>6. HookExclusive'
  BY <1>1, <1>3, <1>4 DEF HookDie, group, Shapes, HookExclusive, Locked
<1>7. Lives'
  BY <1>1, <1>3, <1>4, Who DEF HookDie, program, mains, Shapes, Lives,
     HookLabels, MainsOnly
<1>8. MainLives'
  BY <1>1, <1>3, <1>4, Who DEF HookDie, mains, Shapes, MainLives, HookLabels,
     MainsOnly, Joins, Visits, Dead
<1>9. DoomedLeave'
  BY <1>1, <1>3, <1>4, Who DEF HookDie, mains, Shapes, DoomedLeave
<1>10. \A u \in Agents : Selves(u)' = Selves(u)
  <2>1. \A u \in Workers : Selves(u)' = Selves(u)
    BY <1>1, <1>4, Who DEF HookDie, Shapes, Selves
  <2>2. Selves(Main)' = Selves(Main)
    BY <1>1, <1>4, Who DEF HookDie, Shapes, Selves, Dead, MainLives,
       HookLabels, MainsOnly, Joins
  <2> QED BY <2>1, <2>2, Who
<1>11. \A u \in doomed : ToDrop(u)' => ToDrop(u)
  BY <1>1, <1>4, Who DEF HookDie, Shapes, ToDrop
<1>12. Counted'
  <2>1. UNCHANGED <<m_refcount, ownerStruct, doomed>>
    BY DEF HookDie, program, mains
  <2> QED BY <1>1, <1>3, <1>10, <1>11, <2>1, CountSame, Zenon
<1>13. InUse'
  BY <1>1, <1>3, <1>4 DEF HookDie, program, Shapes, InUse, Joins, Dead
<1>14. InGroup'
  BY <1>1, <1>3, <1>4, Who DEF HookDie, mains, Shapes, InGroup, Ended
<1>15. TornDown'
  BY <1>1, <1>3, <1>4, Who DEF HookDie, mains, Shapes, TornDown
<1> QED BY <1>3, <1>5, <1>6, <1>7, <1>8, <1>9, <1>12, <1>13, <1>14, <1>15
       DEF ThrInv

\* The object gives up its reference to itself, or waitTermination's
\* destroy gives it up in its place.
LEMMA HookDropStep ==
    ASSUME NEW a \in Agents, ThrInv, HookDrop(a)
    PROVE  ThrInv'
<1>1. /\ Shapes /\ HookExclusive /\ Lives /\ MainLives /\ Once /\ DoomedLeave
      /\ Counted /\ InUse /\ InGroup /\ TornDown
  BY DEF ThrInv
<1>2. UNCHANGED <<m_threads, list, visited>>
  BY DEF HookDrop, group, mains
<1>3. /\ Members' = Members /\ Held' = Held
      /\ Elems(list)' = Elems(list) /\ Elems(visited)' = Elems(visited) /\ Once'
  BY <1>1, <1>2, ArraysStay
<1>4. \/ a \in Workers /\ target[a] = a
      \/ /\ a = Main /\ Dead
         /\ target[Main] = Main \/ (target[Main] \in doomed /\ target[Main] # Main)
  <2>1. CASE a \in Workers
    BY <1>1, <2>1 DEF HookDrop, ThrGoto, Lives, HookLabels
  <2>2. CASE a = Main
    <3>1. thrPc[Main] = "hookDrop"
      BY <2>2 DEF HookDrop, ThrGoto
    <3>2. Dead
      BY <1>1, <3>1 DEF MainLives, Joins
    <3>3. target[Main] = Main \/ target[Main] \in doomed
      BY <1>1, <3>1, <3>2 DEF MainLives, HookLabels
    <3>4. Main \notin doomed
      BY <1>1, Who DEF Shapes
    <3> QED BY <2>2, <3>2, <3>3, <3>4
  <2> QED BY <2>1, <2>2, Who
<1>5. \A u \in Agents : Handles(u)' = Handles(u) /\ Handles(u) \in Int
  BY <1>3 DEF HookDrop, Handles, Bit, program, Shapes
<1>6. Shapes'
  BY <1>1, <1>3, <1>4, Labels DEF HookDrop, ThrGoto, group, program, mains,
     Shapes
<1>7. HookExclusive'
  BY <1>1, <1>3, <1>4 DEF HookDrop, ThrGoto, group, Shapes, HookExclusive,
     Locked
<1>8. Lives'
  BY <1>1, <1>3, <1>4 DEF HookDrop, ThrGoto, program, mains, Shapes, Lives,
     HookLabels, MainsOnly
<1>9. MainLives'
  BY <1>1, <1>3, <1>4 DEF HookDrop, ThrGoto, mains, Shapes, MainLives,
     HookLabels, MainsOnly, Joins, Visits, Dead
<1>10. DoomedLeave'
  BY <1>1, <1>3, <1>4 DEF HookDrop, ThrGoto, mains, Shapes, DoomedLeave
<1>11. Counted'
  <2> SUFFICES ASSUME NEW u \in Agents
               PROVE  \/ m_refcount'[u] = Handles(u)' + Selves(u)'
                      \/ /\ u \in doomed' /\ ~ToDrop(u)'
                         /\ m_refcount'[u] = Handles(u)' + Selves(u)' - 1
    BY DEF Counted
  <2>1. /\ m_refcount'[u] = IF u = target[a] THEN m_refcount[u] - 1 ELSE m_refcount[u]
        /\ m_refcount[u] \in Int /\ doomed' = doomed
    BY <1>1, <1>4, Who DEF HookDrop, mains, Shapes
  <2>2. \/ m_refcount[u] = Handles(u) + Selves(u)
        \/ u \in doomed /\ ~ToDrop(u) /\ m_refcount[u] = Handles(u) + Selves(u) - 1
    BY <1>1 DEF Counted
  <2>3. Handles(u)' = Handles(u) /\ Handles(u) \in Int
    BY <1>5
  <2>4. Selves(u) \in Int /\ Selves(u)' \in Int
    BY DEF Selves, Bit
  <2>5. CASE target[a] = a
    <3>1. Selves(u)' = IF u = a THEN Selves(u) - 1 ELSE Selves(u)
      BY <1>1, <1>4, <2>5, Who DEF HookDrop, ThrGoto, mains, Shapes, Selves, Dead, Bit
    <3>2. ToDrop(u)' => ToDrop(u)
      BY <1>1, <1>4, <2>5, Who DEF HookDrop, ThrGoto, mains, Shapes, ToDrop
    <3> QED BY <2>1, <2>2, <2>3, <2>4, <2>5, <3>1, <3>2
  <2>6. CASE target[a] # a
    <3>1. a = Main /\ Dead /\ target[Main] \in doomed /\ target[Main] # Main
      BY <1>4, <2>6
    <3>2. Selves(u)' = Selves(u)
      BY <1>1, <3>1, Who DEF HookDrop, ThrGoto, mains, Shapes, Selves, Dead, Bit
    <3>3. ToDrop(target[Main]) /\ ~ToDrop(u)'
      BY <1>1, <3>1, Who DEF HookDrop, ThrGoto, mains, Shapes, ToDrop
    <3> QED BY <2>1, <2>2, <2>3, <2>4, <3>1, <3>2, <3>3
  <2> QED BY <2>5, <2>6
<1>12. InUse'
  BY <1>1, <1>3, <1>4 DEF HookDrop, ThrGoto, program, Shapes, InUse, Joins, Dead
<1>13. InGroup'
  BY <1>1, <1>3, <1>4 DEF HookDrop, ThrGoto, mains, Shapes, InGroup, Ended
<1>14. TornDown'
  BY <1>1, <1>3, <1>4 DEF HookDrop, ThrGoto, mains, Shapes, TornDown
<1> QED BY <1>3, <1>6, <1>7, <1>8, <1>9, <1>10, <1>11, <1>12, <1>13, <1>14
       DEF ThrInv

\* The group is free again.
LEMMA HookUnlockStep ==
    ASSUME NEW a \in Agents, ThrInv, HookUnlock(a)
    PROVE  ThrInv'
<1>1. /\ Shapes /\ HookExclusive /\ Lives /\ MainLives /\ Once /\ DoomedLeave
      /\ Counted /\ InUse /\ InGroup /\ TornDown
  BY DEF ThrInv
<1>2. UNCHANGED <<m_threads, list, visited>>
  BY DEF HookUnlock, mains
<1>3. /\ Members' = Members /\ Held' = Held
      /\ Elems(list)' = Elems(list) /\ Elems(visited)' = Elems(visited) /\ Once'
  BY <1>1, <1>2, ArraysStay
<1>4. Shapes'
  BY <1>1, <1>3, Labels DEF HookUnlock, ThrGoto, objects, program, mains, Shapes
<1>5. HookExclusive'
  BY <1>1, <1>3, Who DEF HookUnlock, ThrGoto, Shapes, HookExclusive, Locked
<1>6. Lives'
  BY <1>1, <1>3, Who DEF HookUnlock, ThrGoto, objects, program, mains, Shapes,
     Lives, HookLabels, MainsOnly
<1>7. MainLives'
  BY <1>1, <1>3, Who DEF HookUnlock, ThrGoto, objects, mains, Shapes,
     MainLives, HookLabels, MainsOnly, Joins, Visits, Dead
<1>8. DoomedLeave'
  BY <1>1, <1>3 DEF HookUnlock, ThrGoto, mains, Shapes, DoomedLeave
<1>9. \A u \in Agents : Selves(u)' = Selves(u)
  <2>1. \A u \in Workers : Selves(u)' = Selves(u)
    BY <1>1, Who DEF HookUnlock, ThrGoto, Shapes, Selves
  <2>2. Selves(Main)' = Selves(Main)
    BY <1>1, Who DEF HookUnlock, ThrGoto, objects, Shapes, Selves, Dead
  <2> QED BY <2>1, <2>2, Who
<1>10. \A u \in doomed : ToDrop(u)' => ToDrop(u)
  BY <1>1 DEF HookUnlock, ThrGoto, Shapes, ToDrop
<1>11. Counted'
  <2>1. UNCHANGED <<m_refcount, ownerStruct, doomed>>
    BY DEF HookUnlock, objects, program, mains
  <2> QED BY <1>1, <1>3, <1>9, <1>10, <2>1, CountSame
<1>12. InUse'
  BY <1>1, <1>3 DEF HookUnlock, ThrGoto, objects, program, Shapes, InUse,
     Joins, Dead
<1>13. InGroup'
  BY <1>1, <1>3, Who DEF HookUnlock, ThrGoto, mains, Shapes, InGroup, Ended
<1>14. TornDown'
  BY <1>1, <1>3 DEF HookUnlock, ThrGoto, mains, Shapes, TornDown
<1> QED BY <1>3, <1>4, <1>5, <1>6, <1>7, <1>8, <1>11, <1>12, <1>13, <1>14
       DEF ThrInv

\* What is started is a new thread that nobody is starting.
LEMMA StartThreadStep ==
    ASSUME NEW a \in Agents, NEW t \in Workers, ThrInv, StartThread(a, t)
    PROVE  ThrInv'
<1>1. /\ Shapes /\ HookExclusive /\ Lives /\ MainLives /\ Once /\ DoomedLeave
      /\ Counted /\ InUse /\ InGroup /\ TornDown
  BY DEF ThrInv
<1>2. UNCHANGED <<m_threads, list, visited>>
  BY DEF StartThread, group, mains
<1>3. /\ Members' = Members /\ Held' = Held
      /\ Elems(list)' = Elems(list) /\ Elems(visited)' = Elems(visited) /\ Once'
  BY <1>1, <1>2, ArraysStay
<1>4. thrPc[t] = "new" /\ a # t
  BY <1>1 DEF StartThread, Mine, Lives, Shapes
<1>5. Shapes'
  BY <1>1, <1>3, <1>4, Who, Labels DEF StartThread, Mine, group, program,
     mains, Shapes
<1>6. HookExclusive'
  BY <1>1, <1>3, <1>4 DEF StartThread, Mine, group, Shapes, HookExclusive,
     Locked
<1>7. Lives'
  BY <1>1, <1>3, <1>4, Who DEF StartThread, Mine, program, mains, Shapes,
     Lives, HookLabels, MainsOnly
<1>8. MainLives'
  BY <1>1, <1>3, <1>4, Who DEF StartThread, Mine, mains, Shapes, MainLives,
     HookLabels, MainsOnly, Joins, Visits, Dead
<1>9. DoomedLeave'
  BY <1>1, <1>3, <1>4, Who DEF StartThread, Mine, mains, Shapes, DoomedLeave
<1>10. \A u \in Agents : Selves(u)' = Selves(u)
  <2>1. \A u \in Workers : Selves(u)' = Selves(u)
    BY <1>1, <1>4, Who DEF StartThread, Mine, Shapes, Selves
  <2>2. Selves(Main)' = Selves(Main)
    BY <1>1, <1>4, Who DEF StartThread, Mine, Shapes, Selves, Dead
  <2> QED BY <2>1, <2>2, Who
<1>11. \A u \in doomed : ToDrop(u)' => ToDrop(u)
  BY <1>1, <1>4, Who DEF StartThread, Mine, Shapes, ToDrop
<1>12. Counted'
  <2>1. UNCHANGED <<m_refcount, ownerStruct, doomed>>
    BY DEF StartThread, Mine, program, mains
  <2> QED BY <1>1, <1>3, <1>10, <1>11, <2>1, CountSame, Zenon
<1>13. InUse'
  BY <1>1, <1>3, <1>4 DEF StartThread, Mine, program, Shapes, InUse, Joins, Dead
<1>14. InGroup'
  BY <1>1, <1>3, <1>4, Who DEF StartThread, Mine, mains, Shapes, InGroup, Ended
<1>15. TornDown'
  BY <1>1, <1>3, <1>4, Who DEF StartThread, Mine, mains, Shapes, TornDown
<1> QED BY <1>3, <1>5, <1>6, <1>7, <1>8, <1>9, <1>12, <1>13, <1>14, <1>15
       DEF ThrInv

\* A struct goes whose user is not inside a start or a join.
LEMMA DestroyStructStep ==
    ASSUME NEW a \in Agents, NEW t \in Workers, ThrInv, DestroyStruct(a, t)
    PROVE  ThrInv'
<1>1. /\ Shapes /\ HookExclusive /\ Lives /\ MainLives /\ Once /\ DoomedLeave
      /\ Counted /\ InUse /\ InGroup /\ TornDown
  BY DEF ThrInv
<1>2. UNCHANGED <<m_threads, list, visited>>
  BY DEF DestroyStruct, group, mains
<1>3. /\ Members' = Members /\ Held' = Held
      /\ Elems(list)' = Elems(list) /\ Elems(visited)' = Elems(visited) /\ Once'
  BY <1>1, <1>2, ArraysStay
<1>4. Shapes'
  BY <1>1, <1>3, Who, Labels DEF DestroyStruct, Mine, group, mains, Shapes
<1>5. HookExclusive'
  BY <1>1, <1>3 DEF DestroyStruct, Mine, group, Shapes, HookExclusive, Locked
<1>6. Lives'
  BY <1>1, <1>3 DEF DestroyStruct, Mine, mains, Shapes, Lives, HookLabels,
     MainsOnly
<1>7. MainLives'
  BY <1>1, <1>3 DEF DestroyStruct, Mine, mains, Shapes, MainLives, HookLabels,
     MainsOnly, Joins, Visits, Dead
<1>8. DoomedLeave'
  BY <1>1, <1>3 DEF DestroyStruct, Mine, mains, Shapes, DoomedLeave
<1>9. \A u \in Agents : /\ Handles(u) \in Int /\ Selves(u) \in Int /\ Selves(u)' = Selves(u)
                        /\ Handles(u)' = Handles(u) - Bit(u = t)
  <2>1. \A u \in Agents : /\ Handles(u) \in Int
                          /\ Handles(u)' = Handles(u) - Bit(u = t)
    BY <1>1, <1>3 DEF DestroyStruct, Handles, Bit, Shapes
  <2>2. \A u \in Agents : Selves(u) \in Int /\ Selves(u)' = Selves(u)
    BY DEF DestroyStruct, Selves, Bit, Dead
  <2> QED BY <2>1, <2>2
<1>10. Counted'
  <2>1. \A u \in Agents : m_refcount[u] \in Int /\ m_refcount'[u] = m_refcount[u] - Bit(u = t)
    BY <1>1 DEF DestroyStruct, Shapes, Bit
  <2>2. \A u \in Agents : m_refcount'[u] \in Int /\ Handles(u)' \in Int /\ Selves(u)' \in Int
    BY <1>9, <2>1 DEF Bit
  <2>3. \A u \in Agents : m_refcount'[u] - Handles(u)' - Selves(u)'
                          = m_refcount[u] - Handles(u) - Selves(u)
    BY <1>9, <2>1 DEF Bit
  <2>4. doomed' = doomed /\ \A u \in Agents : ToDrop(u)' <=> ToDrop(u)
    BY DEF DestroyStruct, mains, ToDrop
  <2> QED BY <1>1, <1>9, <2>1, <2>2, <2>3, <2>4, CountKept
<1>11. InUse'
  BY <1>1, <1>3 DEF DestroyStruct, Mine, Shapes, InUse, Joins, Dead
<1>12. InGroup'
  BY <1>1, <1>3 DEF DestroyStruct, Mine, mains, Shapes, InGroup, Ended
<1>13. TornDown'
  BY <1>1, <1>3 DEF DestroyStruct, Mine, mains, Shapes, TornDown
<1> QED BY <1>3, <1>4, <1>5, <1>6, <1>7, <1>8, <1>10, <1>11, <1>12, <1>13
       DEF ThrInv

\* A struct changes hands while its user is not inside a start or a join.
LEMMA HandOverStep ==
    ASSUME NEW a \in Agents, NEW t \in Workers, ThrInv, HandOver(a, t)
    PROVE  ThrInv'
<1>1. /\ Shapes /\ HookExclusive /\ Lives /\ MainLives /\ Once /\ DoomedLeave
      /\ Counted /\ InUse /\ InGroup /\ TornDown
  BY DEF ThrInv
<1>2. UNCHANGED <<m_threads, list, visited>>
  BY DEF HandOver, group, mains
<1>3. /\ Members' = Members /\ Held' = Held
      /\ Elems(list)' = Elems(list) /\ Elems(visited)' = Elems(visited) /\ Once'
  BY <1>1, <1>2, ArraysStay
<1>4. Shapes'
  BY <1>1, <1>3, Labels DEF HandOver, Mine, objects, group, mains, Shapes
<1>5. HookExclusive'
  BY <1>1, <1>3 DEF HandOver, Mine, group, Shapes, HookExclusive, Locked
<1>6. Lives'
  BY <1>1, <1>3 DEF HandOver, Mine, objects, mains, Shapes, Lives, HookLabels,
     MainsOnly
<1>7. MainLives'
  BY <1>1, <1>3 DEF HandOver, Mine, objects, mains, Shapes, MainLives,
     HookLabels, MainsOnly, Joins, Visits, Dead
<1>8. DoomedLeave'
  BY <1>1, <1>3 DEF HandOver, Mine, mains, Shapes, DoomedLeave
<1>9. \A u \in Agents : Selves(u)' = Selves(u)
  <2>1. \A u \in Workers : Selves(u)' = Selves(u)
    BY <1>1, Who DEF HandOver, Mine, Shapes, Selves
  <2>2. Selves(Main)' = Selves(Main)
    BY <1>1 DEF HandOver, Mine, objects, Shapes, Selves, Dead
  <2> QED BY <2>1, <2>2, Who
<1>10. \A u \in doomed : ToDrop(u)' => ToDrop(u)
  BY <1>1 DEF HandOver, Mine, Shapes, ToDrop
<1>11. Counted'
  <2>1. UNCHANGED <<m_refcount, ownerStruct, doomed>>
    BY DEF HandOver, Mine, objects, mains
  <2> QED BY <1>1, <1>3, <1>9, <1>10, <2>1, CountSame
<1>12. InUse'
  BY <1>1, <1>3 DEF HandOver, Mine, objects, Shapes, InUse, Joins, Dead
<1>13. InGroup'
  BY <1>1, <1>3 DEF HandOver, Mine, mains, Shapes, InGroup, Ended
<1>14. TornDown'
  BY <1>1, <1>3 DEF HandOver, Mine, mains, Shapes, TornDown
<1> QED BY <1>3, <1>4, <1>5, <1>6, <1>7, <1>8, <1>11, <1>12, <1>13, <1>14
       DEF ThrInv

\* Who joins a thread has its struct.
LEMMA JoinThreadStep ==
    ASSUME NEW a \in Agents, NEW t \in Workers, ThrInv, JoinThread(a, t)
    PROVE  ThrInv'
<1>1. /\ Shapes /\ HookExclusive /\ Lives /\ MainLives /\ Once /\ DoomedLeave
      /\ Counted /\ InUse /\ InGroup /\ TornDown
  BY DEF ThrInv
<1>2. UNCHANGED <<m_threads, list, visited>>
  BY DEF JoinThread, group, mains
<1>3. /\ Members' = Members /\ Held' = Held
      /\ Elems(list)' = Elems(list) /\ Elems(visited)' = Elems(visited) /\ Once'
  BY <1>1, <1>2, ArraysStay
<1>4. a = Main => doomed \cap Members = {}
  BY <1>1 DEF JoinThread, ThrGoto, DoomedLeave
<1>5. Shapes'
  BY <1>1, <1>3, <1>4, Who, Labels DEF JoinThread, Mine, ThrGoto, objects,
     group, program, mains, Shapes
<1>6. HookExclusive'
  BY <1>1, <1>3, <1>4 DEF JoinThread, Mine, ThrGoto, group, Shapes,
     HookExclusive, Locked
<1>7. Lives'
  BY <1>1, <1>3, <1>4 DEF JoinThread, Mine, ThrGoto, objects, program, mains,
     Shapes, Lives, HookLabels, MainsOnly
<1>8. MainLives'
  BY <1>1, <1>3, <1>4 DEF JoinThread, Mine, ThrGoto, objects, mains, Shapes,
     MainLives, HookLabels, MainsOnly, Joins, Visits, Dead
<1>9. DoomedLeave'
  BY <1>1, <1>3, <1>4 DEF JoinThread, Mine, ThrGoto, mains, Shapes, DoomedLeave
<1>10. \A u \in Agents : Selves(u)' = Selves(u)
  <2>1. \A u \in Workers : Selves(u)' = Selves(u)
    BY <1>1, <1>4, Who DEF JoinThread, Mine, ThrGoto, Shapes, Selves
  <2>2. Selves(Main)' = Selves(Main)
    BY <1>1, <1>4, Who DEF JoinThread, Mine, ThrGoto, objects, Shapes, Selves,
       Dead
  <2> QED BY <2>1, <2>2, Who
<1>11. \A u \in doomed : ToDrop(u)' => ToDrop(u)
  BY <1>1, <1>4 DEF JoinThread, Mine, ThrGoto, Shapes, ToDrop
<1>12. Counted'
  <2>1. UNCHANGED <<m_refcount, ownerStruct, doomed>>
    BY DEF JoinThread, Mine, objects, program, mains
  <2> QED BY <1>1, <1>3, <1>10, <1>11, <2>1, CountSame, Zenon
<1>13. InUse'
  BY <1>1, <1>3, <1>4 DEF JoinThread, Mine, ThrGoto, objects, program, Shapes,
     InUse, Joins, Dead
<1>14. InGroup'
  BY <1>1, <1>3, <1>4 DEF JoinThread, Mine, ThrGoto, mains, Shapes, InGroup,
     Ended
<1>15. TornDown'
  BY <1>1, <1>3, <1>4 DEF JoinThread, Mine, ThrGoto, mains, Shapes, TornDown
<1> QED BY <1>3, <1>5, <1>6, <1>7, <1>8, <1>9, <1>12, <1>13, <1>14, <1>15
       DEF ThrInv

\* The main thread gives up itself first.
LEMMA WaitTerminationStep ==
    ASSUME ThrInv, WaitTermination
    PROVE  ThrInv'
<1>1. /\ Shapes /\ HookExclusive /\ Lives /\ MainLives /\ Once /\ DoomedLeave
      /\ Counted /\ InUse /\ InGroup /\ TornDown
  BY DEF ThrInv
<1>2. UNCHANGED <<m_threads, list, visited>>
  BY DEF WaitTermination, group, mains
<1>3. /\ Members' = Members /\ Held' = Held
      /\ Elems(list)' = Elems(list) /\ Elems(visited)' = Elems(visited) /\ Once'
  BY <1>1, <1>2, ArraysStay
<1>4. Shapes'
  BY <1>1, <1>3, Labels DEF WaitTermination, ThrGoto, objects, group, program,
     mains, Shapes
<1>5. HookExclusive'
  BY <1>1, <1>3 DEF WaitTermination, ThrGoto, group, Shapes, HookExclusive,
     Locked
<1>6. Lives'
  BY <1>1, <1>3 DEF WaitTermination, ThrGoto, objects, program, mains, Shapes,
     Lives, HookLabels, MainsOnly
<1>7. MainLives'
  BY <1>1, <1>3 DEF WaitTermination, ThrGoto, objects, mains, Shapes,
     MainLives, HookLabels, MainsOnly, Joins, Visits, Dead
<1>8. DoomedLeave'
  BY <1>1, <1>3 DEF WaitTermination, ThrGoto, mains, Shapes, DoomedLeave
<1>9. \A u \in Agents : Selves(u)' = Selves(u)
  <2>1. \A u \in Workers : Selves(u)' = Selves(u)
    BY <1>1, Who DEF WaitTermination, ThrGoto, Shapes, Selves
  <2>2. Selves(Main)' = Selves(Main)
    BY <1>1 DEF WaitTermination, ThrGoto, objects, Shapes, Selves, Dead
  <2> QED BY <2>1, <2>2, Who
<1>10. \A u \in doomed : ToDrop(u)' => ToDrop(u)
  BY <1>1, Who DEF WaitTermination, ThrGoto, Shapes, ToDrop
<1>11. Counted'
  <2>1. UNCHANGED <<m_refcount, ownerStruct, doomed>>
    BY DEF WaitTermination, objects, program, mains
  <2> QED BY <1>1, <1>3, <1>9, <1>10, <2>1, CountSame
<1>12. InUse'
  BY <1>1, <1>3 DEF WaitTermination, ThrGoto, program, Shapes, InUse, Joins,
     Dead
<1>13. InGroup'
  BY <1>1, <1>3 DEF WaitTermination, ThrGoto, mains, Shapes, InGroup, Ended
<1>14. TornDown'
  BY <1>1, <1>3 DEF WaitTermination, ThrGoto, Shapes, TornDown
<1> QED BY <1>3, <1>4, <1>5, <1>6, <1>7, <1>8, <1>11, <1>12, <1>13, <1>14
       DEF ThrInv

\* With the group empty and free every thread is gone, by InGroup.
LEMMA CountStep ==
    ASSUME ThrInv, Count
    PROVE  ThrInv'
<1>1. /\ Shapes /\ HookExclusive /\ Lives /\ MainLives /\ Once /\ DoomedLeave
      /\ Counted /\ InUse /\ InGroup /\ TornDown
  BY DEF ThrInv
<1>2. UNCHANGED <<m_threads, list, visited>>
  BY DEF Count, group
<1>3. /\ Members' = Members /\ Held' = Held
      /\ Elems(list)' = Elems(list) /\ Elems(visited)' = Elems(visited) /\ Once'
  BY <1>1, <1>2, ArraysStay
<1>4. m_threads = <<>> => Members = {}
  BY DEF Members
<1>5. Shapes'
  BY <1>1, <1>3, <1>4, Who, Labels DEF Count, ThrGoto, objects, group,
     program, Shapes
<1>6. HookExclusive'
  BY <1>1, <1>3, <1>4 DEF Count, ThrGoto, group, Shapes, HookExclusive, Locked
<1>7. Lives'
  BY <1>1, <1>3, <1>4 DEF Count, ThrGoto, objects, program, Shapes, Lives,
     HookLabels, MainsOnly
<1>8. MainLives'
  BY <1>1, <1>3, <1>4 DEF Count, ThrGoto, objects, Shapes, MainLives,
     HookLabels, MainsOnly, Joins, Visits, Dead
<1>9. DoomedLeave'
  BY <1>1, <1>3, <1>4 DEF Count, ThrGoto, Shapes, DoomedLeave
<1>10. \A u \in Agents : Selves(u)' = Selves(u)
  <2>1. \A u \in Workers : Selves(u)' = Selves(u)
    BY <1>1, <1>4, Who DEF Count, ThrGoto, Shapes, Selves
  <2>2. Selves(Main)' = Selves(Main)
    BY <1>1, <1>4 DEF Count, ThrGoto, objects, Shapes, Selves, Dead
  <2> QED BY <2>1, <2>2, Who
<1>11. \A u \in doomed : ToDrop(u)' => ToDrop(u)
  BY <1>1, <1>4 DEF Count, ThrGoto, Shapes, ToDrop
<1>12. Counted'
  <2>1. UNCHANGED <<m_refcount, ownerStruct, doomed>>
    BY DEF Count, objects, program
  <2> QED BY <1>1, <1>3, <1>10, <1>11, <2>1, CountSame, Zenon
<1>13. InUse'
  BY <1>1, <1>3, <1>4 DEF Count, ThrGoto, program, Shapes, InUse, Joins, Dead
<1>14. InGroup'
  BY <1>1, <1>3, <1>4 DEF Count, ThrGoto, Shapes, InGroup, Ended
<1>15. TornDown'
  BY <1>1, <1>3, <1>4, Who DEF Count, ThrGoto, Shapes, TornDown,
     HookExclusive, InGroup, Locked, Ended
<1> QED BY <1>3, <1>5, <1>6, <1>7, <1>8, <1>9, <1>12, <1>13, <1>14, <1>15
       DEF ThrInv

\* A thread that was visited is left alone or destroyed.
LEMMA ReadStateStep ==
    ASSUME ThrInv, ReadState
    PROVE  ThrInv'
<1>1. /\ Shapes /\ HookExclusive /\ Lives /\ MainLives /\ Once /\ DoomedLeave
      /\ Counted /\ InUse /\ InGroup /\ TornDown
  BY DEF ThrInv
<1>2. UNCHANGED <<m_threads, list, visited>>
  BY DEF ReadState, group, mains
<1>3. /\ Members' = Members /\ Held' = Held
      /\ Elems(list)' = Elems(list) /\ Elems(visited)' = Elems(visited) /\ Once'
  BY <1>1, <1>2, ArraysStay
<1>4. Shapes'
  BY <1>1, <1>3, Labels DEF ReadState, ThrGoto, objects, group, program,
     mains, Shapes
<1>5. HookExclusive'
  BY <1>1, <1>3 DEF ReadState, ThrGoto, group, Shapes, HookExclusive, Locked
<1>6. Lives'
  BY <1>1, <1>3 DEF ReadState, ThrGoto, objects, program, mains, Shapes,
     Lives, HookLabels, MainsOnly
<1>7. MainLives'
  BY <1>1, <1>3 DEF ReadState, ThrGoto, objects, mains, Shapes, MainLives,
     HookLabels, MainsOnly, Joins, Visits, Dead
<1>8. DoomedLeave'
  BY <1>1, <1>3 DEF ReadState, ThrGoto, mains, Shapes, DoomedLeave
<1>9. \A u \in Agents : Selves(u)' = Selves(u)
  <2>1. \A u \in Workers : Selves(u)' = Selves(u)
    BY <1>1, Who DEF ReadState, ThrGoto, Shapes, Selves
  <2>2. Selves(Main)' = Selves(Main)
    BY <1>1 DEF ReadState, ThrGoto, objects, Shapes, Selves, Dead
  <2> QED BY <2>1, <2>2, Who
<1>10. \A u \in doomed : ToDrop(u)' => ToDrop(u)
  BY <1>1 DEF ReadState, ThrGoto, Shapes, ToDrop
<1>11. Counted'
  <2>1. UNCHANGED <<m_refcount, ownerStruct, doomed>>
    BY DEF ReadState, objects, program, mains
  <2> QED BY <1>1, <1>3, <1>9, <1>10, <2>1, CountSame
<1>12. InUse'
  BY <1>1, <1>3 DEF ReadState, ThrGoto, program, Shapes, InUse, Joins, Dead
<1>13. InGroup'
  BY <1>1, <1>3 DEF ReadState, ThrGoto, mains, Shapes, InGroup, Ended
<1>14. TornDown'
  BY <1>1, <1>3 DEF ReadState, ThrGoto, Shapes, TornDown
<1> QED BY <1>3, <1>4, <1>5, <1>6, <1>7, <1>8, <1>11, <1>12, <1>13, <1>14
       DEF ThrInv

\* A thread becomes doomed once, since it is visited once.
LEMMA DestroyTestStep ==
    ASSUME ThrInv, DestroyTest
    PROVE  ThrInv'
<1>1. /\ Shapes /\ HookExclusive /\ Lives /\ MainLives /\ Once /\ DoomedLeave
      /\ Counted /\ InUse /\ InGroup /\ TornDown
  BY DEF ThrInv
<1>2. UNCHANGED <<m_threads, list, visited>>
  BY DEF DestroyTest, group
<1>3. /\ Members' = Members /\ Held' = Held
      /\ Elems(list)' = Elems(list) /\ Elems(visited)' = Elems(visited) /\ Once'
  BY <1>1, <1>2, ArraysStay
<1>4. /\ target[Main] \in Workers /\ target[Main] \in Elems(visited) /\ Dead
      /\ target[Main] \notin doomed /\ target[Main] \notin Elems(list)
  BY <1>1 DEF DestroyTest, ThrGoto, MainLives, Joins, Visits, Once, Held,
     HookLabels, Shapes
<1>5. \A u \in Agents : Handles(u)' = Handles(u) /\ Handles(u) \in Int
  BY <1>3 DEF DestroyTest, Handles, Bit, program, Shapes
<1>6. Shapes'
  BY <1>1, <1>3, <1>4, Labels DEF DestroyTest, ThrGoto, objects, group,
     program, Shapes
<1>7. HookExclusive'
  BY <1>1, <1>3, <1>4 DEF DestroyTest, ThrGoto, group, Shapes, HookExclusive,
     Locked
<1>8. Lives'
  BY <1>1, <1>3, <1>4 DEF DestroyTest, ThrGoto, objects, program, Shapes,
     Lives, HookLabels, MainsOnly
<1>9. MainLives'
  BY <1>1, <1>3, <1>4, Who DEF DestroyTest, ThrGoto, objects, Shapes,
     MainLives, HookLabels, MainsOnly, Joins, Visits, Dead
<1>10. DoomedLeave'
  BY <1>1, <1>3, <1>4, Who DEF DestroyTest, ThrGoto, Shapes, DoomedLeave
<1>11. Counted'
  BY <1>1, <1>3, <1>4, <1>5 DEF DestroyTest, ThrGoto, objects, Shapes,
     Counted, Selves, ToDrop, Dead, Bit
<1>12. InUse'
  BY <1>1, <1>3, <1>4 DEF DestroyTest, ThrGoto, program, Shapes, InUse, Joins,
     Dead
<1>13. InGroup'
  BY <1>1, <1>3, <1>4 DEF DestroyTest, ThrGoto, Shapes, InGroup, Ended
<1>14. TornDown'
  BY <1>1, <1>3, <1>4 DEF DestroyTest, ThrGoto, Shapes, TornDown
<1> QED BY <1>3, <1>6, <1>7, <1>8, <1>9, <1>10, <1>11, <1>12, <1>13, <1>14
       DEF ThrInv

\* The new thread is in the group and has three references.
LEMMA CreateThreadStep ==
    ASSUME NEW a \in Agents, NEW t \in Workers, ThrInv, CreateThread(a, t)
    PROVE  ThrInv'
<1>1. /\ Shapes /\ HookExclusive /\ Lives /\ MainLives /\ Once /\ DoomedLeave
      /\ Counted /\ InUse /\ InGroup /\ TornDown
  BY DEF ThrInv
<1>2. thrPc[t] = "none" /\ thrPc[a] = "running" /\ a # t
  BY DEF CreateThread
<1>3. ~ownerStruct[t] /\ t \notin Members \cup Held \cup doomed /\ t # Main
  BY <1>1, <1>2, Who DEF Lives
<1>4. Elems(m_threads) = Members
  BY DEF Elems, Members
<1>5. /\ m_threads' \in Seq(Agents) /\ Distinct(m_threads') /\ Elems(m_threads') = Members \cup {t}
  BY <1>1, <1>3, <1>4, Who, Appended DEF CreateThread, Shapes, Once
<1>6. Members' = Members \cup {t}
  BY <1>5 DEF Elems, Members
<1>7. /\ Elems(list)' = Elems(list) /\ Elems(visited)' = Elems(visited)
      /\ Distinct(list)' = Distinct(list) /\ Distinct(visited)' = Distinct(visited)
      /\ Held' = Held
  BY DEF CreateThread, Elems, Distinct, Held
<1>8. \A u \in Agents \ {t} : Handles(u)' = Handles(u) /\ Handles(u) \in Int
  BY <1>6, <1>7 DEF CreateThread, Handles, Bit, Shapes
<1>9. Handles(t)' = 2
  BY <1>1, <1>3, <1>6, <1>7 DEF CreateThread, Handles, Bit, Shapes
<1>10. Selves(t)' = 1 /\ \A u \in Agents \ {t} : Selves(u)' = Selves(u)
  BY <1>1, <1>2, <1>3, Who DEF CreateThread, Shapes, Selves, Bit, Dead
<1>11. \A u \in Agents : ToDrop(u)' => ToDrop(u)
  BY <1>1, <1>2, <1>3 DEF CreateThread, Shapes, ToDrop
<1>12. Counted'
  <2> SUFFICES ASSUME NEW u \in Agents
               PROVE  \/ m_refcount'[u] = Handles(u)' + Selves(u)'
                      \/ /\ u \in doomed' /\ ~ToDrop(u)'
                         /\ m_refcount'[u] = Handles(u)' + Selves(u)' - 1
    BY DEF Counted
  <2>1. CASE u = t
    <3>1. m_refcount'[t] = 3
      BY <1>1, Who DEF CreateThread, Shapes
    <3> QED BY <1>9, <1>10, <2>1, <3>1
  <2>2. CASE u # t
    <3>1. m_refcount'[u] = m_refcount[u] /\ (u \in doomed => u \in doomed')
      BY <1>1, <2>2 DEF CreateThread, Shapes
    <3>2. \/ m_refcount[u] = Handles(u) + Selves(u)
          \/ u \in doomed /\ ~ToDrop(u) /\ m_refcount[u] = Handles(u) + Selves(u) - 1
      BY <1>1 DEF Counted
    <3> QED BY <1>8, <1>10, <1>11, <2>2, <3>1, <3>2
  <2> QED BY <2>1, <2>2
<1>13. Shapes'
  BY <1>1, <1>2, <1>3, <1>5, <1>6, <1>7, Labels DEF CreateThread, Shapes
<1>14. HookExclusive'
  BY <1>1, <1>2, <1>3, <1>5, <1>6, <1>7 DEF CreateThread, Shapes,
     HookExclusive, Locked
<1>15. Lives'
  BY <1>1, <1>2, <1>3, <1>5, <1>6, <1>7 DEF CreateThread, Shapes, Lives,
     HookLabels, MainsOnly
<1>16. MainLives'
  BY <1>1, <1>2, <1>3, <1>5, <1>6, <1>7 DEF CreateThread, Shapes, MainLives,
     HookLabels, MainsOnly, Joins, Visits, Dead
<1>17. Once'
  BY <1>1, <1>2, <1>3, <1>5, <1>6, <1>7 DEF CreateThread, Shapes, Once, Held
<1>18. DoomedLeave'
  BY <1>1, <1>2, <1>3, <1>5, <1>6, <1>7 DEF CreateThread, Shapes, DoomedLeave,
     Held
<1>19. InUse'
  BY <1>1, <1>2, <1>3, <1>5, <1>6, <1>7 DEF CreateThread, Shapes, InUse,
     Joins, Dead
<1>20. InGroup'
  BY <1>1, <1>2, <1>3, <1>5, <1>6, <1>7 DEF CreateThread, Shapes, InGroup, Ended
<1>21. TornDown'
  BY <1>1, <1>2, <1>3, <1>5, <1>6, <1>7 DEF CreateThread, Shapes, TornDown
<1> QED BY <1>13, <1>14, <1>15, <1>16, <1>17, <1>18, <1>12, <1>19, <1>20,
       <1>21 DEF ThrInv

\* The handle of the group goes, and is counted, if it is there.
LEMMA HookRemoveStep ==
    ASSUME NEW a \in Agents, ThrInv, HookRemove(a)
    PROVE  ThrInv'
<1>1. /\ Shapes /\ HookExclusive /\ Lives /\ MainLives /\ Once /\ DoomedLeave
      /\ Counted /\ InUse /\ InGroup /\ TornDown
  BY DEF ThrInv
<1> DEFINE t == target[a]
<1>2. /\ t \in Agents /\ thrPc[a] = "hookRemove"
      /\ \/ a \in Workers /\ t = a
         \/ a = Main /\ Dead /\ (t = Main \/ (t \in doomed /\ t # Main))
  <2>1. t \in Agents /\ thrPc[a] = "hookRemove"
    BY <1>1 DEF HookRemove, ThrGoto, Shapes
  <2>2. CASE a \in Workers
    BY <1>1, <2>1, <2>2 DEF Lives, HookLabels
  <2>3. CASE a = Main
    <3>1. Dead
      BY <1>1, <2>1, <2>3 DEF MainLives, Joins
    <3>2. t = Main \/ t \in doomed
      BY <1>1, <2>1, <2>3, <3>1 DEF MainLives, HookLabels
    <3>3. Main \notin doomed
      BY <1>1, Who DEF Shapes
    <3> QED BY <2>1, <2>3, <3>1, <3>2, <3>3
  <2> QED BY <2>1, <2>2, <2>3, Who
<1>3. /\ thrPc' = [thrPc EXCEPT ![a] = "hookDrop"]
      /\ UNCHANGED <<m_state, m_mutex, ownerStruct, target>>
  BY DEF HookRemove, ThrGoto, program
<1>4. Elems(m_threads) = Members
  BY DEF Elems, Members
<1>5. /\ m_threads' \in Seq(Agents) /\ Distinct(m_threads') /\ Elems(m_threads') = Members \ {t}
      /\ m_refcount' = IF t \in Members THEN [m_refcount EXCEPT ![t] = @ - 1] ELSE m_refcount
  <2>1. ASSUME NEW i \in 1..Len(m_threads), m_threads[i] = t,
               m_threads' = RemoveAt(m_threads, i),
               m_refcount' = [m_refcount EXCEPT ![t] = @ - 1]
        PROVE  <1>5!:
    <3>1. t \in Members
      BY <2>1 DEF Members
    <3>2. /\ RemoveAt(m_threads, i) \in Seq(Agents) /\ Distinct(RemoveAt(m_threads, i))
          /\ Elems(RemoveAt(m_threads, i)) = Elems(m_threads) \ {m_threads[i]}
      BY <1>1, Removed DEF Shapes, Once
    <3> QED BY <1>4, <2>1, <3>1, <3>2
  <2>2. CASE t \notin Members /\ UNCHANGED <<m_threads, m_refcount>>
    <3>1. Distinct(m_threads') /\ Elems(m_threads') = Elems(m_threads) /\ m_threads' \in Seq(Agents)
      BY <1>1, <2>2 DEF Distinct, Elems, Shapes, Once
    <3> QED BY <1>4, <2>2, <3>1
  <2> QED BY <2>1, <2>2 DEF HookRemove
<1>6. Members' = Members \ {t}
  BY <1>5 DEF Elems, Members
<1>7. /\ Elems(list)' = Elems(list) /\ Elems(visited)' = Elems(visited)
      /\ Distinct(list)' = Distinct(list) /\ Distinct(visited)' = Distinct(visited)
      /\ Held' = Held
  BY DEF HookRemove, mains, Elems, Distinct, Held
<1>8. \A u \in Agents : /\ Handles(u) \in Int
                        /\ Handles(u)' = IF u = t /\ t \in Members THEN Handles(u) - 1 ELSE Handles(u)
  BY <1>6, <1>7 DEF HookRemove, program, Handles, Bit, Shapes
<1>9. \A u \in Agents : Selves(u)' = Selves(u) /\ Selves(u) \in Int
  <2>1. \A u \in Workers : Selves(u)' = Selves(u) /\ Selves(u) \in Int
    BY <1>1, <1>2, Who DEF HookRemove, ThrGoto, Shapes, Selves, Bit
  <2>2. Selves(Main)' = Selves(Main) /\ Selves(Main) \in Int
    BY <1>1, <1>2 DEF HookRemove, ThrGoto, Shapes, Selves, Bit, Dead
  <2> QED BY <2>1, <2>2, Who
<1>10. \A u \in Agents : ToDrop(u)' = ToDrop(u)
  BY <1>1, <1>2 DEF HookRemove, ThrGoto, Shapes, ToDrop
<1>11. /\ m_refcount' \in [Agents -> Int]
       /\ \A u \in Agents : m_refcount'[u] = IF u = t /\ t \in Members THEN m_refcount[u] - 1
                                            ELSE m_refcount[u]
       /\ doomed' = doomed
  <2>1. CASE t \in Members
    BY <1>1, <1>2, <1>5, <2>1 DEF Shapes, HookRemove, mains
  <2>2. CASE t \notin Members
    BY <1>1, <1>2, <1>5, <2>2 DEF Shapes, HookRemove, mains
  <2> QED BY <2>1, <2>2
<1>12. Counted'
  <2>1. \A u \in Agents : m_refcount[u] \in Int /\ m_refcount'[u] \in Int
    BY <1>1, <1>11 DEF Shapes
  <2>2. \A u \in Agents : m_refcount'[u] - Handles(u)' - Selves(u)'
                          = m_refcount[u] - Handles(u) - Selves(u)
    BY <1>8, <1>9, <1>11, <2>1
  <2>3. \A u \in Agents : Handles(u)' \in Int /\ Selves(u)' \in Int
    BY <1>8, <1>9
  <2>4. \A u \in Agents : ToDrop(u)' <=> ToDrop(u)
    BY <1>10
  <2> QED BY <1>1, <1>8, <1>9, <1>11, <2>1, <2>2, <2>3, <2>4, CountKept
<1>13. Shapes'
  BY <1>1, <1>2, <1>5, <1>6, <1>7, <1>8, <1>9, <1>10, <1>11, Labels
     DEF HookRemove, ThrGoto, program, mains, Shapes
<1>14. HookExclusive'
  BY <1>1, <1>2, <1>5, <1>6, <1>7, <1>8, <1>9, <1>10, <1>11 DEF HookRemove,
     ThrGoto, Shapes, HookExclusive, Locked
<1>15. Lives'
  BY <1>1, <1>2, <1>6, <1>7, <1>11, <1>3 DEF Lives, HookLabels, MainsOnly,
     Shapes
<1>16. MainLives'
  BY <1>1, <1>2, <1>5, <1>6, <1>7, <1>8, <1>9, <1>10, <1>11, Who
     DEF HookRemove, ThrGoto, Shapes, MainLives, HookLabels, MainsOnly, Joins,
     Visits, Dead
<1>17. Once'
  BY <1>1, <1>2, <1>5, <1>6, <1>7, <1>8, <1>9, <1>10, <1>11 DEF HookRemove,
     ThrGoto, Shapes, Once, Held
<1>18. DoomedLeave'
  BY <1>1, <1>2, <1>5, <1>6, <1>7, <1>8, <1>9, <1>10, <1>11, Who
     DEF HookRemove, ThrGoto, Shapes, DoomedLeave
<1>19. InUse'
  BY <1>1, <1>2, <1>5, <1>6, <1>7, <1>8, <1>9, <1>10, <1>11 DEF HookRemove,
     ThrGoto, program, Shapes, InUse, Joins, Dead
<1>20. InGroup'
  BY <1>1, <1>2, <1>6, <1>11, <1>3, Who DEF InGroup, Ended, Shapes
<1>21. TornDown'
  BY <1>1, <1>2, <1>5, <1>6, <1>7, <1>8, <1>9, <1>10, <1>11, Who
     DEF HookRemove, ThrGoto, Shapes, TornDown
<1> QED BY <1>13, <1>14, <1>15, <1>16, <1>17, <1>18, <1>12, <1>19, <1>20,
       <1>21 DEF ThrInv

\* Each thread of the group that fits gets one more handle.
LEMMA EnumerateStep ==
    ASSUME ThrInv, Enumerate
    PROVE  ThrInv'
<1>1. /\ Shapes /\ HookExclusive /\ Lives /\ MainLives /\ Once /\ DoomedLeave
      /\ Counted /\ InUse /\ InGroup /\ TornDown
  BY DEF ThrInv
<1>2. UNCHANGED <<m_state, m_mutex, group, program, target, timed, count, visited, doomed>>
  BY DEF Enumerate
<1>3. /\ thrPc[Main] = "enumerate" /\ thrPc' = [thrPc EXCEPT ![Main] = "next"]
      /\ thrPc \in [Agents -> ThrLabels] /\ Dead /\ Held = {} /\ Main \notin Members
  <2>1. thrPc[Main] = "enumerate" /\ thrPc' = [thrPc EXCEPT ![Main] = "next"]
    BY DEF Enumerate, ThrGoto
  <2>2. Dead
    BY <1>1, <2>1 DEF MainLives, Joins
  <2> QED BY <1>1, <2>1, <2>2 DEF MainLives, Shapes
<1>4. PICK n \in 0..Len(m_threads) : list' = SubSeq(m_threads, 1, n)
  <2>1. /\ (IF count < Len(m_threads) THEN count ELSE Len(m_threads)) \in 0..Len(m_threads)
    BY <1>1 DEF Shapes
  <2> QED BY <2>1 DEF Enumerate
<1>5. list' \in Seq(Agents) /\ Distinct(list') /\ Elems(list') \subseteq Members
  <2>1. Elems(m_threads) = Members
    BY DEF Elems, Members
  <2> QED BY <1>1, <1>4, <2>1, FirstPart DEF Shapes, Once
<1>6. Members \cap doomed = {} /\ Members \subseteq Workers
  <2>1. Members \subseteq Agents
    BY <1>1 DEF Members, Shapes
  <2> QED BY <1>1, <1>3, <2>1, Who DEF DoomedLeave
<1>7. /\ Members' = Members /\ Distinct(m_threads)' /\ Distinct(visited)'
      /\ Elems(visited)' = {} /\ Held' = Elems(list')
  <2>1. m_threads' = m_threads /\ visited' = visited
    BY DEF Enumerate, group
  <2>2. Members' = Members /\ Distinct(m_threads)' = Distinct(m_threads)
    BY <2>1 DEF Members, Distinct
  <2>3. Elems(visited)' = Elems(visited) /\ Distinct(visited)' = Distinct(visited)
    BY <2>1 DEF Elems, Distinct
  <2> QED BY <1>1, <1>3, <2>2, <2>3 DEF Held, Once
<1>8. /\ m_refcount' \in [Agents -> Int]
      /\ \A u \in Agents : m_refcount'[u] = m_refcount[u] + Bit(u \in Elems(list'))
  <2>1. \A u \in Agents : Cardinality({i \in 1..Len(list') : list'[i] = u}) = Bit(u \in Elems(list'))
    BY <1>5, Occurs
  <2>2. m_refcount' = [u \in Agents |-> m_refcount[u]
                        + Cardinality({i \in 1..Len(list') : list'[i] = u})]
    BY DEF Enumerate
  <2>3. m_refcount' = [u \in Agents |-> m_refcount[u] + Bit(u \in Elems(list'))]
    BY <2>1, <2>2
  <2> QED BY <1>1, <2>3 DEF Shapes, Bit
<1>9. \A u \in Agents : /\ Handles(u) \in Int
                        /\ Handles(u)' = Handles(u) + Bit(u \in Elems(list'))
  BY <1>3, <1>7 DEF Enumerate, program, Handles, Bit

<1>10. \A u \in Agents : Selves(u)' = Selves(u) /\ Selves(u) \in Int
  BY <1>3 DEF Enumerate, ThrGoto, Shapes, Selves, Bit, Dead
<1>11. \A u \in Agents : ToDrop(u)' <=> ToDrop(u)
  BY <1>3 DEF Enumerate, Shapes, ToDrop
<1>12. Counted'
  <2>1. doomed' = doomed
    BY DEF Enumerate
  <2>2. \A u \in Agents : m_refcount[u] \in Int /\ Handles(u) \in Int /\ Selves(u) \in Int
    BY <1>1, <1>9, <1>10 DEF Shapes
  <2>3. \A u \in Agents : m_refcount'[u] \in Int /\ Handles(u)' \in Int /\ Selves(u)' \in Int
    BY <2>2, <1>8, <1>9, <1>10 DEF Bit
  <2>4. \A u \in Agents : m_refcount'[u] - Handles(u)' - Selves(u)'
                          = m_refcount[u] - Handles(u) - Selves(u)
    BY <2>2, <1>8, <1>9, <1>10 DEF Bit
  <2> QED BY <1>1, <2>1, <2>2, <2>3, <2>4, <1>11, CountKept
<1>13. Shapes'
  BY <1>1, <1>3, <1>5, <1>8, <1>2, Labels DEF group, program, Shapes
<1>14. HookExclusive'
  BY <1>1, <1>3, <1>5, <1>6, <1>7, <1>8 DEF Enumerate, ThrGoto, group, Shapes,
     HookExclusive, Locked
<1>15. Lives'
  BY <1>1, <1>3, <1>5, <1>6, <1>7, <1>8 DEF Enumerate, ThrGoto, program,
     Shapes, Lives, HookLabels, MainsOnly
<1>16. MainLives'
  BY <1>1, <1>3, <1>5, <1>6, <1>7, <1>8, Who DEF Enumerate, ThrGoto, Shapes,
     MainLives, HookLabels, MainsOnly, Joins, Visits, Dead
<1>17. Once'
  BY <1>1, <1>3, <1>5, <1>6, <1>7, <1>8 DEF Enumerate, ThrGoto, Shapes, Once
<1>18. DoomedLeave'
  BY <1>1, <1>3, <1>5, <1>6, <1>7, <1>8 DEF Enumerate, ThrGoto, Shapes,
     DoomedLeave
<1>19. InUse'
  BY <1>1, <1>3, <1>5, <1>6, <1>7, <1>8 DEF Enumerate, ThrGoto, program,
     Shapes, InUse, Joins, Dead
<1>20. InGroup'
  BY <1>1, <1>3, <1>5, <1>6, <1>7, <1>8 DEF Enumerate, ThrGoto, Shapes,
     InGroup, Ended
<1>21. TornDown'
  BY <1>1, <1>3, <1>5, <1>6, <1>7, <1>8 DEF Enumerate, ThrGoto, Shapes, TornDown
<1> QED BY <1>13, <1>14, <1>15, <1>16, <1>17, <1>18, <1>12, <1>19, <1>20,
       <1>21 DEF ThrInv

\* The handle goes from one array to the other.
LEMMA VisitNextStep ==
    ASSUME ThrInv, VisitNext
    PROVE  ThrInv'
<1>1. /\ Shapes /\ HookExclusive /\ Lives /\ MainLives /\ Once /\ DoomedLeave
      /\ Counted /\ InUse /\ InGroup /\ TornDown
  BY DEF ThrInv
<1> DEFINE h == Head(list)
<1>2. /\ thrPc[Main] = "next" /\ thrPc' = [thrPc EXCEPT ![Main] = "joinTest"]
      /\ target' = [target EXCEPT ![Main] = h] /\ list # <<>>
      /\ thrPc \in [Agents -> ThrLabels] /\ Dead
  <2>1. /\ thrPc[Main] = "next" /\ thrPc' = [thrPc EXCEPT ![Main] = "joinTest"]
        /\ target' = [target EXCEPT ![Main] = h] /\ list # <<>>
    BY DEF VisitNext, ThrGoto
  <2>2. Dead
    BY <1>1, <2>1 DEF MainLives, Joins
  <2> QED BY <1>1, <2>1, <2>2 DEF Shapes
<1>3. /\ h \in Agents /\ list' \in Seq(Agents) /\ Distinct(list')
      /\ Elems(list) = Elems(list') \cup {h} /\ h \notin Elems(list')
  <2>1. list' = Tail(list)
    BY DEF VisitNext
  <2> QED BY <1>1, <1>2, <2>1, FirstAndRest DEF Shapes, Once
<1>4. h \in Workers /\ h \notin doomed /\ h \notin Elems(visited)
  BY <1>1, <1>3 DEF Once, Held, DoomedLeave
<1>5. /\ visited' \in Seq(Agents) /\ Distinct(visited')
      /\ Elems(visited') = Elems(visited) \cup {h}
  <2>1. visited' = Append(visited, h)
    BY DEF VisitNext
  <2> QED BY <1>1, <1>3, <1>4, <2>1, Appended DEF Shapes, Once
<1>6. /\ Members' = Members /\ Distinct(m_threads)' = Distinct(m_threads)
      /\ Held' = Held /\ Elems(list') \cap Elems(visited') = {}
  <2>1. m_threads' = m_threads
    BY DEF VisitNext, group
  <2>2. Members' = Members /\ Distinct(m_threads)' = Distinct(m_threads)
    BY <2>1 DEF Members, Distinct
  <2>3. Held' = Held
    BY <1>3, <1>5 DEF Held
  <2> QED BY <1>1, <1>3, <1>5, <2>2, <2>3 DEF Once
<1>7. m_refcount' = m_refcount
  BY DEF VisitNext, objects
<1>8. \A u \in Agents : Handles(u) \in Int /\ Handles(u)' = Handles(u)
  BY <1>6 DEF VisitNext, program, Handles, Bit

<1>9. \A u \in Agents : Selves(u)' = Selves(u) /\ Selves(u) \in Int
  BY <1>2 DEF VisitNext, ThrGoto, objects, Shapes, Selves, Bit, Dead
<1>10. \A u \in Agents : ToDrop(u)' <=> ToDrop(u)
  BY <1>1, <1>2 DEF Shapes, ToDrop
<1>11. Counted'
  <2>1. doomed' = doomed
    BY DEF VisitNext
  <2>2. \A u \in Agents : m_refcount[u] \in Int /\ Handles(u) \in Int /\ Selves(u) \in Int
    BY <1>1, <1>8, <1>9 DEF Shapes
  <2>3. \A u \in Agents : m_refcount'[u] \in Int /\ Handles(u)' \in Int /\ Selves(u)' \in Int
    BY <2>2, <1>7, <1>8, <1>9 DEF Bit
  <2>4. \A u \in Agents : m_refcount'[u] - Handles(u)' - Selves(u)'
                          = m_refcount[u] - Handles(u) - Selves(u)
    BY <2>2, <1>7, <1>8, <1>9 DEF Bit
  <2> QED BY <1>1, <2>1, <2>2, <2>3, <2>4, <1>10, CountKept
<1>12. Shapes'
  BY <1>1, <1>2, <1>3, <1>4, <1>5, <1>6, <1>7, Who, Labels DEF VisitNext,
     ThrGoto, objects, group, program, Shapes
<1>13. HookExclusive'
  BY <1>1, <1>2, <1>3, <1>4, <1>5, <1>6, <1>7 DEF VisitNext, ThrGoto, group,
     Shapes, HookExclusive, Locked
<1>14. Lives'
  BY <1>1, <1>2, <1>3, <1>4, <1>5, <1>6, <1>7 DEF VisitNext, ThrGoto, objects,
     program, Shapes, Lives, HookLabels, MainsOnly
<1>15. MainLives'
  BY <1>1, <1>2, <1>3, <1>4, <1>5, <1>6, <1>7 DEF VisitNext, ThrGoto, objects,
     Shapes, MainLives, HookLabels, MainsOnly, Joins, Visits, Dead
<1>16. Once'
  BY <1>1, <1>2, <1>3, <1>4, <1>5, <1>6, <1>7 DEF VisitNext, ThrGoto, Shapes,
     Once
<1>17. DoomedLeave'
  BY <1>1, <1>2, <1>3, <1>4, <1>5, <1>6, <1>7 DEF VisitNext, ThrGoto, Shapes,
     DoomedLeave
<1>18. InUse'
  BY <1>1, <1>2, <1>3, <1>4, <1>5, <1>6, <1>7 DEF VisitNext, ThrGoto, objects,
     program, Shapes, InUse, Joins, Dead
<1>19. InGroup'
  BY <1>1, <1>2, <1>3, <1>4, <1>5, <1>6, <1>7 DEF VisitNext, ThrGoto, Shapes,
     InGroup, Ended
<1>20. TornDown'
  BY <1>1, <1>2, <1>3, <1>4, <1>5, <1>6, <1>7 DEF VisitNext, ThrGoto, Shapes,
     TornDown
<1> QED BY <1>12, <1>13, <1>14, <1>15, <1>16, <1>17, <1>11, <1>18, <1>19,
       <1>20 DEF ThrInv

\* The handles of the visited threads go.
LEMMA DropListStep ==
    ASSUME ThrInv, DropList
    PROVE  ThrInv'
<1>1. /\ Shapes /\ HookExclusive /\ Lives /\ MainLives /\ Once /\ DoomedLeave
      /\ Counted /\ InUse /\ InGroup /\ TornDown
  BY DEF ThrInv
<1>2. /\ thrPc[Main] = "next" /\ thrPc' = [thrPc EXCEPT ![Main] = "count"]
      /\ thrPc \in [Agents -> ThrLabels] /\ Dead
  <2>1. thrPc[Main] = "next" /\ thrPc' = [thrPc EXCEPT ![Main] = "count"]
    BY DEF DropList, ThrGoto
  <2>2. Dead
    BY <1>1, <2>1 DEF MainLives, Joins
  <2> QED BY <1>1, <2>1, <2>2 DEF Shapes
<1>3. list = <<>> /\ list' = <<>> /\ visited' = <<>> /\ m_threads' = m_threads
  BY DEF DropList, group
<1>4. /\ Elems(list) = {} /\ Elems(list') = {} /\ Elems(visited') = {}
      /\ Distinct(list') /\ Distinct(visited')
  BY <1>3, NoElems
<1>5. Held = Elems(visited) /\ Held' = {}
  BY <1>4 DEF Held
<1>6. Members' = Members /\ Distinct(m_threads)' = Distinct(m_threads)
  BY <1>3 DEF Members, Distinct
<1>7. /\ m_refcount' \in [Agents -> Int]
      /\ \A u \in Agents : m_refcount'[u] = m_refcount[u] - Bit(u \in Held)
  <2>1. \A u \in Agents : Cardinality({i \in 1..Len(visited) : visited[i] = u}) = Bit(u \in Elems(visited))
    BY <1>1, Occurs DEF Shapes, Once
  <2>2. m_refcount' = [u \in Agents |-> m_refcount[u]
                        - Cardinality({i \in 1..Len(visited) : visited[i] = u})]
    BY DEF DropList
  <2>3. m_refcount' = [u \in Agents |-> m_refcount[u] - Bit(u \in Held)]
    BY <1>5, <2>1, <2>2
  <2> QED BY <1>1, <2>3 DEF Shapes, Bit
<1>8. \A u \in Agents : /\ Handles(u) \in Int
                        /\ Handles(u)' = Handles(u) - Bit(u \in Held)
  BY <1>5, <1>6 DEF DropList, program, Handles, Bit

<1>9. \A u \in Agents : Selves(u)' = Selves(u) /\ Selves(u) \in Int
  BY <1>2 DEF DropList, ThrGoto, Shapes, Selves, Bit, Dead
<1>10. \A u \in Agents : ToDrop(u)' <=> ToDrop(u)
  BY <1>2 DEF DropList, Shapes, ToDrop
<1>11. Counted'
  <2>1. doomed' = doomed
    BY DEF DropList
  <2>2. \A u \in Agents : m_refcount[u] \in Int /\ Handles(u) \in Int /\ Selves(u) \in Int
    BY <1>1, <1>8, <1>9 DEF Shapes
  <2>3. \A u \in Agents : m_refcount'[u] \in Int /\ Handles(u)' \in Int /\ Selves(u)' \in Int
    BY <2>2, <1>7, <1>8, <1>9 DEF Bit
  <2>4. \A u \in Agents : m_refcount'[u] - Handles(u)' - Selves(u)'
                          = m_refcount[u] - Handles(u) - Selves(u)
    BY <2>2, <1>7, <1>8, <1>9 DEF Bit
  <2> QED BY <1>1, <2>1, <2>2, <2>3, <2>4, <1>10, CountKept
<1>12. Shapes'
  BY <1>1, <1>2, <1>3, <1>4, <1>5, <1>6, <1>7, Who, Labels DEF DropList,
     ThrGoto, group, program, Shapes
<1>13. HookExclusive'
  BY <1>1, <1>2, <1>3, <1>4, <1>5, <1>6, <1>7 DEF DropList, ThrGoto, group,
     Shapes, HookExclusive, Locked
<1>14. Lives'
  BY <1>1, <1>2, <1>3, <1>4, <1>5, <1>6, <1>7 DEF DropList, ThrGoto, program,
     Shapes, Lives, HookLabels, MainsOnly
<1>15. MainLives'
  BY <1>1, <1>2, <1>3, <1>4, <1>5, <1>6, <1>7 DEF DropList, ThrGoto, Shapes,
     MainLives, HookLabels, MainsOnly, Joins, Visits, Dead
<1>16. Once'
  BY <1>1, <1>2, <1>3, <1>4, <1>5, <1>6, <1>7 DEF DropList, ThrGoto, Shapes,
     Once
<1>17. DoomedLeave'
  BY <1>1, <1>2, <1>3, <1>4, <1>5, <1>6, <1>7 DEF DropList, ThrGoto, Shapes,
     DoomedLeave
<1>18. InUse'
  BY <1>1, <1>2, <1>3, <1>4, <1>5, <1>6, <1>7 DEF DropList, ThrGoto, program,
     Shapes, InUse, Joins, Dead
<1>19. InGroup'
  BY <1>1, <1>2, <1>3, <1>4, <1>5, <1>6, <1>7 DEF DropList, ThrGoto, Shapes,
     InGroup, Ended
<1>20. TornDown'
  BY <1>1, <1>2, <1>3, <1>4, <1>5, <1>6, <1>7 DEF DropList, ThrGoto, Shapes,
     TornDown
<1> QED BY <1>12, <1>13, <1>14, <1>15, <1>16, <1>17, <1>11, <1>18, <1>19,
       <1>20 DEF ThrInv

\* Every step keeps the invariant: one case for each action.
LEMMA ThrStep == ThrInv /\ [ThrNext]_thrVars => ThrInv'
<1> SUFFICES ASSUME ThrInv, [ThrNext]_thrVars
             PROVE  ThrInv'
  OBVIOUS
<1>1. CASE UNCHANGED thrVars
  <2>1. /\ Shapes /\ HookExclusive /\ Lives /\ MainLives /\ Once /\ DoomedLeave
        /\ Counted /\ InUse /\ InGroup /\ TornDown
    BY DEF ThrInv
  <2>2. UNCHANGED <<m_threads, list, visited>>
    BY <1>1 DEF thrVars, group, mains
  <2>3. /\ Members' = Members /\ Held' = Held
        /\ Elems(list)' = Elems(list) /\ Elems(visited)' = Elems(visited) /\ Once'
    BY <2>1, <2>2, ArraysStay
  <2>4. Shapes' /\ HookExclusive' /\ Lives'
    BY <1>1, <2>1, <2>3 DEF thrVars, objects, group, program, mains, Shapes,
       HookExclusive, Lives
  <2>5. MainLives' /\ DoomedLeave'
    BY <1>1, <2>1, <2>3 DEF thrVars, objects, group, program, mains, MainLives,
       Dead, DoomedLeave
  <2>6. Counted'
    <3>1. UNCHANGED <<m_refcount, ownerStruct, doomed>>
      BY <1>1 DEF thrVars, objects, program, mains
    <3>2. \A u \in Agents : Selves(u)' = Selves(u)
      BY <1>1 DEF thrVars, objects, Selves, Dead
    <3>3. \A u \in doomed : ToDrop(u)' => ToDrop(u)
      BY <1>1 DEF thrVars, ToDrop
    <3> QED BY <2>1, <2>3, <3>1, <3>2, <3>3, CountSame
  <2>7. InUse' /\ InGroup' /\ TornDown'
    BY <1>1, <2>1, <2>3 DEF thrVars, objects, group, program, mains, InUse,
       Dead,
       InGroup, TornDown
  <2> QED BY <2>3, <2>4, <2>5, <2>6, <2>7 DEF ThrInv
<1>2. ASSUME NEW a \in Agents, UsePAL(a)
      PROVE  ThrInv'
  BY <1>2, CreateThreadStep, StartThreadStep, DestroyStructStep, JoinThreadStep,
     HandOverStep DEF UsePAL
<1>3. ASSUME NEW a \in Agents,
             \/ StartFinish(a) \/ BeginRun(a) \/ JoinTest(a) \/ JoinTimesOut(a)
             \/ JoinSpuriousWakeup(a) \/ ReturnFromRun(a)
      PROVE  ThrInv'
  BY <1>3, StartFinishStep, BeginRunStep, JoinTestStep, JoinTimesOutStep,
     JoinSpuriousWakeupStep, ReturnFromRunStep
<1>4. ASSUME NEW a \in Agents, Hook(a)
      PROVE  ThrInv'
  BY <1>4, HookLockStep, HookDieStep, HookRemoveStep, HookDropStep,
     HookUnlockStep
     DEF Hook
<1>5. CASE WaitTermination \/ Terminate
  BY <1>5, WaitTerminationStep, CountStep, EnumerateStep, VisitNextStep,
     ReadStateStep, DestroyTestStep, DropListStep DEF Terminate
<1> QED BY <1>1, <1>2, <1>3, <1>4, <1>5 DEF ThrNext

\* The invariant holds when the library has been initialised.
LEMMA ThrStart == ThrInit => ThrInv
<1> SUFFICES ASSUME ThrInit
             PROVE  ThrInv
  OBVIOUS
<1>1. Members = {Main} /\ Distinct(m_threads)
  <2>1. m_threads = <<Main>>
    BY DEF ThrInit
  <2>2. Len(<<Main>>) = 1 /\ <<Main>>[1] = Main
    OBVIOUS
  <2> QED BY <2>1, <2>2 DEF Members, Distinct
<1>2. Elems(list) = {} /\ Elems(visited) = {} /\ Held = {} /\ Distinct(list) /\ Distinct(visited)
  BY NoElems DEF ThrInit, Held
<1>3. Shapes
  BY Who, Labels DEF ThrInit, Shapes, ThrLabels
<1>4. HookExclusive /\ Lives /\ InUse
  BY Who, <1>1, <1>2 DEF ThrInit, HookExclusive, Locked, Lives, MainsOnly,
     HookLabels,
     InUse, Joins
<1>5. MainLives /\ Once /\ DoomedLeave
  BY Who, <1>1, <1>2 DEF ThrInit, MainLives, Dead, Once, DoomedLeave
<1>6. Counted
  <2>1. \A t \in Workers : Handles(t) = 0 /\ Selves(t) = 0 /\ m_refcount[t] = 0
    BY Who, <1>1, <1>2 DEF ThrInit, Handles, Selves, Bit
  <2>2. Handles(Main) = 1 /\ Selves(Main) = 2 /\ m_refcount[Main] = 3
    BY Who, <1>1, <1>2 DEF ThrInit, Handles, Selves, Bit, Dead
  <2> QED BY Who, <2>1, <2>2 DEF Counted
<1>7. InGroup /\ TornDown
  BY Who, <1>1 DEF ThrInit, InGroup, TornDown
<1> QED BY <1>3, <1>4, <1>5, <1>6, <1>7 DEF ThrInv

\* The invariant holds in every state.
LEMMA ThrInvHolds == ThrSpec => []ThrInv
  BY ThrStart, ThrStep, PTL DEF ThrSpec

\* The handles, counted as the properties do.
LEMMA HandlesCount ==
    ASSUME ThrInv
    PROVE  \A t \in Agents :
             /\ HandlesOf(t) = Handles(t)
             /\ Handles(t) \in 0..(IF t = Main THEN 1 ELSE 3)
             /\ Selves(t) \in 0..(IF t = Main THEN 2 ELSE 1)
             /\ t = Main => Selves(t) # 0
<1>1. Shapes /\ Once
  BY DEF ThrInv
<1> SUFFICES ASSUME NEW t \in Agents
             PROVE  /\ HandlesOf(t) = Handles(t)
                    /\ Handles(t) \in 0..(IF t = Main THEN 1 ELSE 3)
                    /\ Selves(t) \in 0..(IF t = Main THEN 2 ELSE 1)
                    /\ t = Main => Selves(t) # 0
  OBVIOUS
<1>2. /\ Cardinality({i \in 1..Len(list) : list[i] = t}) = Bit(t \in Elems(list))
      /\ Cardinality({i \in 1..Len(visited) : visited[i] = t}) = Bit(t \in Elems(visited))
  BY <1>1, Occurs DEF Shapes, Once
<1>3. Bit(t \in Held) = Bit(t \in Elems(list)) + Bit(t \in Elems(visited))
  BY <1>1 DEF Once, Held, Bit
<1>4. HandlesOf(t) = Handles(t)
  BY <1>2, <1>3 DEF HandlesOf, Handles, Bit
<1>5. t = Main => t \notin Workers /\ t \notin Held
  BY <1>1, Who DEF Once
<1>6. Handles(t) \in 0..(IF t = Main THEN 1 ELSE 3)
  BY <1>5 DEF Handles, Bit
<1>7. Selves(t) \in 0..(IF t = Main THEN 2 ELSE 1) /\ (t = Main => Selves(t) # 0)
  BY DEF Selves, Bit
<1> QED BY <1>4, <1>6, <1>7

(* The variables keep their types: with any number of threads, no step of  *)
(* exit_hook, of PAL's calls or of waitTermination takes a count, a handle  *)
(* or an array out of its range.                                            *)
THEOREM ThreadTypes == ThrSpec => []ThrTypeOK
<1>1. ThrInv => ThrTypeOK
  <2> SUFFICES ASSUME ThrInv
               PROVE  ThrTypeOK
    OBVIOUS
  <2>1. Shapes /\ Counted
    BY DEF ThrInv
  <2>2. \A t \in Agents : m_refcount[t] \in -1..4
    <3> SUFFICES ASSUME NEW t \in Agents
                 PROVE  m_refcount[t] \in -1..4
      OBVIOUS
    <3>1. /\ Handles(t) \in 0..(IF t = Main THEN 1 ELSE 3)
          /\ Selves(t) \in 0..(IF t = Main THEN 2 ELSE 1)
      BY HandlesCount
    <3>2. \/ m_refcount[t] = Handles(t) + Selves(t)
          \/ m_refcount[t] = Handles(t) + Selves(t) - 1
      BY <2>1 DEF Counted
    <3> QED BY <3>1, <3>2
  <2>3. m_refcount \in [Agents -> -1..4]
    BY <2>1, <2>2 DEF Shapes
  <2> QED BY <2>1, <2>3, Who DEF ThrTypeOK, Shapes
<1> QED BY <1>1, ThrInvHolds, PTL

(* Whoever has a handle to a thread object, the group, the PAL struct or    *)
(* waitTermination's arrays, and whoever starts or joins it, finds it alive: *)
(* the object is not deleted before the last of them has let go. Left out   *)
(* are, as in the property, the threads waitTermination destroyed before    *)
(* they were started, whose reference to themselves may be given up twice.  *)
THEOREM ObjectsKept == ThrSpec => []HandlesKeepObject
<1>1. ThrInv => HandlesKeepObject
  <2> SUFFICES ASSUME ThrInv, NEW t \in Agents \ doomed, m_refcount[t] = 0
               PROVE  /\ t \notin Members
                      /\ t \in Workers => ~ownerStruct[t]
                      /\ HandlesOf(t) = 0
                      /\ thrPc[t] \in {"none", "hookUnlock", "gone", "torn"} \/ t = Main
                      /\ \A a \in Agents :
                           thrPc[a] \in {"joinTest", "joinAsleep", "startFinish"}
                             => target[a] # t
    BY DEF HandlesKeepObject
  <2>1. Shapes /\ MainLives /\ Counted /\ InUse
    BY DEF ThrInv
  <2>2. /\ HandlesOf(t) = Handles(t) /\ Handles(t) \in Nat /\ Selves(t) \in Nat
        /\ t = Main => Selves(t) # 0
    BY HandlesCount
  <2>3. Handles(t) = 0 /\ Selves(t) = 0 /\ t # Main
    <3>1. m_refcount[t] = Handles(t) + Selves(t)
      BY <2>1 DEF Counted
    <3> QED BY <2>2, <3>1
  <2>4. t \notin Members /\ ~(t \in Workers /\ ownerStruct[t]) /\ t \notin Held
    BY <2>3 DEF Handles, Bit
  <2>5. thrPc[t] \in {"none", "hookUnlock", "gone"}
    BY <2>3 DEF Selves, Bit
  <2>6. ASSUME NEW a \in Agents, thrPc[a] \in {"joinTest", "joinAsleep", "startFinish"},
               target[a] = t
        PROVE  FALSE
    <3>1. CASE a = Main /\ Dead
      <4>1. thrPc[Main] \in Joins
        BY <2>1, <2>6, <3>1 DEF MainLives, HookLabels, Joins, MainsOnly
      <4>2. t \in Elems(visited)
        BY <2>1, <2>6, <3>1, <4>1 DEF MainLives, Visits
      <4> QED BY <2>4, <4>2 DEF Held
    <3>2. CASE ~(a = Main /\ Dead)
      BY <2>1, <2>4, <2>6, <3>2 DEF InUse, Joins
    <3> QED BY <3>1, <3>2
  <2> QED BY <2>2, <2>3, <2>4, <2>5, <2>6
<1> QED BY <1>1, ThrInvHolds, PTL

(* When waitTermination is through, no thread that was started is in the    *)
(* middle of anything: each has gone through its exit_hook to the end.      *)
THEOREM NobodyLeft == ThrSpec => []NoneOutlivesTermination
<1>1. ThrInv => NoneOutlivesTermination
  <2> SUFFICES ASSUME ThrInv, thrPc[Main] = "torn", NEW t \in Workers \ doomed
               PROVE  thrPc[t] \in {"none", "gone"} /\ m_refcount[t] = HandlesOf(t)
    BY DEF NoneOutlivesTermination
  <2>1. thrPc[t] \in {"none", "gone"}
    BY DEF ThrInv, TornDown
  <2>2. Selves(t) = 0 /\ t \in Agents
    BY <2>1, Who DEF Selves, Bit
  <2>3. m_refcount[t] = Handles(t) + Selves(t)
    BY <2>2 DEF ThrInv, Counted
  <2>4. HandlesOf(t) = Handles(t) /\ Handles(t) \in Nat
    BY <2>2, HandlesCount
  <2> QED BY <2>1, <2>2, <2>3, <2>4
<1> QED BY <1>1, ThrInvHolds, PTL
=============================================================================
