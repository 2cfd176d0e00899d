-------------------------- MODULE JTCRWMutexProofs --------------------------
(* Proofs about the read-write mutex for any finite number of threads.      *)
EXTENDS JTCRWMutex, FiniteSetTheorems, TLAPS

WaitingWriters == In("writeAsleep") \cup In("writeAwake")

(* The counters say what the threads are doing.                             *)
Counted ==
    /\ \/ /\ m_count = -1
          /\ In("reading") = {}
          /\ \E w \in RWThreads : In("writing") = {w}
       \/ /\ m_count = Cardinality(In("reading"))
          /\ In("writing") = {}
    /\ m_waiting_writers = Cardinality(WaitingWriters)

RWInv == RWTypeOK /\ Counted /\ NoSleeperForgotten
-----------------------------------------------------------------------------
(* The sets of threads are finite and so have a size.                       *)
LEMMA Sizes ==
    ASSUME NEW label
    PROVE  /\ IsFiniteSet(In(label)) /\ Cardinality(In(label)) \in Nat
           /\ IsFiniteSet(WaitingWriters) /\ Cardinality(WaitingWriters) \in Nat
<1>1. In(label) \in SUBSET RWThreads /\ WaitingWriters \in SUBSET RWThreads
  BY DEF In, WaitingWriters
<1> QED
  BY <1>1, RWAssumption, FS_Subset, FS_CardinalityType

(* A set that has a member has a positive size, and the other way round.    *)
LEMMA Positive ==
    ASSUME NEW S, IsFiniteSet(S)
    PROVE  Cardinality(S) = 0 <=> S = {}
  BY FS_EmptySet

(* A thread that goes from one label to another leaves one set, joins       *)
(* another and disturbs no third one.                                       *)
LEMMA Moves ==
    ASSUME RWTypeOK, NEW t \in RWThreads, NEW to, RWGoto(t, to)
    PROVE  \A label : In(label)' = IF label = to THEN In(label) \cup {t}
                                   ELSE In(label) \ {t}
  BY DEF RWTypeOK, RWGoto, In

(* Every step keeps every variable in its type, once the counters are       *)
(* known to be true.                                                        *)
LEMMA RWTypeStep == RWTypeOK /\ Counted /\ [RWNext]_rwVars => RWTypeOK'
<1> SUFFICES ASSUME RWTypeOK, Counted, [RWNext]_rwVars
             PROVE  RWTypeOK'
  OBVIOUS
<1>0. /\ m_count \in Int /\ m_count >= -1 /\ m_waiting_writers \in Nat
      /\ rwPc \in [RWThreads -> RWLabels]
  BY DEF RWTypeOK
<1>1. ASSUME NEW t \in RWThreads, NEW to \in RWLabels, RWGoto(t, to)
      PROVE  rwPc' \in [RWThreads -> RWLabels]
  BY <1>0, <1>1 DEF RWGoto
<1>2. CASE UNCHANGED rwVars
  BY <1>0, <1>2 DEF RWTypeOK, rwVars
<1>3. ASSUME NEW t \in RWThreads, ReadLock(t) \/ ReadSleep(t)
      PROVE  RWTypeOK'
  BY <1>0, <1>1, <1>3
  DEF ReadLock, ReadSleep, ReadersMustWait, RWTypeOK, RWLabels
<1>4. ASSUME NEW t \in RWThreads, WriteLock(t)
      PROVE  RWTypeOK'
  <2>1. rwPc[t] = "writeAwake" => m_waiting_writers # 0
    <3>1. rwPc[t] = "writeAwake" => t \in WaitingWriters
      BY DEF WaitingWriters, In
    <3> QED
      BY <3>1, Sizes, Positive DEF Counted
  <2>2. m_waiting_writers' \in Nat
    BY <1>0, <1>4, <2>1 DEF WriteLock
  <2>3. rwPc' \in [RWThreads -> RWLabels]
    BY <1>1, <1>4 DEF WriteLock, RWLabels
  <2> QED
    BY <1>4, <2>2, <2>3 DEF WriteLock, RWTypeOK
<1>5. ASSUME NEW t \in RWThreads, WriteSleep(t)
      PROVE  RWTypeOK'
  BY <1>0, <1>1, <1>5 DEF WriteSleep, RWTypeOK, RWLabels
<1>6. ASSUME NEW t \in RWThreads, RWSpuriousWakeup(t)
      PROVE  RWTypeOK'
  BY <1>0, <1>1, <1>6 DEF RWSpuriousWakeup, RWTypeOK, RWLabels
<1>7. ASSUME NEW t \in RWThreads, Unlock(t)
      PROVE  RWTypeOK'
  <2>1. m_count' \in Int /\ m_count' >= -1
    BY <1>0, <1>7 DEF Unlock
  <2>2. rwPc' \in [RWThreads -> RWLabels]
    BY <1>1, <1>7 DEF Unlock, RWLabels
  <2> QED
    BY <1>0, <1>7, <2>1, <2>2 DEF Unlock, RWTypeOK
<1>8. ASSUME NEW t \in RWThreads, WakeWriter(t) \/ WakeReaders(t)
      PROVE  RWTypeOK'
  BY <1>0, <1>1, <1>8 DEF WakeWriter, WakeReaders, RWTypeOK, RWLabels
<1> QED
  BY <1>2, <1>3, <1>4, <1>5, <1>6, <1>7, <1>8 DEF RWNext
-----------------------------------------------------------------------------
(* A thread that holds the lock is counted: as the writer or as a reader.   *)
LEMMA HolderCounted ==
    ASSUME RWTypeOK, Counted, NEW t \in RWThreads
    PROVE  /\ rwPc[t] = "reading" => m_count > 0
           /\ rwPc[t] = "writing" => m_count = -1 /\ In("writing") = {t}
<1>1. /\ rwPc[t] = "reading" => t \in In("reading")
      /\ rwPc[t] = "writing" => t \in In("writing")
  BY DEF In
<1>2. In("reading") # {} => Cardinality(In("reading")) > 0
  BY Sizes, Positive
<1> QED
  BY <1>1, <1>2 DEF Counted

(* The first half of Counted, readers and the writer, after a step.         *)
LEMMA HoldersStep ==
    ASSUME RWTypeOK, Counted, [RWNext]_rwVars
    PROVE  \/ /\ m_count' = -1
              /\ In("reading")' = {}
              /\ \E w \in RWThreads : In("writing")' = {w}
           \/ /\ m_count' = Cardinality(In("reading")')
              /\ In("writing")' = {}
<1> DEFINE Readers == In("reading")
           Writers == In("writing")
<1>0. IsFiniteSet(Readers) /\ Cardinality(Readers) \in Nat
  BY Sizes
<1>1. CASE m_count' = m_count /\ Readers' = Readers /\ Writers' = Writers
  BY <1>1 DEF Counted
<1>2. CASE UNCHANGED rwVars
  BY <1>1, <1>2 DEF rwVars, In
<1>3. ASSUME NEW t \in RWThreads, ReadLock(t)
      PROVE  m_count' = Cardinality(Readers') /\ Writers' = {}
  <2>1. Readers' = Readers \cup {t} /\ Writers' = Writers \ {t} /\ t \notin Readers
    BY <1>3, Moves DEF ReadLock, In
  <2>2. m_count = Cardinality(Readers) /\ Writers = {}
    BY <1>3 DEF Counted, ReadLock, ReadersMustWait
  <2>3. Cardinality(Readers \cup {t}) = Cardinality(Readers) + 1
    BY <1>0, <2>1, FS_AddElement
  <2> QED
    BY <1>3, <2>1, <2>2, <2>3 DEF ReadLock
<1>4. ASSUME NEW t \in RWThreads, WriteLock(t)
      PROVE  m_count' = -1 /\ Readers' = {} /\ Writers' = {t}
  <2>1. Writers' = Writers \cup {t} /\ Readers' = Readers \ {t}
    BY <1>4, Moves DEF WriteLock
  <2>2. Readers = {} /\ Writers = {}
    BY <1>0, <1>4, Positive DEF Counted, WriteLock
  <2> QED
    BY <1>4, <2>1, <2>2 DEF WriteLock
<1>5. ASSUME NEW t \in RWThreads, Unlock(t)
      PROVE  m_count' = Cardinality(Readers') /\ Writers' = {}
  <2>1. PICK to \in {"wakeWriter", "wakeReaders", "idle"} : RWGoto(t, to)
    BY <1>5 DEF Unlock
  <2>2. Readers' = Readers \ {t} /\ Writers' = Writers \ {t}
    BY <2>1, Moves
  <2>3. CASE rwPc[t] = "writing"
    <3>1. Readers = {} /\ Writers = {t} /\ m_count = -1
      BY <2>3, HolderCounted, Sizes DEF Counted
    <3> QED
      BY <1>5, <2>2, <3>1, FS_EmptySet DEF Unlock
  <2>4. CASE rwPc[t] = "reading"
    <3>1. t \in Readers
      BY <2>4 DEF In
    <3>2. m_count > 0 /\ m_count = Cardinality(Readers) /\ Writers = {}
      BY <3>1, <2>4, HolderCounted DEF Counted
    <3>3. Cardinality(Readers \ {t}) = Cardinality(Readers) - 1
      BY <1>0, <3>1, FS_RemoveElement
    <3>4. m_count' = m_count - 1
      BY <1>0, <1>5, <3>2 DEF Unlock
    <3> QED
      BY <2>2, <3>2, <3>3, <3>4
  <2> QED
    BY <1>5, <2>3, <2>4 DEF Unlock
<1>6. ASSUME NEW t \in RWThreads,
             \/ ReadSleep(t) \/ WriteSleep(t) \/ RWSpuriousWakeup(t)
             \/ WakeWriter(t) \/ WakeReaders(t)
      PROVE  m_count' = m_count /\ Readers' = Readers /\ Writers' = Writers
  BY <1>6 DEF RWTypeOK, ReadSleep, WriteSleep, RWSpuriousWakeup, WakeWriter,
              WakeReaders, RWGoto, In
<1> QED
  BY <1>1, <1>2, <1>3, <1>4, <1>5, <1>6 DEF RWNext
-----------------------------------------------------------------------------
(* The second half: the writers that wait, after a step.                    *)
LEMMA WaitersStep ==
    ASSUME RWTypeOK, Counted, [RWNext]_rwVars
    PROVE  m_waiting_writers' = Cardinality(WaitingWriters')
<1> DEFINE W == WaitingWriters
<1>0. IsFiniteSet(W) /\ Cardinality(W) \in Nat /\ m_waiting_writers = Cardinality(W)
  BY Sizes DEF Counted
<1>1. CASE m_waiting_writers' = m_waiting_writers /\ W' = W
  BY <1>0, <1>1
<1>2. CASE UNCHANGED rwVars
  BY <1>1, <1>2 DEF rwVars, WaitingWriters, In
<1>3. ASSUME NEW t \in RWThreads, WriteLock(t)
      PROVE  m_waiting_writers' = Cardinality(W')
  <2>1. W' = W \ {t} /\ (t \in W <=> rwPc[t] = "writeAwake")
    BY <1>3, Moves DEF WriteLock, WaitingWriters, In
  <2>2. Cardinality(W \ {t}) = IF t \in W THEN Cardinality(W) - 1 ELSE Cardinality(W)
    BY <1>0, FS_RemoveElement
  <2> QED
    BY <1>0, <1>3, <2>1, <2>2 DEF WriteLock
<1>4. ASSUME NEW t \in RWThreads, WriteSleep(t)
      PROVE  m_waiting_writers' = Cardinality(W')
  <2>1. W' = W \cup {t} /\ (t \in W <=> rwPc[t] = "writeAwake")
    BY <1>4, Moves DEF WriteSleep, WaitingWriters, In
  <2>2. Cardinality(W \cup {t}) = IF t \in W THEN Cardinality(W) ELSE Cardinality(W) + 1
    BY <1>0, FS_AddElement
  <2> QED
    BY <1>0, <1>4, <2>1, <2>2 DEF WriteSleep
<1>5. ASSUME NEW t \in RWThreads,
             \/ ReadLock(t) \/ ReadSleep(t) \/ RWSpuriousWakeup(t)
             \/ Unlock(t) \/ WakeWriter(t) \/ WakeReaders(t)
      PROVE  m_waiting_writers' = m_waiting_writers /\ W' = W
  BY <1>5 DEF RWTypeOK, ReadLock, ReadSleep, RWSpuriousWakeup, Unlock,
              WakeWriter, WakeReaders, RWGoto, WaitingWriters, In
<1> QED
  BY <1>1, <1>2, <1>3, <1>4, <1>5 DEF RWNext
-----------------------------------------------------------------------------
(* Nobody is forgotten by a step.                                           *)
LEMMA SleepersStep == RWInv /\ [RWNext]_rwVars => NoSleeperForgotten'
<1> SUFFICES ASSUME RWInv, [RWNext]_rwVars
             PROVE  NoSleeperForgotten'
  OBVIOUS
<1> USE DEF RWInv
<1>0. /\ m_count \in Int /\ m_count >= -1 /\ m_waiting_writers \in Nat
      /\ rwPc \in [RWThreads -> RWLabels]
  BY DEF RWTypeOK
<1>1. m_waiting_writers = 0 <=> WaitingWriters = {}
  BY Sizes, Positive DEF Counted
<1>2. CASE UNCHANGED rwVars
  BY <1>2 DEF rwVars, NoSleeperForgotten, ReadersMustWait, In
<1>3. ASSUME NEW t \in RWThreads, ReadLock(t)
      PROVE  NoSleeperForgotten'
  BY <1>0, <1>1, <1>3, Moves
  DEF ReadLock, NoSleeperForgotten, ReadersMustWait, WaitingWriters, In
<1>4. ASSUME NEW t \in RWThreads, ReadSleep(t)
      PROVE  NoSleeperForgotten'
  BY <1>0, <1>4, Moves DEF ReadSleep, NoSleeperForgotten, ReadersMustWait, In
<1>5. ASSUME NEW t \in RWThreads, WriteLock(t)
      PROVE  NoSleeperForgotten'
  BY <1>5 DEF WriteLock, NoSleeperForgotten, ReadersMustWait
<1>6. ASSUME NEW t \in RWThreads, WriteSleep(t)
      PROVE  NoSleeperForgotten'
  <2>1. m_count' # 0 /\ m_waiting_writers' # 0
    BY <1>0, <1>1, <1>6 DEF WriteSleep, WaitingWriters, In
  <2> QED
    BY <2>1 DEF NoSleeperForgotten, ReadersMustWait
<1>7. ASSUME NEW t \in RWThreads, RWSpuriousWakeup(t)
      PROVE  NoSleeperForgotten'
  <2>1. PICK to \in {"readAwake", "writeAwake"} :
            RWGoto(t, to) /\ rwPc[t] \in {"readAsleep", "writeAsleep"}
    BY <1>7 DEF RWSpuriousWakeup
  <2>2. /\ In("writeAsleep")' \subseteq In("writeAsleep")
        /\ In("readAsleep")' \subseteq In("readAsleep")
        /\ In("wakeWriter")' = In("wakeWriter")
        /\ In("wakeReaders")' = In("wakeReaders")
        /\ In("writeAwake") \subseteq In("writeAwake")'
    BY <2>1, <1>0 DEF RWGoto, In
  <2> QED
    BY <1>7, <2>2 DEF RWSpuriousWakeup, NoSleeperForgotten, ReadersMustWait
<1>8. ASSUME NEW t \in RWThreads, Unlock(t)
      PROVE  NoSleeperForgotten'
  <2>1. CASE m_waiting_writers = 0
    <3>1. In("writeAsleep") = {}
      BY <1>1, <2>1 DEF WaitingWriters
    <3>2. RWGoto(t, "wakeReaders")
      BY <1>8, <2>1 DEF Unlock
    <3>3. t \in In("wakeReaders")' /\ In("writeAsleep")' = {}
      BY <3>1, <3>2, Moves
    <3> QED
      BY <3>3 DEF NoSleeperForgotten
  <2>2. CASE m_waiting_writers # 0
    <3>1. m_count' = 0 => t \in In("wakeWriter")'
      BY <1>8, <2>2, Moves DEF Unlock
    <3> QED
      BY <1>8, <2>2, <3>1 DEF Unlock, NoSleeperForgotten, ReadersMustWait
  <2> QED
    BY <2>1, <2>2
<1>9. ASSUME NEW t \in RWThreads, WakeWriter(t)
      PROVE  NoSleeperForgotten'
  BY <1>0, <1>9, Moves
  DEF WakeWriter, RWGoto, NoSleeperForgotten, ReadersMustWait, In
<1>10. ASSUME NEW t \in RWThreads, WakeReaders(t)
       PROVE  NoSleeperForgotten'
  <2>1. In("readAsleep")' = {} /\ In("writeAsleep")' = In("writeAsleep")
    BY <1>0, <1>10 DEF WakeReaders, In
  <2>2. In("wakeWriter")' = In("wakeWriter") /\ In("writeAwake")' = In("writeAwake")
    BY <1>0, <1>10 DEF WakeReaders, In
  <2> QED
    BY <1>10, <2>1, <2>2 DEF WakeReaders, NoSleeperForgotten
<1> QED
  BY <1>2, <1>3, <1>4, <1>5, <1>6, <1>7, <1>8, <1>9, <1>10 DEF RWNext
-----------------------------------------------------------------------------
(* The invariant of the read-write mutex.                                   *)
THEOREM RWInvariant == RWSpec => []RWInv
<1>1. RWInit => RWInv
  <2> SUFFICES ASSUME RWInit PROVE RWInv
    OBVIOUS
  <2>1. \A t \in RWThreads : rwPc[t] = "idle"
    BY DEF RWInit
  <2>2. /\ In("reading") = {} /\ In("writing") = {} /\ WaitingWriters = {}
        /\ In("readAsleep") = {} /\ In("writeAsleep") = {}
    BY <2>1 DEF In, WaitingWriters
  <2>3. RWTypeOK
    BY DEF RWInit, RWTypeOK, RWLabels
  <2>4. Counted
    BY <2>2, FS_EmptySet DEF RWInit, Counted
  <2> QED
    BY <2>2, <2>3, <2>4 DEF RWInv, NoSleeperForgotten
<1>2. RWInv /\ [RWNext]_rwVars => RWInv'
  BY RWTypeStep, HoldersStep, WaitersStep, SleepersStep DEF RWInv, Counted
<1> QED
  BY <1>1, <1>2, PTL DEF RWSpec

(* The counters stay in their types.                                        *)
THEOREM RWTypeCorrect == RWSpec => []RWTypeOK
  BY RWInvariant, PTL DEF RWInv

(* Whatever the number of readers and writers, a writer has the lock to     *)
(* itself.                                                                  *)
THEOREM WritersAlone == RWSpec => []WriterAlone
<1>1. RWInv => WriterAlone
  BY DEF RWInv, Counted, WriterAlone, In
<1> QED
  BY <1>1, RWInvariant, PTL

(* No reader or writer ever sleeps on a lock it might have while nobody is  *)
(* on the way to wake it.                                                   *)
THEOREM SleepersKept == RWSpec => []NoSleeperForgotten
  BY RWInvariant, PTL DEF RWInv
=============================================================================
