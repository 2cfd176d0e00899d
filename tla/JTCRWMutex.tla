----------------------------- MODULE JTCRWMutex -----------------------------
(* JTCRWMutex: many readers or one writer, and no reader may enter while a  *)
(* writer waits. A JTCMutex guards the counters; every method releases it   *)
(* only at its end or in a wait, so what a method does between two waits is *)
(* one action here and the mutex itself is not a variable. The signals of   *)
(* unlock are sent after the mutex was given up and are steps of their own. *)
EXTENDS Integers, FiniteSets

CONSTANT RWThreads

ASSUME RWAssumption == IsFiniteSet(RWThreads)

VARIABLES
    m_count,             \* -1: a writer holds the lock, n: n readers hold it
    m_waiting_writers,   \* writers inside the loop of write_lock_internal
    rwPc

rwVars == <<m_count, m_waiting_writers, rwPc>>

(* A thread "readAsleep" or "writeAsleep" is blocked in m_ok_to_read or     *)
(* m_ok_to_write; "...Awake" was woken and has to test again; "wake..." has *)
(* released the lock and is about to signal.                                *)
RWLabels == {"idle", "reading", "writing", "readAsleep", "readAwake",
             "writeAsleep", "writeAwake", "wakeWriter", "wakeReaders"}

In(label) == {t \in RWThreads : rwPc[t] = label}

RWInit == /\ m_count = 0
          /\ m_waiting_writers = 0
          /\ rwPc = [t \in RWThreads |-> "idle"]

RWGoto(t, label) == rwPc' = [rwPc EXCEPT ![t] = label]
-----------------------------------------------------------------------------
\* Mutant of ReadersMustWait: a writer that waits does not hold readers off.
ReadersMustWait_Negative == m_count < 1 /\ m_waiting_writers # 0

ReadersMustWait == m_count < 0 \/ m_waiting_writers # 0

ReadLock(t) ==
    /\ rwPc[t] \in {"idle", "readAwake"}
    /\ ~ReadersMustWait
    /\ m_count' = m_count + 1
    /\ RWGoto(t, "reading")
    /\ UNCHANGED m_waiting_writers

ReadSleep(t) ==
    /\ rwPc[t] \in {"idle", "readAwake"}
    /\ ReadersMustWait
    /\ RWGoto(t, "readAsleep")
    /\ UNCHANGED <<m_count, m_waiting_writers>>

\* The loop ends: a writer that had to wait is no longer counted.
WriteLock(t) ==
    /\ rwPc[t] \in {"idle", "writeAwake"}
    /\ m_count = 0
    /\ m_count' = -1
    /\ m_waiting_writers' = IF rwPc[t] = "writeAwake"
                            THEN m_waiting_writers - 1 ELSE m_waiting_writers
    /\ RWGoto(t, "writing")

\* One more round of the loop; a writer that was woken leaves the count and
\* joins it again without giving up the mutex.
WriteSleep(t) ==
    /\ rwPc[t] \in {"idle", "writeAwake"}
    /\ m_count # 0
    /\ m_waiting_writers' = IF rwPc[t] = "writeAwake"
                            THEN m_waiting_writers ELSE m_waiting_writers + 1
    /\ RWGoto(t, "writeAsleep")
    /\ UNCHANGED m_count

\* A wait on a condition variable may end without a signal.
RWSpuriousWakeup(t) ==
    /\ \/ rwPc[t] = "readAsleep" /\ RWGoto(t, "readAwake")
       \/ rwPc[t] = "writeAsleep" /\ RWGoto(t, "writeAwake")
    /\ UNCHANGED <<m_count, m_waiting_writers>>

\* Mutant of Unlock: a writer that leaves is counted as a reader.
Unlock_CountsDown(t) ==
    /\ rwPc[t] \in {"reading", "writing"}
    /\ m_count' = m_count - 1
    /\ RWGoto(t, IF m_waiting_writers # 0 /\ m_count' = 0 THEN "wakeWriter"
                 ELSE IF m_waiting_writers = 0 THEN "wakeReaders"
                 ELSE "idle")
    /\ UNCHANGED m_waiting_writers

\* Mutant of Unlock: a reader that leaves does not look at the writers.
Unlock_ForgetsWriters(t) ==
    /\ rwPc[t] \in {"reading", "writing"}
    /\ m_count' = IF m_count < 0 THEN 0 ELSE m_count - 1
    /\ RWGoto(t, IF m_waiting_writers = 0 THEN "wakeReaders" ELSE "idle")
    /\ UNCHANGED m_waiting_writers

\* Both decisions, ww and wr, are made under the mutex and acted on later.
Unlock(t) ==
    /\ rwPc[t] \in {"reading", "writing"}
    /\ m_count' = IF m_count < 0 THEN 0 ELSE m_count - 1
    /\ RWGoto(t, IF m_waiting_writers # 0 /\ m_count' = 0 THEN "wakeWriter"
                 ELSE IF m_waiting_writers = 0 THEN "wakeReaders"
                 ELSE "idle")
    /\ UNCHANGED m_waiting_writers

\* m_ok_to_write.signal(): one sleeping writer, if there is one.
WakeWriter(t) ==
    /\ rwPc[t] = "wakeWriter"
    /\ \/ In("writeAsleep") = {} /\ RWGoto(t, "idle")
       \/ \E w \in In("writeAsleep") :
            rwPc' = [rwPc EXCEPT ![t] = "idle", ![w] = "writeAwake"]
    /\ UNCHANGED <<m_count, m_waiting_writers>>

\* m_ok_to_read.broadcast()
WakeReaders(t) ==
    /\ rwPc[t] = "wakeReaders"
    /\ rwPc' = [u \in RWThreads |->
                  IF u = t THEN "idle"
                  ELSE IF rwPc[u] = "readAsleep" THEN "readAwake"
                  ELSE rwPc[u]]
    /\ UNCHANGED <<m_count, m_waiting_writers>>
-----------------------------------------------------------------------------
RWNext == \E t \in RWThreads :
            \/ ReadLock(t) \/ ReadSleep(t) \/ WriteLock(t) \/ WriteSleep(t)
            \/ RWSpuriousWakeup(t) \/ Unlock(t) \/ WakeWriter(t)
            \/ WakeReaders(t)

RWSpec == RWInit /\ [][RWNext]_rwVars
-----------------------------------------------------------------------------
(* Every variable stays in its type.                                        *)
RWTypeOK == /\ m_count \in Int /\ m_count >= -1
            /\ m_waiting_writers \in Nat
            /\ rwPc \in [RWThreads -> RWLabels]

(* A writer has the lock to itself.                                         *)
WriterAlone == \A t, u \in RWThreads :
    rwPc[t] = "writing" /\ u # t => rwPc[u] \notin {"reading", "writing"}

(* The signals, sent after the mutex was given up, and chosen by a look at  *)
(* the counters before, are enough: a writer sleeps on a free lock only     *)
(* while another one is awake or about to be woken, and a reader sleeps on  *)
(* a lock it might enter only while the broadcast for it is still to come.  *)
NoSleeperForgotten ==
    /\ In("writeAsleep") # {} /\ m_count = 0
         => In("wakeWriter") \cup In("writeAwake") # {}
    /\ In("readAsleep") # {} /\ ~ReadersMustWait => In("wakeReaders") # {}
=============================================================================
