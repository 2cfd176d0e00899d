----------------------------- MODULE JTCThreads -----------------------------
(* The life of threads: PAL's create, start, join and destroy over JTC's    *)
(* thread objects, the hooks around a thread's function, the reference      *)
(* counts that delete a thread object, and the end of the library, where    *)
(* the main thread waits for every other one. All threads are in the main   *)
(* thread's group, as PAL leaves them.                                      *)
EXTENDS Integers, FiniteSets, Sequences, SequencesExt

CONSTANTS
    Workers,        \* the threads that may be created
    Main,           \* the thread that initialised the library
    NoThread        \* holder of a free mutex

ASSUME ThrAssumption == /\ IsFiniteSet(Workers)
                        /\ Main \notin Workers
                        /\ NoThread \notin Workers \cup {Main}

Agents == Workers \cup {Main}

VARIABLES
    m_state,        \* "none" before the object exists
    m_refcount,
    m_mutex,        \* each object's mutex: only start holds it over a step
    m_threads,      \* the thread group's array
    groupLock,      \* the thread group's monitor
    ownerStruct,    \* PAL's struct Thread, with its handle, exists
    thrPc,
    target,         \* the thread an agent joins, starts or runs the hook of
    timed,          \* the join has a time limit
    count,          \* the size of the array waitTermination has made
    list,           \* the handles waitTermination has yet to visit
    visited,        \* the handles it has visited and still holds
    user,           \* who created the thread, or was given it, and uses its struct
    doomed          \* history: the threads the library has given up

objects == <<m_state, m_refcount, m_mutex>>
group == <<m_threads, groupLock>>
program == <<ownerStruct, user>>
mains == <<count, list, visited, doomed>>
thrVars == <<objects, group, program, thrPc, target, timed, mains>>

(* A worker goes through "none", "new" (created), "starting" (its pthread   *)
(* exists), "running" (its function, which may call PAL), the steps of      *)
(* exit_hook and "gone". "startFinish" is inside start, "join..." inside    *)
(* join. Main runs its own exit_hook first and then waitTermination's loop. *)
(* A thread is doomed that waitTermination destroyed before it was started, *)
(* or that was created after the end.                                       *)
HookLabels == {"hookLock", "hookDie", "hookRemove", "hookDrop", "hookUnlock"}
ThrLabels == HookLabels \cup
    {"none", "new", "starting", "running", "startFinish", "joinTest",
     "joinAsleep", "gone", "count", "enumerate", "next", "readState",
     "destroyTest", "torn"}

ThrInit == /\ m_state = [t \in Agents |-> IF t = Main THEN "runnable" ELSE "none"]
           /\ m_refcount = [t \in Agents |-> IF t = Main THEN 3 ELSE 0]
           /\ m_mutex = [t \in Agents |-> NoThread]
           /\ m_threads = <<Main>>
           /\ groupLock = NoThread
           /\ ownerStruct = [t \in Workers |-> FALSE]
           /\ user = [t \in Workers |-> NoThread]
           /\ thrPc = [t \in Agents |-> IF t = Main THEN "running" ELSE "none"]
           /\ target = [t \in Agents |-> t]
           /\ timed = [t \in Agents |-> FALSE]
           /\ count = 0 /\ list = <<>> /\ visited = <<>>
           /\ doomed = {}

ThrGoto(a, from, to) == thrPc[a] = from /\ thrPc' = [thrPc EXCEPT ![a] = to]
Members == {m_threads[i] : i \in 1..Len(m_threads)}
Mine(a, t) == thrPc[a] = "running" /\ t \in Workers /\ user[t] = a
-----------------------------------------------------------------------------
\* Mutant of CreateThread: the object holds no reference to itself.
CreateThread_NoSelf(a, t) ==
    /\ thrPc[a] = "running" /\ thrPc[t] = "none" /\ groupLock = NoThread
    /\ m_state' = [m_state EXCEPT ![t] = "new_thread"]
    /\ m_refcount' = [m_refcount EXCEPT ![t] = 2]
    /\ m_threads' = Append(m_threads, t)
    /\ ownerStruct' = [ownerStruct EXCEPT ![t] = TRUE]
    /\ user' = [user EXCEPT ![t] = a]
    /\ thrPc' = [thrPc EXCEPT ![t] = "new"]
    /\ doomed' = IF thrPc[Main] = "torn" THEN doomed \cup {t} ELSE doomed
    /\ UNCHANGED <<m_mutex, groupLock, target, timed, count, list, visited>>

(* pal_thread_create_thread: the object refers to itself, the group and the *)
(* struct refer to it. The code adds it to the group first; waitTermination *)
(* in between would destroy a thread that never started, as DestroyTest     *)
(* does with a doomed one. Nobody waits for what is created after the end.  *)
CreateThread(a, t) ==
    /\ thrPc[a] = "running" /\ thrPc[t] = "none" /\ groupLock = NoThread
    /\ m_state' = [m_state EXCEPT ![t] = "new_thread"]
    /\ m_refcount' = [m_refcount EXCEPT ![t] = 3]
    /\ m_threads' = Append(m_threads, t)
    /\ ownerStruct' = [ownerStruct EXCEPT ![t] = TRUE]
    /\ user' = [user EXCEPT ![t] = a]
    /\ thrPc' = [thrPc EXCEPT ![t] = "new"]
    /\ doomed' = IF thrPc[Main] = "torn" THEN doomed \cup {t} ELSE doomed
    /\ UNCHANGED <<m_mutex, groupLock, target, timed, count, list, visited>>

\* start takes m_mutex, finds new_thread and creates the pthread.
StartThread(a, t) ==
    /\ Mine(a, t) /\ ownerStruct[t]
    /\ m_mutex[t] = NoThread /\ m_state[t] = "new_thread"
    /\ m_mutex' = [m_mutex EXCEPT ![t] = a]
    /\ target' = [target EXCEPT ![a] = t]
    /\ thrPc' = [thrPc EXCEPT ![a] = "startFinish", ![t] = "starting"]
    /\ UNCHANGED <<m_state, m_refcount, group, program, timed, mains>>

StartFinish(a) ==
    /\ ThrGoto(a, "startFinish", "running")
    /\ m_state' = [m_state EXCEPT ![target[a]] = "runnable"]
    /\ m_mutex' = [m_mutex EXCEPT ![target[a]] = NoThread]
    /\ UNCHANGED <<m_refcount, group, program, target, timed, mains>>

\* entrance_hook: setPriority needs m_mutex, and so waits for start's end.
BeginRun(t) ==
    /\ ThrGoto(t, "starting", "running")
    /\ m_mutex[t] = NoThread
    /\ UNCHANGED <<objects, group, program, target, timed, mains>>

\* The thread's function returns; exit_hook follows.
ReturnFromRun(t) ==
    /\ t \in Workers
    /\ ThrGoto(t, "running", "hookLock")
    /\ target' = [target EXCEPT ![t] = t]
    /\ UNCHANGED <<objects, group, program, timed, mains>>

(* pal_thread_destroy_thread. Both flags it reads only ever change from     *)
(* false to true, in this order, so that it is as if it read them at once.  *)
DestroyStruct(a, t) ==
    /\ Mine(a, t) /\ ownerStruct[t]
    /\ thrPc[t] \in {"new", "starting", "gone"} \cup HookLabels
    /\ ownerStruct' = [ownerStruct EXCEPT ![t] = FALSE]
    /\ m_refcount' = [m_refcount EXCEPT ![t] = @ - 1]
    /\ UNCHANGED <<m_state, m_mutex, group, thrPc, target, timed, user, mains>>

\* The program lets another thread than the creator start a thread and use it.
HandOver(a, t) ==
    /\ Mine(a, t) /\ ownerStruct[t] /\ thrPc[t] = "new"
    /\ \E b \in Agents \ {a, t} : thrPc[b] = "running"
                                /\ user' = [user EXCEPT ![t] = b]
    /\ UNCHANGED <<objects, group, ownerStruct, thrPc, target, timed, mains>>
-----------------------------------------------------------------------------
JoinThread(a, t) ==
    /\ Mine(a, t) /\ ownerStruct[t]
    /\ ThrGoto(a, "running", "joinTest")
    /\ target' = [target EXCEPT ![a] = t]
    /\ \E limit \in BOOLEAN : timed' = [timed EXCEPT ![a] = limit]
    /\ UNCHANGED <<objects, group, program, mains>>

AfterJoin(a) == IF a = Main /\ m_state[Main] = "dead" THEN "readState"
                ELSE "running"

JoinTest(a) ==
    /\ m_mutex[target[a]] = NoThread
    /\ ThrGoto(a, "joinTest", IF m_state[target[a]] = "runnable"
                              THEN "joinAsleep" ELSE AfterJoin(a))
    /\ UNCHANGED <<objects, group, program, target, timed, mains>>

JoinTimesOut(a) ==
    /\ timed[a]
    /\ ThrGoto(a, "joinAsleep", AfterJoin(a))
    /\ UNCHANGED <<objects, group, program, target, timed, mains>>

\* m_join_cond.wait may return without the broadcast.
JoinSpuriousWakeup(a) ==
    /\ ThrGoto(a, "joinAsleep", "joinTest")
    /\ UNCHANGED <<objects, group, program, target, timed, mains>>
-----------------------------------------------------------------------------
\* Mutant of HookLock: the group is not locked around the hook.
HookLock_NoLock(a) ==
    /\ ThrGoto(a, "hookLock", "hookDie")
    /\ UNCHANGED <<objects, group, program, target, timed, mains>>

\* exit_hook of target[a], run by the thread itself or by waitTermination.
HookLock(a) ==
    /\ groupLock = NoThread
    /\ ThrGoto(a, "hookLock", "hookDie")
    /\ groupLock' = a
    /\ UNCHANGED <<objects, m_threads, program, target, timed, mains>>

\* Mutant of HookDie: the joiners are not woken.
HookDie_Silent(a) ==
    LET t == target[a] IN
    /\ ThrGoto(a, "hookDie", "hookRemove")
    /\ m_mutex[t] = NoThread
    /\ m_state' = [m_state EXCEPT ![t] = IF @ = "runnable" THEN "dead" ELSE @]
    /\ UNCHANGED <<m_refcount, m_mutex, group, program, target, timed, mains>>

\* A thread that runs is dead from here on, and those who join it are woken.
HookDie(a) ==
    LET t == target[a] IN
    /\ thrPc[a] = "hookDie"
    /\ m_mutex[t] = NoThread
    /\ m_state' = [m_state EXCEPT ![t] = IF @ = "runnable" THEN "dead" ELSE @]
    /\ thrPc' = [u \in Agents |->
                   IF u = a THEN "hookRemove"
                   ELSE IF thrPc[u] = "joinAsleep" /\ target[u] = t
                           /\ m_state[t] = "runnable"
                        THEN "joinTest" ELSE thrPc[u]]
    /\ UNCHANGED <<m_refcount, m_mutex, group, program, target, timed, mains>>

\* Mutant of HookRemove: the handle is given up whether it is there or not.
HookRemove_NoTest(a) ==
    LET t == target[a] IN
    /\ ThrGoto(a, "hookRemove", "hookDrop")
    /\ \/ \E i \in 1..Len(m_threads) : /\ m_threads[i] = t
                                       /\ m_threads' = RemoveAt(m_threads, i)
       \/ t \notin Members /\ UNCHANGED m_threads
    /\ m_refcount' = [m_refcount EXCEPT ![t] = @ - 1]
    /\ UNCHANGED <<m_state, m_mutex, groupLock, program, target, timed, mains>>

\* JTCThreadGroup::remove: the group's handle goes, if it is still there.
HookRemove(a) ==
    LET t == target[a] IN
    /\ ThrGoto(a, "hookRemove", "hookDrop")
    /\ \/ \E i \in 1..Len(m_threads) :
             /\ m_threads[i] = t
             /\ m_threads' = RemoveAt(m_threads, i)
             /\ m_refcount' = [m_refcount EXCEPT ![t] = @ - 1]
       \/ t \notin Members /\ UNCHANGED <<m_threads, m_refcount>>
    /\ UNCHANGED <<m_state, m_mutex, groupLock, program, target, timed, mains>>

HookDrop(a) ==
    /\ ThrGoto(a, "hookDrop", "hookUnlock")
    /\ m_refcount' = [m_refcount EXCEPT ![target[a]] = @ - 1]
    /\ UNCHANGED <<m_state, m_mutex, group, program, target, timed, mains>>

\* Main goes on with waitTermination, a worker's pthread ends.
HookUnlock(a) ==
    /\ ThrGoto(a, "hookUnlock", IF a # Main THEN "gone"
                                ELSE IF target[a] = Main THEN "count" ELSE "next")
    /\ groupLock' = NoThread
    /\ UNCHANGED <<objects, m_threads, program, target, timed, mains>>
-----------------------------------------------------------------------------
\* waitTermination, with the exit_hook of the main thread first.
WaitTermination ==
    /\ ThrGoto(Main, "running", "hookLock")
    /\ target' = [target EXCEPT ![Main] = Main]
    /\ UNCHANGED <<objects, group, program, timed, mains>>

\* The loop's test, activeCount.
Count ==
    /\ ThrGoto(Main, "count", IF m_threads = <<>> THEN "torn" ELSE "enumerate")
    /\ groupLock = NoThread
    /\ count' = Len(m_threads)
    /\ UNCHANGED <<objects, group, program, target, timed, list, visited, doomed>>

(* Between the count and the copy the group may shrink or grow, and what    *)
(* did not fit into the array is left for the next round.                   *)
Enumerate ==
    /\ ThrGoto(Main, "enumerate", "next")
    /\ groupLock = NoThread
    /\ list' = SubSeq(m_threads, 1, IF count < Len(m_threads) THEN count
                                    ELSE Len(m_threads))
    /\ m_refcount' = [t \in Agents |->
         m_refcount[t] + Cardinality({i \in 1..Len(list') : list'[i] = t})]
    /\ UNCHANGED <<m_state, m_mutex, group, program, target, timed, count, visited,
                   doomed>>

VisitNext ==
    /\ list # <<>>
    /\ ThrGoto(Main, "next", "joinTest")
    /\ target' = [target EXCEPT ![Main] = Head(list)]
    /\ timed' = [timed EXCEPT ![Main] = FALSE]
    /\ list' = Tail(list)
    /\ visited' = Append(visited, Head(list))
    /\ UNCHANGED <<objects, group, program, count, doomed>>

\* Mutant of ReadState: threads that were never started are left alone.
ReadState_Skips ==
    /\ ThrGoto(Main, "readState", "next")
    /\ UNCHANGED <<objects, group, program, target, timed, mains>>

\* m_state is read without m_mutex.
ReadState ==
    /\ ThrGoto(Main, "readState",
               IF m_state[target[Main]] = "new_thread" THEN "destroyTest" ELSE "next")
    /\ UNCHANGED <<objects, group, program, target, timed, mains>>

\* destroy: throws if the thread was started since.
DestroyTest ==
    LET t == target[Main] IN
    /\ m_mutex[t] = NoThread
    /\ ThrGoto(Main, "destroyTest",
               IF m_state[t] = "new_thread" THEN "hookLock" ELSE "next")
    /\ doomed' = IF m_state[t] = "new_thread" THEN doomed \cup {t} ELSE doomed
    /\ UNCHANGED <<objects, group, program, target, timed, count, list, visited>>

\* delete[] list
DropList ==
    /\ list = <<>>
    /\ ThrGoto(Main, "next", "count")
    /\ m_refcount' = [t \in Agents |->
         m_refcount[t] - Cardinality({i \in 1..Len(visited) : visited[i] = t})]
    /\ visited' = <<>>
    /\ UNCHANGED <<m_state, m_mutex, group, program, target, timed, count, list,
                   doomed>>
-----------------------------------------------------------------------------
UsePAL(a) == \E t \in Workers : \/ CreateThread(a, t) \/ StartThread(a, t)
                                \/ DestroyStruct(a, t) \/ JoinThread(a, t)
                                \/ HandOver(a, t)

Hook(a) == HookLock(a) \/ HookDie(a) \/ HookRemove(a) \/ HookDrop(a) \/ HookUnlock(a)

Terminate == Count \/ Enumerate \/ VisitNext \/ ReadState \/ DestroyTest \/ DropList

ThrNext ==
    \/ \E a \in Agents : \/ UsePAL(a) \/ StartFinish(a) \/ BeginRun(a)
                         \/ JoinTest(a) \/ JoinTimesOut(a)
                         \/ JoinSpuriousWakeup(a) \/ Hook(a) \/ ReturnFromRun(a)
    \/ WaitTermination \/ Terminate

ThrSpec == ThrInit /\ [][ThrNext]_thrVars

(* The library's own steps go on, and a monitor that is free again and      *)
(* again is given to everyone who asks for it in the end. A function need   *)
(* not return, and the main thread need not end.                            *)
ThrFairness ==
    /\ \A a \in Agents : /\ WF_thrVars(StartFinish(a) \/ BeginRun(a))
                         /\ WF_thrVars(JoinTest(a))
                         /\ SF_thrVars(HookLock(a))
                         /\ WF_thrVars(HookDie(a) \/ HookRemove(a) \/ HookDrop(a)
                                         \/ HookUnlock(a))
    /\ SF_thrVars(Count) /\ SF_thrVars(Enumerate)
    /\ WF_thrVars(VisitNext \/ ReadState \/ DestroyTest \/ DropList)
-----------------------------------------------------------------------------
HandlesOf(t) ==
    (IF t \in Members THEN 1 ELSE 0) + (IF t \in Workers /\ ownerStruct[t] THEN 1 ELSE 0)
    + Cardinality({i \in 1..Len(list) : list[i] = t})
    + Cardinality({i \in 1..Len(visited) : visited[i] = t})

(* Every variable stays in its type.                                        *)
ThrTypeOK ==
    /\ m_state \in [Agents -> {"none", "new_thread", "runnable", "dead"}]
    /\ m_refcount \in [Agents -> -1..4]
    /\ m_mutex \in [Agents -> Agents \cup {NoThread}]
    /\ m_threads \in Seq(Agents)
    /\ groupLock \in Agents \cup {NoThread}
    /\ ownerStruct \in [Workers -> BOOLEAN]
    /\ user \in [Workers -> Agents \cup {NoThread}]
    /\ thrPc \in [Agents -> ThrLabels]
    /\ target \in [Agents -> Agents]
    /\ timed \in [Agents -> BOOLEAN]
    /\ count \in Nat /\ list \in Seq(Agents) /\ visited \in Seq(Agents)
    /\ doomed \subseteq Agents

(* When the library is torn down no thread is left in it: each one was      *)
(* never created, or never started, or has ended and given up its object,   *)
(* whoever created or started threads while the main thread was waiting.    *)
(* The exceptions are the one the comment in waitTermination names, a       *)
(* thread that was destroyed there before its user started it, and the      *)
(* threads that one creates when the library is gone.                       *)
NoneOutlivesTermination == thrPc[Main] = "torn" =>
    \A t \in Workers \ doomed :
        /\ thrPc[t] \in {"none", "gone"}
        /\ m_refcount[t] = HandlesOf(t)

(* A thread object is deleted when its last handle goes and not before:     *)
(* while it runs, is in the group, in waitTermination's list or in a PAL    *)
(* struct, it exists.                                                       *)
HandlesKeepObject == \A t \in Agents \ doomed :
    m_refcount[t] = 0 =>
        /\ t \notin Members
        /\ t \in Workers => ~ownerStruct[t]
        /\ HandlesOf(t) = 0
        /\ thrPc[t] \in {"none", "hookUnlock", "gone", "torn"} \/ t = Main
        /\ \A a \in Agents : thrPc[a] \in {"joinTest", "joinAsleep", "startFinish"}
                               => target[a] # t

(* A join returns once the thread's function has: the broadcast is not      *)
(* missed, and the state it waits for does change.                          *)
JoinReturns == \A a \in Agents :
    LET joins == /\ thrPc[a] \in {"joinTest", "joinAsleep"}
                 /\ thrPc[target[a]] \in HookLabels \cup {"gone"}
    IN joins ~> ~joins

(* The end of the library is reached once every thread that was started     *)
(* has returned from its function.                                          *)
TerminationReturns ==
    (thrPc[Main] = "count"
       /\ \A t \in Workers : thrPc[t] \in {"none", "new", "gone"} \cup HookLabels)
      ~> thrPc[Main] = "torn"
=============================================================================
