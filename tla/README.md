# A TLA+ model of Wayfinder CppCore v3

Wayfinder CppCore v3 is the native core of a navigation client. An application asks the core for
something (a route, a search); the core turns the request into a packet, sends it to the server over
one connection, and a thread of its own hands the reply to the modules that listen. The interesting
logic is concurrent: application threads send, a reader thread per connection receives, a router
thread calls the listeners, and all of them meet in queues and maps guarded by mutexes and condition
variables. This directory models that logic, checks it with TLC and proves parts of it with TLAPS.

## Inventory

Paths are relative to `src/`.

| Component | State | Operations | Used by / uses |
|---|---|---|---|
| `Common/Utils` **ConcurrentQueue** (with `Lock`) | `m_queue`, `m_mutex`, `m_condVar` | push, tryPop, waitAndPop (with and without time-out), empty | MessageRouter and ServerHandler queue packets in it |
| `CV3/Modules/MessageRouter` **MessageRouter** | `m_messageQueue`, `m_listeners`, `m_stayAlive`, `m_routeMutex`, `m_routerThreadCond`, the router thread | receivedNGPPacket, checkQueue, registerListener, deregisterListener, startThread, stopThread, destructor | called by ServerHandler on the reader thread; calls every MessageListener on its own thread |
| `CV3/Modules/MessageRouter` **MessageDispatcher** | none that changes | postMessage | forwards to ServerHandler::sendNGPMessage |
| `Core/Source/ServerCom` **ServerHandler**, RequestIdGenerator, RequestMapHolder, ReceiverMapHolder | `m_requestId`, `m_requestMap`, `m_messageReceiverMap`, `m_msgQueue` | sendNGPMessage, notify, sendBlocking, receivedNGPPacket, (de)registerNGPMessageReceiver | called by the dispatcher (any thread) and the reader thread; writes through ConnectionManager |
| `Core/Source/ConnectionManager` **ConnectionManager**, **Connection**, **ConnectionReader** | map of connections, `m_isEstablished`, `m_shouldRun`, the reader thread | getConnection, writeBlocking, establish, terminate, run, receiveBlocking | owned by ServerHandler; uses the PAL connection |
| `CV3/Modules/CoreMain` **Core**, CoreFactory | ownership of the three parts above | createCore, destructor | the application |
| `PAL/POSIX` **PALThreading**, **PALSocket**, PALConnection | threads, mutexes, condition variables, file descriptors | create, lock, wait, signal, start, join, connect, read, write, disconnect | everything above |
| `PAL/POSIX/src/JTC` **JTC** | thread states and reference counts, the thread group, lock counts, pending notifications | JTCThread, JTCThreadGroup, JTCMutex, JTCRecursiveMutex, JTCCond, JTCMonitor, JTCRWMutex, JTCInitialize | PALThreading |
| `ngplib` packets: **NParamBlock**, NavPacket, NavReplyPacket | parameters ordered by id, header fields | add, update, remove, write, parse | ServerHandler, ConnectionReader |
| `Common/Utils` **Buffer** | bytes, `m_readPos`, `m_writePos`, `m_validBytes`, `m_dataLength` | reads and writes of values, arrays and strings, jumps, alignment, growth | packets |
| Location, Authorization, SessionSettings, bearers | - | empty bodies | - |
| Other utilities, logging, graphics, image decoding, the packet generator | - | sequential value types, output, build-time tools | - |

What is hard in it, and what makes each component correct:

* **ConcurrentQueue.** `push` broadcasts after it has unlocked; a pop acts on a test made before a
  wait. Correct means: a FIFO with atomic operations, no lost wake-up, no pop from an empty queue.
* **MessageRouter.** The router thread tests the queue and sleeps in two separate steps; the flag
  that stops it is read without the lock, set before the thread is started, and never initialised;
  the stop releases the lock before it joins; the listeners are a set without a lock that is iterated
  while callbacks may change it; the destructor destroys what the thread uses. Correct means: packets
  in order, each to every listener, deleted after its last; a stop is noticed; destruction is safe.
* **ServerHandler.** Senders write each other's packets, at the same time, on one connection; the
  answer may come before the sender has returned; ids are 32 bits wide in the maps and 8 in a packet;
  failed writes are not noticed. Correct means: the reply goes to the module that asked.
* **Connections and shutdown.** A thread blocked in `read` is to be joined; the core deletes objects
  the reader thread may be calling. Correct means: every join returns, nothing deleted is used.
* **JTC.** Pending notifications and lock counts across a wait; two mutexes taken in two orders;
  signals sent after a lock is given up; thread objects that delete themselves when their last handle
  goes, while the end of the library joins and destroys from a copy of the group; the arithmetic of
  time-outs. Correct means: exclusion, no sleeper and no notification forgotten, joins that return, a
  library that ends with no thread in it.
* **Buffer and packets.** Two positions, alignment gaps, growth and unsigned tests for room; blocks
  that are sorted on the way in and parsed from bytes that may have been cut. Correct means: positions
  inside the buffer, and what was written is what is read.

`PROJECT.json` lists these hazards one by one at the line where each bites.

## Modules

| Module | What it is |
|---|---|
| `FifoQueue` | abstract: what `ConcurrentQueue<Type>` promises |
| `ConcurrentQueue` | the queue, step by step |
| `MCConcurrentQueue` | its instances for TLC |
| `ConcurrentQueueProofs` | its theorems |
| `PacketFanout` | abstract: what the router promises the modules behind it |
| `MessageRouter` | the router thread, notifiers, controllers, listeners |
| `MCMessageRouter` | its instances for TLC |
| `MessageRouterProofs` | its theorems |
| `ServerHandler` | requests, writes, replies, receivers |
| `MCServerHandler` | its instances for TLC |
| `ConnectionReader` | a connection, its owner and its reader thread |
| `MCConnectionReader` | its instance for TLC |
| `ConnectionReaderProofs` | its theorems |
| `ServerHandlerProofs` | theorems on `ServerHandler` |
| `CoreLifetime` | createCore and ~Core over the handler's maps, the router and a running reader thread |
| `JTCRWMutex`, `JTCRWMutexProofs` | the read-write mutex and its theorems |
| `JTCMonitor`, `JTCMonitorProofs` | the monitor, with the recursive mutex and the condition variable in it, and its theorems |
| `JTCThreads` | the life of threads and the end of the library |
| `JTCTimeouts` | absolute deadlines and the rounding of time limits |
| `Buffer`, `BufferProofs` | the growing byte array and its theorems |
| `NParamBlock` | parameter blocks and replies as bytes and back |
| `MCLibraries` | one instance for the last six models |

Variables have the names of the members they stand for (`m_queue`, `m_stayAlive`, `m_requestMap`);
`pc` says where a thread is in the code. An action is one stretch of code between two points where
another thread can be seen to run: taking a lock, a shared access under it, giving it up, a call of a
condition variable. What holds a lock throughout and touches nothing else is one action.
Definitions whose name has an underscore and a suffix (`PopFront_Back`) are mutants of the action
named before the underscore: a plausible bug, used to see that a property can fail.

### ConcurrentQueue

Producers call `push`: `PushCall`, `PushLock`, `PushInsert` (which also unlocks), `PushBroadcast`.
Consumers call one of the three pops (`op` says which): `PopCall`, `PopLock`, `TestEmpty`, then
`PopFront`, `PopFail` or `CondWait`; a wait ends by a broadcast, spuriously (`SpuriousWakeup`) or by
`TimeoutExpires`, and takes the lock again (`Reacquire`). A timed-out wait returns false without
another look at the queue, as in the code. Elements are pointers: one that was popped may be pushed
again after its consumer is done with it (`Dispose`), which also bounds the state space. The duration
of a time-out is abstracted to "it may expire at any time"; that it starts anew after every wake-up
(line 129) is therefore not visible.

### MessageRouter

`m_messageQueue` is a ConcurrentQueue; its operations are atomic here, which is what
`LinearizableFifo` establishes about it. The router thread (`routerPc`) goes round
`ReadStayAlive`, `CheckEmpty`, `TryPop`, `CallListener`, `AdvanceIterator`, `DeletePacket`,
`WaitLock`, `WaitGuard`, `Wakeup`. A notifier is a reader thread in ServerHandler::receivedNGPPacket:
it fetches the receiver (`ReceiverFound`) and then runs the router's receivedNGPPacket (`PushPacket`,
`NotifyLock`, `NotifySignal`). Controllers run startThread (`StartLock`, `StartBody`), stopThread (`StopLock`,
`StopClear`, `StopSignal`, `Join`) and the destructor, which is a stopThread(true) followed by the
destruction (`DestroyCall` ... `Join`). A signal wakes the router thread only if it waits at that
moment. `StartBody` includes the second start of a thread: JTC throws, after `m_stayAlive` was set.
`ThreadActive` is JTC's "runnable"; join returns at once for a thread that was never started.

The listener set is iterated in address order, so listeners are natural numbers. `Registration` says
when the set may change: by the application while nothing is being delivered, by a called listener
about others, by a called listener about itself, or by the application at any time. The last two
invalidate the iterator (`itValid`), after which the increment may lead anywhere.

The destructor deregisters the receiver first (`DestroyCall`), after which no reader fetches the
pointer any more; it does not wait for one that has fetched it already, which goes on pushing and
signalling while the destructor stops and joins the router thread. Callers that are inside another
method go on as well. What any of them does once the object is destroyed is undefined and is not
followed (`Goto` asks for an object that is not destroyed): that they get there is what
`NoUseAfterDelete` of `CoreLifetime` shows.

Not modelled: `post` (its body is empty), `setShutdownListener` (its only use is commented out at
lines 197-200), a listener that calls startThread or stopThread, the freeing of packets left at the
end.

### ServerHandler

A sender runs sendNGPMessage: `GenerateId`, `RegisterReceiverId`, `PushRequest`, `NotifyPop`, then
the write loop of sendBlocking: `WriteSome` (a partial write), `WriteRest`, or `WriteFails`. A failed
write leaves the count unassigned and its result is overwritten, so the loop ends as if all were
written or goes on from a wrong offset: both are allowed. The bytes of the connection are abstracted
to whether all packets in it are whole (`streamWhole`); a server that got mixed bytes may still
understand a request or not. The server is external: it answers any request it has got, at any time,
in any order, or never, and at most once. The reader thread runs receivedNGPPacket:
`GetAndRemoveReceiver` (with `std::map::operator[]`, which makes an entry of value 0, the router),
`GetMessageReceiver`, `CallReceiver`. Each map operation is one action, as it holds the map's own
mutex. Request ids are `% KeyIds` in the generator and `% WireIds` in a packet.

Not modelled here: start(), the destructor, and the receiver that was deleted between
`GetMessageReceiver` and `CallReceiver`; they are in `CoreLifetime`.

### ConnectionReader

The owner's steps are getConnection (`CreateSocket`, `Connect`, `StartReader`) and ~Connection
(`Terminate`, `Shutdown`, `Close`, `ClearFd`, `DeleteReader`, `Join`); the status of the socket calls
is ignored as in the code, so the reader may be started on a socket that is not connected (`socket`)
or does not exist (`fd` false). The reader's steps are the loop of run (`LoopTest`), the two
receiveBlockings (`ReceiveHeader`, `ParseHeader`, `ParseBody`; `ReadParts` with its loop over partial
reads), and pal_socket_read: `ReadCheck` tests `fd`, and the call that follows yields parts
(`ReadParts`), an end or an error (`ReadFails`). `fd` is read twice there while disconnect may clear
it; a build that loads it twice passes descriptor 0 to read (`ReadStdin`), one that does not passes
the closed descriptor. Both are allowed. Standard input is external and yields nothing.

Bytes are abstracted to parts `<<packet, position>>`: a buffer that equals `HeaderOf(i)` or
`BodyOf(i, ...)` holds what the server sent, and every other buffer may be taken for anything, with or
without STX, of any length, of a known type or not. The reader's `delivered` is the list of packets
it has handed to ServerHandler::receivedNGPPacket, which is where ServerHandler's `ServerReplies`
takes over; TCP keeps order, so `inFlight` is a sequence.

Not modelled: a descriptor that was reused by another part of the program between close and
`ClearFd`; a length field that wraps below zero (the allocation throws); reads that a signal
interrupts; the map of connections, of which the core makes one.

### CoreLifetime

The composition: the application's thread in createCore (`CreateHandler`, `CreateRouter`,
`FinishRouter`) and in ~Core (`DeleteDispatcher`, `DeregisterRouter`, `StopRouter`, `DeleteRouter`,
`DeleteMaps`, `Terminate`, `JoinReader`, in the order the destructors of Core, MessageRouter and
ServerHandler run), the reader thread in receivedNGPPacket (`GetAndRemoveReceiver`,
`GetMessageReceiver`, `PushPacket`, `NotifyRouter`) and the router thread. Only which objects exist
and which one a thread is about to use is kept; the other modules have the rest. `DeleteRouter` waits
for the router thread, `JoinReader` for the reader.

### JTCRWMutex

All four methods run under one JTCMutex and release it only in a wait or at their end, so what lies
between is one action: `ReadLock` or `ReadSleep`, `WriteLock` or `WriteSleep` (first try or after a
wake-up), `Unlock`. The signals are sent after the mutex was given up, from decisions made before:
`WakeWriter` and `WakeReaders` are steps of their own. A wait may end by itself
(`RWSpuriousWakeup`).

### JTCMonitor

JTCMonitor is JTCRecursiveMutex plus JTCCond, and JTCRecursiveMutex is two pthread mutexes:
`m_internal` around its counter, and `m_lock`, which the owner keeps. The acquisition is `CallLock`,
`ClaimMutex` or `MutexIsTaken` and `RetryLock`, and `EnterMonitor`, which also resets `m_nnotify`.
Inside, a thread may `LockAgain`, `Notify`, `NotifyAll`, `UnlockNested`, `UnlockMonitor` or
`CallWait`; a wait sends the pending notifications (`SignalOne`, `Broadcast`), gives the counter up
(`ResetForWait`), then `m_lock` while it falls asleep (`SleepInWait`), wakes by a signal or by itself
(`WaitExpires`), takes `m_lock` (`LeaveCondWait`) and gives it back to lock the mutex as often as
before (`CondHelper`). Calls of a thread that does not own the monitor, which throw, are left out.

### JTCThreads

Agents are the workers and the main thread. Any agent whose function runs may call PAL: `CreateThread`
(object, handle in the group, handle in the struct, reference to itself), `StartThread` and
`StartFinish` (with the thread's mutex held in between, while the pthread may already run up to
entrance_hook: `BeginRun`), `JoinThread` (timed or not; `JoinTest`, `JoinTimesOut`,
`JoinSpuriousWakeup`), `DestroyStruct`. A thread that returns goes through exit_hook (`HookLock` ...
`HookUnlock`). The main thread ends with waitTermination: its own exit_hook, then `Count`,
`Enumerate`, `VisitNext`, a join, `ReadState`, and `DestroyTest` for a thread that never started,
until the group is empty. `m_refcount` is the count the code deletes the object by. A thread's struct
is used by one thread at a time: its creator, or the one it was given to before the start (`HandOver`,
which is the program's and not the library's). `CreateThread` adds the thread to the group and to the
struct in one step; in the code waitTermination may come between the two, and destroys a thread that
has never started: that is the gap described below, and such a thread is `doomed` there as well. start
keeps the thread's mutex until it has set the state, so a join waits for its end; a join of a thread
that was only created returns at once, as in the code.

The comment in waitTermination (JTCThread.cpp:1486-1492) names its own gap: a thread that is destroyed
there and started afterwards by the thread that has its struct. destroy() leaves the state at new_thread, so the start
succeeds and the reference to itself is dropped twice. `doomed` marks these threads and the
properties except them. Such a thread runs on when the library is gone and may create others, for
which nobody waits any more; `CreateThread` marks these as well. With two workers this cannot happen,
since the first one that is missed has nobody left to create: it was the attempt to prove
`NoneOutlivesTermination` for any number of threads that showed it, and TLC shows it with three.

`HookRemove` takes the handle out of the array wherever it stands and moves up those behind it, as
JTCThreadGroup::remove does.

### JTCTimeouts

`CalcTimeout` is calc_timeout's sum of the time of day and a limit in milliseconds, `JoinMillis` the
rounding of join(millis, nanos). The state is one call with arguments at their boundaries.

### Buffer

Bytes are left out; an operation is where it reads or writes. `WriteNext` is every write of one value
(8, 16 and 32 bits, float, and the unaligned ones), `WriteNext64` the aligned one of 64 bits, whose
test for room comes before the alignment of its two halves; `WriteArray`, `WriteBuffer` and `Nprintf`
the rest. Each has room (`HasRoom`, with the unsigned subtraction `Minus`), makes room (`Grow`:
what was asked for or a quarter, `Enlarged`), or fails in a buffer that borrows its bytes
(`PutFails`). `ReadNext`, `ReadNext64`, `ReadArray`, `ReadCharString`, `GetCharString` and
`GetCharStringAlloc` read; jumps, set positions, alignments, `Clear`, `ReleaseData`, `TakeData` and
`Reserve` are the rest. `strayed` becomes true when the program steps over the end (the caller
aligned past it, or a string is not terminated); nothing is said of what follows. `written` and `next`
are history: what the writers put where, and which item the reader is at.

### NParamBlock

A block is a sequence ordered by id, as the multiset is; `AddParam` puts an element behind its equals,
`UpdateParam` may find any of several equal ones, `RemoveParam` erases them all. `WriteParams`,
`WriteReply` and their inverses `ParseParams`, `ParseReply` are operators on sequences of bytes.
`StatusMessage` is what setStatusMessage keeps of a text, its zero included, and
`WriteSpecificHeaderPart` writes what is kept and one more zero. A
byte is a digit below `Radix`, so that a two-byte length already overflows with a body of four.
The loop of the parser is a recursive function over positions. Compression is left out: HAVE_ZLIB is
set by the packet library's own makefiles only; without it `implemented()` is false and no flag is
written.

## Runs

| Run | Instance | Question | Result |
|---|---|---|---|
| `ConcurrentQueue` | 2 producers, 2 consumers, 2 elements | types, `TestStillValid`, `NoLostWakeup`, implements `FifoQueue`, `SleepersServed` | holds, about 15 000 states |
| `MessageRouter` | 2 notifiers, 2 controllers, 2 packets, 3 listeners, either initial `m_stayAlive` | types, `NoMissedStop`, implements `PacketFanout` | holds, about 1 518 000 states |
| `MessageRouterLive` | 2 notifiers, 1 controller, 2 packets, 1 listener | `SignalDrainsQueue`, `DestructorReturns` | holds, about 26 000 states |
| `MessageRouterLostPacket` | 1 notifier, 1 packet, the thread is only started | `RoutesEveryPacket` | violated |
| `MessageRouterStopRace` | 2 controllers that start and stop, no notifier | `StopReturns` | violated |
| `MessageRouterDeregister` | 2 listeners that may deregister themselves | `IteratorStaysValid` | violated |
| `ServerHandler` | 3 senders, 2 receivers, 3 requests, ids of 4 and 8 values, writes may fail | types, `ReplyToRequester`, `RegisteredBeforeSent`, `NotifyFindsPacket` | holds, about 290 000 states |
| `ConnectionReader` | 3 packets of 3 kinds, headers of 2 and bodies of 3 parts | types, `DeliversReplies`, `AtMostOneMore`, `RepliesDelivered`, `TerminateReturns` | holds, about 165 000 states |
| `ServerHandlerWrap` | the same with 2 senders and 5 requests | `ReplyToRequester` | violated |
| `ServerHandlerTorn` | 2 senders, no write fails | `RequestsStayWhole` | violated |
| `CoreLifetime` | 2 requests, one core | `NoUseAfterDelete` | violated |
| `Libraries` | 4 threads on a read-write mutex; 2 on a monitor; the main thread and 2 workers; calls of join at the boundaries; buffers of up to 10 bytes at first; blocks of 2 parameters | the rest, below | holds, about 125 000 states |

`Libraries` asks of each library in turn: `RWTypeOK`, `WriterAlone`, `NoSleeperForgotten`
(read-write mutex); `MonTypeOK`, `MonitorHeld`, `NotifiesAreSent`, `LockOrder` (monitor);
`ThrTypeOK`, `NoneOutlivesTermination`, `HandlesKeepObject`, `JoinReturns`, `TerminationReturns`
(threads); `DeadlineExact` (time-outs); `BufTypeOK`, `BufInBounds`, `ReadBack` (buffer); `ParTypeOK`,
`ReplyRoundTrip`, `CutsAreSeen` (parameter blocks). These modules share no state, so `MCLibraries`
picks one as the `subject` of a behaviour and only that one moves: the states add up instead of
multiplying, and every property is checked over all behaviours of its own module.

The six violated properties are findings. What they show:

* **Lost packet.** checkQueue finds the queue empty; a packet is pushed and signalled; nobody waits
  yet, so the signal is forgotten; routerThreadWait then waits without looking at the queue. The
  packet stays until the next one comes. `SignalDrainsQueue` shows that the next one does help: a
  signal that is sent while the thread runs has every packet routed that was in the queue then.
* **Stop race.** stopThread(true) unlocks before it joins. A startThread in between finds
  `m_stayAlive` false, sets it again and cannot start the thread, which is still running; the thread
  goes on and the join never returns. `StopReturns` is about a stop that found a running thread, so
  the run shows this schedule and not a thread that is started for the first time behind a stop.
* **Deregistration from a callback** erases the set's node the loop is standing on.
* **Id wrap.** The id is looked up with its low eight bits only: the reply to request
  256 + n is looked up as n, finds no entry and goes to receiver 0, or finds the entry of request n
  if that one was never answered.
* **Mixed packets.** Two senders in the partial-write loop interleave their bytes.
* **Deletion order.** ~ServerHandler deletes the request and receiver maps before the connection
  manager, whose destructor is what stops the reader thread; a reply on its way is looked up in
  deleted maps. The router is gone even earlier, and a reader that fetched the pointer before the
  router deregistered pushes into it.

Seen while modelling, and left as observations:

* calc_timeout carries into the seconds only above 10^9, so a sum of exactly 10^9 stays in `tv_nsec`
  (JTCCond.cpp:650); `DeadlineExact` names it as its exception.
* A buffer that grew by a quarter may have an odd length. A later aligned write steps past the end
  and the unsigned test for room wraps: the write goes outside the buffer (`strayed`).
* enlargeData copies the bytes up to the write position only; what is behind it after a jump back is
  lost when the buffer grows. writeNext64bit returns true although its lower half found no room.
* setStatusMessage keeps a text with its terminating zero, and writeSpecificHeaderPart appends a second
  one (NavReplyPacket.cpp:65) where its comment counts "strlen +1". The parser stops at the first, so
  what is behind the message is read one byte late and the parameters of such a reply are not found.
  `ReplyRoundTrip` names the case as its exception: of a reply whose message was set it asks for what
  stands before the parameters. With the parameters asked for as well, TLC refutes it at once, for
  the empty block.
* A block with flags of which nothing is left is taken for a valid empty block (NParamBlock.cpp:44);
  `CutsAreSeen` names it as its exception. Every other cut is seen or falls between two parameters.
* readNextCharString with a length of 0 writes in front of its destination. In a parameter a length
  above 16 bits is cut (`Writable`), and getInt32 swaps the bytes of a value already in host order.
* waitTermination's gap, above. enumerate of nested groups counts the threads where it means the
  groups (JTCThreadGroup.cpp:350).

### Bounds

* Two producers and two consumers are the least with which a wake-up can be taken by the wrong
  consumer and two pushes can overtake; two elements let the queue be non-empty while one is popped.
* Three listeners let the one being called add or remove one before and one after itself. Two
  controllers let start, stop, join and destruction overlap; two notifiers let signals overlap.
  Packets are reused after deletion, so runs are endless with two of them.
* Three requests with ids of four values are the most that cannot wrap (`MaxRequests < WireIds`);
  five make the id of request 5 equal that of request 1. `KeyIds` (2^32 in the code) is never
  exceeded. `MaxRequests` is the only bound in a guard (`GenerateId`).
* Four threads on the read-write mutex are two sleepers of each kind or two readers and two writers.
  Two threads on the monitor, three levels deep and with two notifications each, show every pair of
  steps of an owner and a contender; the theorems hold for any number. Two workers and the main thread
  let a worker create, start, join or destroy another one while the main thread counts, enumerates and
  destroys. What three workers can do besides is in the theorems, which are for any number.
* Buffers start with 0 to 10 bytes and take three calls (`MaxCalls`), up to `MaxLength` 40; 5 leaves an
  odd end, 10 two bytes after an alignment by eight. `WordSize` 1024 stands for 2^64: only the
  wrap-around of a small negative number is seen. The theorems are for any lengths and any number of
  calls.
* Bytes of two values (`Radix`), three ids, bodies of 0 to 4 bytes and two parameters in both versions
  of the protocol put every kind of field next to every other; a body of four does not fit its length.
* `CoreLifetime` needs one request to fail; two let a reply be routed before.
* A header of two parts can be cut by a read; a body of three is not a multiple of it, so after a
  broken header the reader comes to stand in the middle of a header. Three packets let a broken or
  unknown one stand before, between and after replies. `MaxPackets` bounds `Send`.
* Deadlock is checked in the `ConcurrentQueue` run. The other runs switch the check off: after
  destruction, with all requests answered, the connection terminated, the library torn down or the
  bound on calls reached, the system really stops. That monitors do not deadlock by themselves is
  `LockOrder`.

### Fairness

A thread inside a method keeps running (weak fairness of its steps) and a mutex does not starve a
thread that competes for it for ever (strong fairness of the steps that take it): the threads are
scheduled pre-emptively by the operating system and the critical sections are short. Listeners
return. Nothing is assumed about calls (nobody has to push, pop, start or stop), about waits that end
by themselves (spurious wake-ups, time-outs), or about the server.
A read returns when there is data, an end or an error to return, but a read of standard input need
not. In `JTCThreads` the library's own steps go on, and the group's monitor is given to each one who
asks for it in the end; a thread's function need not return and the main thread need not end, so
`JoinReturns` is about threads that returned and `TerminationReturns` about programs whose threads do.

## Proofs

The proofs hold for every value of the constants that satisfies the named assumptions
(`ThreadsAssumption`, `DataAssumption`, `UseAssumption`, `SendersAssumption`, `ReceiversAssumption`,
`IdsAssumption`, `ThrAssumption`, `TimAssumption`, `ParAssumption`): any number of threads, elements, packets
and listeners, and in the router whatever `Registration`, `InitStayAlive` and `ControllerCalls` are;
any lengths of headers and bodies (`LengthsAssumption`); any number of senders, of threads on a
read-write mutex (finitely many, `RWAssumption`) or a monitor (`MonAssumption`), any sizes and any
number of calls of a buffer (`BufAssumption`); any number of threads of a program (finitely many,
`ThrAssumption`), any time of day and limit, any width of a byte and any blocks.

**ConcurrentQueueProofs.** `IInv` is types, mutual exclusion and `TestStillValid` together. None is
inductive alone: an element popped is an element only if the queue was not empty, which holds only
because nobody else was inside the critical section since the test. From `Invariance` follow
`TypeCorrect`, `Exclusive` and `TestsStayValid`. `WakeupsKept` needs `IInv` for the step `CondWait`:
a consumer falls asleep only on an empty queue. `Linearizable` is the refinement `Spec => FifoQueue`;
the extra invariant `Ownership` says that an element belongs to one push, the queue, or one consumer,
and the step lemma maps `PushInsert`, `PopFront` and `Dispose` to the abstract actions and every
other step to a stutter.

**MessageRouterProofs.** `TypeOK` is inductive by itself. `MutexHeld` ties the holder of
`m_routeMutex` to the labels of the critical sections; with it, `NoMissedStop` is inductive (the flag
is tested and the wait entered under the mutex; whoever clears it signals before unlocking).
`IteratorKept` and `FansOut` have the hypothesis `Considerate`:
listeners come and go outside of the loop, or from a callback that concerns another listener. The code
does not see to that, `MessageRouterDeregister` shows what happens otherwise, and it is what the
`MessageRouter` run assumes. Under it the iterator stands on a registered listener or at the end
(`Iteration`), so the loop visits each listener of the list in turn: `FansOut` is the refinement
`Spec => PacketFanout!Spec`, where `TryPop` begins a packet's turn, a call of a listener is `Deliver`,
`DeletePacket` ends the turn, a change of the list is `Register` or `Deregister`, and every other step
is a stutter. The listeners that are owed the packet are those from the iterator on, a set and not a
sequence, so no induction is needed.

**ConnectionReaderProofs.** `TypeOK` is inductive by itself; the step that needs care is `ReadParts`,
where a read never yields more than was asked for, so `bytesToRead` stays a natural number.
`Stopping` says that the reader is started once and that the flag stays cleared from `Terminate` on.
`LastReply` is `AtMostOneMore`: whatever was delivered when the connection began to end, at most one
reply follows. The reader looks at the flag between two packets only, so its
invariant `Leaving` is about where it stands: the one more may be delivered by a reader that is past
the test, and then it is not any more.

`RepliesHandedOn` is `[]DeliversReplies`: the replies reach the router in the order they were sent,
once each and none missing before the last one that did, whatever is cut by the reads, until a header
is broken. The reader knows only how many bytes it still wants; the proof says which. A layout
(`Layouts`) gives each packet its place relative to the bytes in flight, so it is zero or negative for
what has been read. `Placed` says that the reader is in front of packet `i` (`Between`), in its header
(`InHeader`) or in its body (`InBody`), that what is in its buffer is the beginning of that part, and
that what it has and what it wants make up the part. With the place of every packet at hand each step
is arithmetic about two neighbouring packets, and no induction over the packets before them is needed.
`Handed` says that what was delivered are the replies before packet `i` and no others; `Astray` is
the other half of the invariant, of a reader that has met a header without STX, where nothing but the
past can be said. `TrackStep` has a step for each action of the
reader, `LayoutSend` extends the layout when a packet is sent.

**ServerHandlerProofs.** `TypeOK` is inductive by itself. `NotifyFindsPacket` needs a count: the
senders that are still to pop are no more than the packets in the queue. `ReplyToRequester` and
`RegisteredBeforeSent` are proved under `MaxRequests < WireIds`, the condition the `ServerHandlerWrap`
run shows to be necessary: `OwnIds` (live requests have ids of their own), `OnePlace` (a request is in
one place at a time: with its sender, in the queue, on the wire, at the server, with the reader) and
`Mapped` (its entry in the map names its receiver until the reply takes it out) are inductive
together.

**JTCRWMutexProofs.** `RWInv` is types, `Counted` (what `m_count` and `m_waiting_writers` say is what
the threads do) and `NoSleeperForgotten`. `Counted` speaks of cardinalities; each step adds or removes
one thread of a finite set (`RWAssumption`).

**JTCMonitorProofs.** `MonInv` is types, `Held` (who holds `m_internal` and `m_lock` at each label),
`Deep` (the counter is the depth of the thread inside) and `NotifiesAreSent`. `MonitorHeld` and
`LockOrder` follow from it.

**BufferProofs.** `BufInv` is types and `BufInBounds`. Every write is `PutStep` or `PutFailsStep`:
what is asked for is at least what is used, and an alignment moves by less than four. A read position
never passes the valid bytes without saying so. `BufAssumption` asks that sizes do not wrap.

`WrittenIsRead` is `[]ReadBack`: as long as nobody jumps, the reader that reads what the writer wrote
finds each item where it was put. `Laid` is the invariant: the items lie in their order and each
begins where the one before ended or behind the padding of its alignment (`ItemsLaid`), and the
reader is at the end of the item before the next one (`ReaderPlaced`), so its own alignment reaches
the same place. A write extends the history (`WriteLaid`), a read goes one item on (`ReadLaid`), and
everything else either moves neither (`OtherLaid`) or ends the history.

**LibraryProofs.** *Threads.* `ThrInv` is the invariant of which `ThrTypeOK`, `HandlesKeepObject` and
`NoneOutlivesTermination` are consequences (`ThreadTypes`, `ObjectsKept`, `NobodyLeft`). None of the
three is inductive: a count is right only if every array is without duplicates (`Once`), the exit_hook
is run by one thread at a time (`HookExclusive`) and for its own thread or a doomed one (`Lives`,
`MainLives`), a doomed thread is not met again (`DoomedLeave`), and nobody gives up a struct that is
in use (`InUse`). `Counted` is the equation the deletion rests on: `m_refcount` is the handles that
exist and the references of the object to itself, but for one doomed thread's second drop. `InGroup`
says a thread is in the group from its creation to its exit_hook, so an empty group whose monitor is
free means that all have ended (`TornDown`). The proof has one lemma for each of the 23 actions, and
in it one step for each part of the invariant. TLC checks the whole invariant on two and on three
workers. Arrays are handled by lemmas on duplicate-free sequences (`Appended`, `Removed`,
`FirstPart`, `FirstAndRest`, `Occurs`).

*Time-outs.* `DeadlinesExact` is the arithmetic of the deadline for every time of day and every limit;
quotient and remainder by 1000 are named, and the rest is linear.

*Parameter block.* `BlockOrdered` is `[]ParTypeOK`: an insertion behind the equal ones and a removal
of the range keep the order, wherever the bounds fall. `Below` and `UpTo` count the lower and the
lower or equal ids, which in an ordered block are its first ones (`Bounds`, from `Prefix`).

`RepliesSurvive` is `[]ReplyRoundTrip` and `CutsSeen` is `[]CutsAreSeen`, for blocks of any length and
a cut at any byte; the first is about a reply whose status message was never set, and about what
stands before the parameters when it was (`ReplyRead`). The
writer's `FlattenSeq`, the parser's loop and the fold that inserts what it finds are recursive, and the
provers here cannot use the library's induction theorems, whose parameter is an operator. `Induct` says
the same of a set of numbers, where the least one missing is found with the cardinality of a prefix
(`Prefix`); each induction names the set of numbers its claim holds for. `Recursion` and `ParseLoop`
show that the functions defined by recursion exist, so that the `CHOOSE` behind them yields one. The
rest follows the bytes: a 16-bit number is read back (`NumbersKept`), so a parameter is (`Written`);
`BlockLaid` says where the bytes of each parameter begin (`Begins`) and that they are there (`IsBlock`);
`TurnTaken` is one turn of the loop at such a place; `Parsed` is the whole loop, from the last
parameter back: it is valid if the bytes end with a parameter, and then yields those before the end;
`FoldOrdered` says that inserting the parameters of an ordered block one after the other yields the
block. `CutRead` puts these together for a block and for any beginning of it that has all the flags,
`FlagsCut` is about one that has not.

Only model-checked: liveness (`SleepersServed`, `SignalDrainsQueue`, `DestructorReturns`,
`RepliesDelivered`, `TerminateReturns`, `JoinReturns`, `TerminationReturns`), which is out of this
prover's reach. Every other property of a passing run is a theorem.

## Plan

| Module | Models | Properties | Proofs |
|---|---|---|---|
| ConcurrentQueue, FifoQueue | done | done | done, with the refinement |
| MessageRouter, PacketFanout | done | done | types, stop; the iterator and the refinement for considerate listeners |
| ServerHandler | done | done | done |
| ConnectionReader | done | done | done, with the delivery of replies |
| CoreLifetime | done | finding | - |
| JTCRWMutex, JTCMonitor | done | done | done |
| JTCThreads, JTCTimeouts | done | done | done |
| Buffer | done but setValidBytes | done | done |
| NParamBlock | done but compression | done | done, with what the parser makes of a block |
| JTCThreadGroup's nested and daemon groups | open: PAL uses one group | - | - |

## Not modelled, and why

Graphics, fonts, image decoding (third-party), logging, file access and the platform back ends do
input and output without a protocol. The Location, Authorization and SessionSettings modules and the
bearers have empty bodies. The packet generator runs at build time, and `ngplib/snapshot` is its
output and a copy of code modelled at its source. The Windows and iPhone variants of the PAL, and the
Windows, DCE and VxWorks branches in JTC, are not the build these modules describe. Together these are
most of the lines of the repository, so the model covers the core's logic and a small share of all.

Of the components that are modelled: JTC's priorities, nested and daemon groups, adopted threads,
thread-specific storage, tryLock, and the exceptions thrown to callers that do not own a lock; PAL's
thread names, ids, sleep and socket select, which these paths do not use; the packets' encryption
(wf_ngp_encrypt, NavPacket.cpp:51-64, combines everything from offset 10 on with a fixed string by
exclusive or, which the packet factory undoes, generator_cpp.py:1383-1384, before the parsers modelled
here), the value of the CRC and the typed getters of parameters; WFString,
WGS84Coordinate and crc32, which are pure functions of their arguments; Buffer::setValidBytes, which
has no caller.
