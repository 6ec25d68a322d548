# MmrService: a TLA+ verification project

MmrService is a small C++ framework for services: a process that loads components
from dynamic libraries, gives them an event bus, timers, services, commands, a
thread pool and two memory allocators, and an RPC server and client on top of
TCP. This directory holds TLA+ models of its concurrent core, the TLC runs that
check them, and TLAPS proofs of the properties that matter most. Paths below are
relative to the repository (`src/`); `PROJECT.json` maps every definition to the
lines it stands for.

## 1. The system and its parts

All of the program's own code is under `code/service`, `code/common/{include,source}/util`,
`code/common/include/{protoBase,general,mmrNet}` and `code/example` (its tests).
`3rdParty`, `code/common/*/libnet` (a copy of libhv), `code/protoBuf` (generated)
and `code/creo` (a plug-in of another program) are not.

| Component | State it keeps | Operations | Hard because | Correct when |
|---|---|---|---|---|
| Thread pool (`CThreadpool.cpp/.h`) | task queue, map of threads, two atomic counters, running flag, one mutex and one condition variable | `submit`, `threadFunc` on each thread, `createThreadInner`, `stop` (destructor) | the counters and the flag change outside the mutex; three kinds of waiters share one condition variable | each accepted task is taken once, in order; the counters are exact when they are used and bound the growth; `stop` returns, last |
| Event control (`EventCtrlPolicies.cpp`, `CEventDealWithLock`) | two queues, topic -> list of weak callbacks, flag "data added", flag "run", two mutexes | `start`, `stop`, `addFunc`, `addEvenVartData`, the thread `dealEventData` | the flags are tested without the mutex; callbacks expire while the list is walked | it is one FIFO queue whose events reach every live callback once; nothing runs after `stop` |
| Framework (`CCompFramework.cpp`) | components, library handles, service/timer/command tables, run flag | `run` = `start`, `waitAndDealTimer`, `stop`; `dealCmd`; `handleEvent` | four threads, of which one is detached; order of the teardown | no code of a library is reachable when it is unloaded; the program ends if and only if asked |
| License control (`CLiceseCtrl.cpp`) | license file, a timed thread | `licenseThread`, `-lc` command | posts the event that ends the program | its stop event ends the run |
| Chunk allocator (`ChunkAllocator.cpp`) | size -> deque of free blocks, two atomic sizes | `alloMemory`, `deallocate`, timer | sizes change outside the mutex | a block has one owner; the sizes are exact; the cache is bounded |
| Small allocator (`SmallAllocator.cpp`) | list of chunks, each a lock-free stack of byte indices | `allocate`, `deallocate`, `releaseFreeMemory` on the timer | lock-free list inside the blocks, a lagging 8-bit count, an unlocked pointer | while threads allocate in turn: the free list is intact, no chunk in use is deleted, `allocate` returns |
| RPC client (`CProtoRpcClient.cpp`) | connection state, sequence number -> context of a call | `connect`, `call`, connection and message callbacks | calls on any thread, answers in the event loop; time limits; reconnection | a call returns nothing that is about another request |
| RPC server (`CProtoServe.cpp`) | callbacks by message type, a "legal" flag per channel | message callback: login, dispatch | connections that break or close in the middle of a turn | a connection is served after a login on it only |
| Message codec (`ProtoCodec.hpp`, `BufConvert.cpp`) | none | encode, decode (in place), checksum | flips bytes in the caller's buffer; sums signed bytes in types whose width is the host's | what one host encodes another decodes to the same, and what was altered is refused |
| Service registry (`ServiceCtrlPolicies.hpp`) | services by type, by index or by GUID | register, look up, clear | three implementations of one interface that differ | a look-up returns what was registered |
| Logger (`Clogger.cpp`) | a write buffer, queues of full, empty and taken buffers, a writing thread, files by size | `logWrite`, `start`, `stop`, `dealThread`, `fileSizeCheck` | unlocked reads, a rotation of many file operations | lines come to the disk once and in order; none is lost at `stop`; only the oldest files go |
| Lock-free stack (`CLockFreeStack.hpp`) | tagged head | `push`, `pop` | ABA | (unused by the program) |
| Components (`compnets/*`) | a logger each, the server, the login processor | `initialise`, `start`, `stop` | any order; server threads run across the stop | services are found; logins are served; nothing runs in an unloaded library |
| Variants, JSON, streams | - | sequential types | - | - |

How they interact. The framework owns the event control, the registry, the
license control and the components; `start` starts the event thread first and
`stop` joins it before any component is stopped. Components post events (function
calls, from their threads and their callbacks), subscribe weak callbacks, register
services, commands, timers and message handlers; their objects live in libraries
that `stop` unloads. The license thread and the command thread meet the main thread
in `bRunflag` and a condition variable. The allocators' timers run in the main
loop. Client and server share a TCP connection and nothing else. Everything logs: the
macros test the level of the component's own `g_LoggerPtr` and call the one logger.

## 2. Modules

| Module | Models | |
|---|---|---|
| `ThreadPool` | the thread pool | state machine |
| `ThreadPoolProofs` | | eight theorems |
| `EventBus` | what the event control promises | abstract specification |
| `EventCtrl` | the event control | state machine, implements `EventBus` |
| `EventCtrlProofs` | | five theorems, the refinement one of them |
| `Framework` | the framework, license thread, command thread, *with* `EventCtrl` | composition |
| `FrameworkProofs` | *with* `EventCtrlProofs` | four theorems |
| `ChunkAllocator` | the chunk allocator | state machine |
| `ChunkAllocatorProofs` | | three theorems |
| `SmallAllocator` | the small allocator | state machine |
| `SmallAllocatorProofs` | | four theorems |
| `Rpc` | client, server and the connection between them | composition |
| `RpcProofs` | | four theorems |
| `ServiceCtrl` | the three policies of the service registry | operations |
| `Components` | the four components, driven by the framework's loops, and the threads of the RPC server, *with* `ServiceCtrl` | composition |
| `ComponentsProofs` | | four theorems |
| `LogFiles` | the files of the logger and their rotation | operations |
| `LogLines` | what one call to the logger writes | operations |
| `Journal` | what the logger promises | abstract specification |
| `Logger` | the logger *with* `LogFiles` and `LogLines` | state machine, implements `Journal` |
| `LoggerProofs` | | five theorems, the refinement one of them |
| `Adler` | the checksum | functions |
| `ProtoCodec` | a message from one host's memory to another's, *with* `Adler` | functions, and a state machine over them |
| `MC*` | instances for TLC | |

A step is what runs without another thread being able to observe or disturb it: a
section under a mutex without a wait, or one access to an atomic or unprotected
variable. Definitions have the names of the functions where there is one action
for a function, and say in a comment which lines they are where there are several.
Each definition that is called *a slip* is a plausible error in the definition that
follows it; no specification uses it. They record, for every property, a bug it
would find, and TLC finds each one when the slip takes the definition's place.

### ThreadPool
`pc` is the place of each thread in `threadFunc`, `call` the place of each call of
`submit`, `stopPc` that of the destructor. `threads`, `cur`, `idle`, `queue` are
`m_mapThreads`, the two atomics and `m_queueTask`. `accepted` and `started` are
histories. All waits but that of `stop` are timed, so that a wake-up is possible at
any moment; for `stop`, `stopNotified` remembers a `notify_all` not yet answered.
Ids of threads are used once, as `m_generateId` does. A `submit` that makes a thread
takes three steps under `m_mutex` (`MutexFree` is false meanwhile): the thread starts at
line 84 (`CreateThread`), and is counted at 86 and 87 (`RaiseCur`, `RaiseIdle`). A thread
that finds the flag down leaves without the mutex, and may have lowered the counters,
which have 16 bits (`Uint16`), before they were raised for it.

### EventCtrl and EventBus
`EventBus` has one queue, and calls live callbacks of the first event one after the
other. `EventCtrl` has the two queues, the swap, the iterator, the two flags and
the owner's protocol (start, then stop, then perhaps start again). The refinement
mapping: the bus's queue is `queueDeal \o queueAdd`; its subscribers are the sets
of the lists in `funcs`; the callbacks already served are those before `iter`. The
bus lets nobody subscribe while an event is dealt with, which is what
`m_mutexFunc` does. `oldFuncs` and `oldEvents` are histories: the subscriptions there
were and the events that waited when `stop` was last called. Nobody subscribes a callback twice to a
topic, which is so in the repository; `addFunc` itself would take it.

### Framework
The variables of `EventCtrl` are variables here; `EC == INSTANCE EventCtrl` gives
its actions, and each action of the framework is one of them, or none, joined with
what the framework does: `handleEvent` is what happens when the callback that
`start` subscribed to "stop" returns. `main` is the place of the main thread; all
components are one, in the stages `comps`; `registered` is the set of tables that
hold anything of theirs. `std::terminate` ends the behaviour. `start` may fail (`StartFails`) at
each of its places, also when the license thread runs already, and leaves what it has started.

### ChunkAllocator
`deallocate` is up to four steps (count, push, expire, trim), of which the last three
hold the mutex. Time is a choice: any front part of a deque may have expired, but
never the block just pushed. Behaviour that is undefined in C++ (`back()` of an empty
deque) sets `undefined` and ends the behaviour; the invariants are about states before.

### SmallAllocator
`next[c][b]` is the first byte of block `b` of chunk `c`, the link of a free block;
in a block in use it is the user's, and reading it yields any byte. `allocate` is
split at each atomic access (load, read of the link, compare-exchange, count). Any
number of threads allocate and give back. The history variable `overlapped` is set when a thread
enters `allocate` while another is in it.

### Rpc
A request and its response are named by their call. The connection is a queue in
each direction that a break empties. libhv hands `onMessage` whatever arrived: one
message, several, or a piece, of which only one whole message decodes; the model
takes a prefix of the queue and a choice whether it is readable. What the server cannot
decode it sends back (`Reject`): the failed decoding has turned the last four bytes of what
was read, so that messages before the last one or two go back intact (`SentBack`), and the
client, which does not look at the kind of a message, decodes such a one as an answer. `channel` is the
server's side, with the time between `close(true)` and the close itself.

### Logger, LogFiles, LogLines and Journal
A line is its number in the order in which lines enter a buffer (`logWrite` holds
`m_mutWrite` while it does), and takes some bytes of the buffer. It may trail the ends of
older lines: `LOG_BY_LEVEL` of a synchronous logger writes the buffer up to its first zero
(line 160), and `doneTry` has put a newline where the text of the line had its zero.
`filled` is where that first zero is, and `Trails` says when there is something before it; `logWrite`
(294) writes the line alone. `writer` is the place of
each thread in `logWrite`, `deal` that of `dealThread`, `rot` that in `fileSizeCheck`,
`life` that of the owner in the constructor and destructor. Each unlocked read of line 391
and 397 is a step of its own. While a thread is between lines 427 and 430 the write buffer
is null; `dealThread` that reads it then goes no further, and what happens next is `Die`,
the death of the process, which may also come at any other step and cut a write short, between
two lines or within one (`BrokenOff`). A line may be longer than what is kept back for it; when it
has run past the bytes of the buffer, what follows is undefined and the behaviour ends (`Defined`).
The refinement mapping: the journal's pending lines are those of the buffer being written,
the queue taken, the queue of full buffers and the write buffer, in this order; its disk is
the files from the oldest to the current one; it is up while there is a logger.

The owner's protocol is that of the singleton: other threads may log from the return of the
constructor on, also while `stop` runs; a call that is still inside when the members are
destroyed is undefined and left out.

### ServiceCtrl and Components
`registService`, `getService` and `clearServices` have one disjunct for each policy. The
maps of components and of callbacks are changed in one step. `phase` is where the framework is, and
`m_mapComponents` a sequence, because the order of an `unordered_map` is fixed but
arbitrary. A thread of the server reads `g_LoggerPtr` whenever it deals with anything;
if it is null the process is dead (`alive`). hv's server stops its loops and joins their threads
when it is destroyed (`TcpServer.h`, `EventLoopThreadPool.h`).

### Adler and ProtoCodec
Values of `char` are signed, as on every compiler the repository builds with; the sums of
the checksum are an `int` and an `unsigned long`, whose width is a parameter of the host,
with the byte order. The buffer is turned in place, so that `decodingFromBuf` gives a new
buffer as well as a result. What the code reads with a length that points past the
buffer is not said ("overrun").

## 3. Runs

| Run | Question | Distinct states |
|---|---|---|
| `threadpool` | safety and liveness of the pool, both modes | 234 thousand |
| `eventctrl` | the control implements the bus; liveness | 967 thousand |
| `framework` | start, run and teardown with four threads | 1 million |
| `chunkallocator` | ownership and accounting of blocks | 19 thousand (after symmetry) |
| `smallallocator` | the lock-free list, two threads that allocate in turn | 333 thousand |
| `rpc` | calls, logins and reconnections | 153 thousand |
| `logger` | the logger implements the journal; buffers, stop, rotation | 620 thousand |
| `components` | start and stop of the components, three registry policies | 20 thousand |
| `protocodec` | messages between unlike hosts, altered and cut | 544 thousand |

Three more runs check one statement of the repository each and end in a
counterexample (section 6).

Bounds, and why they are enough:

- `threadpool`: 1 thread that may become 2, 3 ids, 3 tasks, a queue of 2 (so that order matters). Growth, two
  threads leaving at once, a full queue with a call waiting and one rejected, and a
  thread made after `stop` cleared the flag all occur, and no state lacks an id for a
  thread that `submit` wants to make. A task beyond the third repeats
  a choice already made; the proofs hold for every number.
- `eventctrl`: 2 events on 2 topics, 2 callbacks, 2 starts (`MaxStarts`). Two events
  are needed for order and for a swap during a deal, two callbacks for an erase
  before and after a call, two starts for what survives a stop.
- `framework`: 3 events (the license's stop event, a component's stop event, another
  one), 2 callbacks, 1 start: `run` is called once.
- `chunkallocator`: 3 threads, 5 addresses, sizes 1 and 2, limit 3. Three threads put
  two pending deallocations beside one that trims; two sizes give `rbegin()`
  a choice. Threads and addresses are symmetric, and no temporal property is checked.
- `smallallocator`: blocks 2 per chunk (`UCHAR_MAX = 2`), 3 chunks, at most 4 blocks in
  use (`MaxInUse`), 2 threads that allocate and give back. A behaviour is followed until two
  allocations overlap (`CONSTRAINT InTurn`), since the properties speak of no more. Three chunks let
  the timer delete one while the pointer moves between two others; with a count up
  to 2 and its wrap, an error of one is seen.
- `rpc`: a login and another call, 3 connections (`MaxConns`): a call may start on one
  connection, be answered on none, and end on the third.
- `logger`: two writers and the owner, 2 lines besides those of start and stop
  (`MaxLines`), 2 loggers one after the other (`MaxRuns`), buffers of 4 bytes of which 1
  is kept back, lines of 2 and 3 bytes. So buffers fill with lines waiting, the empty queue runs dry
  and is refilled, and a writer logs while `stop` waits; a line of 3 bytes is longer than what
  is kept back and one byte, as lines are in the program (2073 bytes against 1024), so that it overruns a
  buffer of which 2 bytes are used; and in synchronous mode a line of 2 bytes after one of 3 trails its end. `Settings` has a rotation with no shift and one with
  two shifts at every write, so that a death falls between any two of its file operations
  and the next run finds the gap.
- `components`: every subset and order of the four components, every policy, 2 threads
  of the server, so that one may die, or be calling a callback, while the other ends.
- `protocodec`: every width is a quarter of the real one: bytes of 2 bits, an int of 8,
  a long of 8 (Windows) or 16 (Linux); `BASE` is the largest prime below 2^4 and `NMAX`
  the length after which its comment says a sum may overflow, made even. Bodies are all of at most two
  bytes and four longer ones, chosen so that every path of the checksum (below `Short`,
  whole blocks, a rest) and negative sums occur. Proportions are kept, chances are not: a wrong
  checksum agrees by chance 2^24 times as often, for which reason pieces of
  16 bytes or more are left out.

The properties of `smallallocator` hold until two allocations overlap. After that a block may be
popped and pushed back between the load of line 70 and the compare-exchange of line 85, so that
the list breaks; two threads may pop the last block counted, so that the count wraps;
and `m_ptrAllocChunk` goes stale (run `small_two_threads`). Nothing in the code prevents
the overlap: the allocator is a singleton, and the event loops of the server allocate from it
(`Make_Shared` in `onLogin`). What the run shows, and `SmallAllocatorProofs` for any number of
threads, is that the overlap is the only cause: as long as threads allocate in turn they, any
thread that gives back, and the timer do not disturb each other.

`CHECK_DEADLOCK FALSE` in every configuration: each of these systems may stop for
good (the pool is destroyed, the events are used up, `run` has returned, the
connections are used up, the message is decoded, the process is dead, the program's
behaviour is undefined).

### Fairness
Weak fairness of each thread's next step: the operating system schedules runnable
threads, timed waits end, and tasks and callbacks return (no task of the repository
runs for ever). For `submit` it covers a call that is waiting, because the wait has a limit of a second, and one that
is counting the thread it has made.
The wait of `stop` has no limit, so only a notified one is certain to end.
Nothing is assumed of users: nobody has to submit, post, subscribe, stop, connect or
type a command, and nothing of the network or the server in `Rpc`. In
`SmallAllocator` the compare-exchange has strong fairness (a weak compare-exchange
that could succeed infinitely often does succeed), and so has the walk under
`m_mutexChunks` (the timer takes the mutex once in minutes). In `Logger` a call of
`logWrite` that has begun ends, the owner's destructor goes on, and `dealThread` gets the mutex: writers log finitely
often in the model, and in the program the mutex is free for most of any second. In `Components` the main
thread goes on, and a thread of the server finishes what it deals with and, when the
server closes, its loop.

## 4. What the properties say

- **ThreadPool**. `CountersExact`: the atomics are the numbers they stand for whenever
  `m_mutex` is free, that is, whenever a `submit` or a waiting thread can decide by them; while a
  `submit` counts the thread it has made they may be short of one, or have wrapped to 65535.
  `GrowthBounded`. `TakenInOrder`, `TaskHeldOnce`: FIFO, exactly once.
  `StopReturnsLast`: when `stop` has returned no thread has a task or will lock.
  `PoolServes`: what was queued is taken or the pool is stopped, but for a cached pool that
  lost its last thread for good. `StopReturns`. Both are liveness.
- **EventCtrl**. `FlagMatchesQueue`: no event is behind a lowered flag. `ImplementsBus`:
  the refinement. `HeardInOneOrder`: a callback hears an event once at most, and what
  two callbacks both hear they hear in the same order. `QuietWhenStopped`:
  nothing runs after `stop`, and neither an event that waited nor a subscription that was there when it
  was called is left. `EventsDealt`, `StopReturns`: liveness.
- **Framework**. `NoCallbackInTeardown`, `NothingLeftOfLibs`: the order of the teardown.
  `RunsUntilAsked`: the program ends only when asked; `AskedEndsRun`: and does end
  then, by the license's event or by -q, although the notifications take no mutex.
- **ChunkAllocator**. `BlockInOnePlace`; `CountersExact`: the two sizes, which are
  changed outside the mutex, are right at every moment and never below zero; `CacheBounded`.
- **SmallAllocator**. `FreeListIntact`, `CountExact`, `UnusedUntilOverlap`,
  `AllocateReturns`: each says what holds until two allocations overlap.
- **Rpc**. `ServedOnce`: no request is served twice, on any connections.
  `AnswersOwnRequest`: what a call returns is the answer to its request, which was served, or the request
  itself, sent back, which then never is. `LoginFirst`. `CallReturns`, and leaves no context in `m_calls`.
- **Logger**. `ImplementsJournal`: the refinement, so lines reach the disk once and in
  the order they were logged, and are lost only with the logger. `OverrunByLongLine`:
  a buffer is overrun by a line longer than what is kept back and one byte, and by no other. `StopKeepsLines`: what was logged before `stop` lowered the flag is
  in the file when it closes. `RotationKeepsFiles`: a file is removed only for younger
  ones that are full, also after a death, unless it fell between the renames of a rotation.
  `LinesWritten`: no line waits for another to follow it.
- **Components**. `ServicesFound`: under every policy. `LoginServed`: whichever of server
  and authority manager is started first. `DiesOnlyInStop`: the null logger is met between
  the stop of its component and the end of the server, and nowhere else.
  `ServerGoneBeforeUnload`, `StopEnds`: `stop` joins the server's threads, and ends.
- **ProtoCodec**. `RoundTrip`: what is decoded is what was encoded, on hosts that sum
  alike; and is never another message on any. `AlteredRefused`.
- `TypeOK` of each module: types, and what they imply for the program (an
  iterator on its list, no context left in `m_calls`). No run checks it alone: it is the
  first part of another invariant, or a theorem (`TypeCorrect` and others).

## 5. Proofs

TLAPS checks these for every value of the constants that the modules' assumptions
allow: `PoolAssumption`, `EventAssumption`, `FrameworkAssumption`, `ChunkAssumption`,
`SmallAssumption`, `RpcAssumption`, `ServiceCtrlAssumption`, `ComponentsAssumption`,
`LoggerAssumption` and `FilesAssumption`. They say what the constructors guarantee, and
that sets are finite where their members are counted or their sizes added. No theorem has
another hypothesis: where a property holds up to some event only (an overlap of two allocations,
a line that runs past its buffer), the property says so.

Every invariant that a run checks is proved, but for those of `ProtoCodec`, and so are
both refinements. The proofs have one lemma per action, or per group of actions that
disturb the same conjuncts, and the invariants in these layers:

**ThreadPoolProofs**, an invariant built in layers, each used for the next:

1. `TypeOK` is inductive by itself (`TypeCorrect`): the counters have 16 bits, whatever is
   added to them.
2. `ThreadsInv`: a thread is in `threads` from its making to its erasure, holds a task
   exactly while it runs one, and `stop` has returned to an empty map only. The first
   two parts are needed because the return of `stop` says nothing about places.
   It gives `StopReturnsLastCorrect`.
3. `TakenInOrderCorrect`: `accepted = started \o queue` is inductive with the types.
4. `HeldInv` adds that what is queued or held was accepted, so that the task of a new
   call is nowhere yet, and that the queue holds no task twice; it gives
   `TaskHeldOnceCorrect`.
5. `CountersInv`: at most one `submit` is counting a thread it made, and each counter is the number of
   threads it stands for, less the one still to be counted (`Behind`), modulo 2^16. Each step
   moves one thread into or out of the sets that are counted; lemma `CountThread` is
   about one such move of a finite set.
6. `GrowthBoundedCorrect`: `submit` reads `cur` when the mutex is free, so that nothing is
   still to be counted (`CountersWhenFree`). `CountersExactCorrect` follows: with the
   growth bounded, the number of threads has 16 bits.
7. `StopNotMissedCorrect` is the safety part of `StopReturns`: the only wait without a time
   limit never waits for a notification that has been and gone. A late thread, made after
   the flag came down, is in `threads` from the same section on, so that it is no exception.
8. `FixedPoolKeptCorrect`: a fixed pool keeps the threads it was made with until it
   is stopped, none of them on its way out. `FixedThreadsStay`, which the run
   `threadpool_floor` refutes for a cached pool, is thereby proved of a fixed one.

**EventCtrlProofs**. `Places /\ Phases` relates the places of the owner and of the dealing
thread (the thread exists from `start` to the join, and has an empty queue outside the
section under `m_mutexFunc`) and is inductive by itself. With it `TypeOK` is inductive (`TypeCorrect`: the iterator
never leaves its list), and so is `FlagMatchesQueue` (`FlagMatchesQueueCorrect`: the
swap finds the thread's own queue empty). `ImplementsBusCorrect` needs `ListsDistinct`
too, that no list has a callback twice: otherwise the callbacks before the iterator, which
the bus counts as served, could be among those after it.
`HeardInOneOrderCorrect` adds where an event can be: to be posted, or in one of the queues, once
(`PostedOnce`); nobody has heard one that is still to be dealt with (`FreshAhead`); and whoever has
heard the first of the thread's queue heard it last and is at or before the iterator
(`HeadHad`), which is what keeps the iterator from coming back to it.
`QuietWhenStoppedCorrect` follows what waited and was subscribed at the call of `stop` through its
clears (`OldGone`): an event that waited is not one still to be posted, so that it does not come back.

**FrameworkProofs**. `ControlUsed`: every step of the framework is one of its event control
or leaves the control alone, so that the theorems above hold inside the framework. To what
they give the invariant adds types (`Threads`); that the run flag is up before there are timers
and commands, and comes down only when somebody asks (`FlagKept`, which gives
`RunsUntilAskedCorrect`); that the event thread has ended and the callbacks are cleared when `stop` turns to
the components (`ControlStopped`, `NoCallbackInTeardownCorrect`); and that libraries stay while a
component or a table may hold anything of them (`LibsKept`, `NothingLeftOfLibsCorrect`).

**ComponentsProofs**. `Types`; `Life`: loggers, activator and server are there or not as the
loop of the phase has visited their component or not; `Registry`: what the maps of each policy
hold is what was registered (no two components provide the same interface); `Login`: the
processor exists before a callback does, and a start that has passed the authority manager
has hung its callback on the server there is. With `DiesOnlyInStop` they are inductive
together: a server's thread is at a callback only if there is a server and it was started.
They hold for components in any order and any number of threads.

**ChunkAllocatorProofs**. `ChunkInv` is `Typed`, `Locked` (who holds the mutex), `Deques` (the
deques hold blocks of their own size that nobody else has, each once), `Givers` (the block of a thread in
`deallocate` is its own, and is the back of its deque while it expires others; when it trims,
no entry of the map is empty) and `Counted`. `CacheBounded` speaks of a quiet allocator only and is
not inductive; what is, is that the cache is over its limit by no more than what the threads in
`deallocate` are giving. A trim that stops has come within the limit or to the block of its own
thread. The sums are of sizes over sets of any finite size; the lemmas about adding
or removing one member and about a subset carry the arithmetic.

**SmallAllocatorProofs**, for any number of threads that allocate and give back, any number of
blocks and chunks. `SmallInv` is `Typed`; `Working` (a thread in
`allocate` takes from `m_ptrAllocChunk`, whose count is positive and stays so: nobody
else lowers it meanwhile); `Owned` (a block has one owner); `Chained` (from the head a path runs through the unused blocks,
each once, to the end); `SeenStill` (what the allocating thread read before its
compare-exchange, a head that is free and the link of it, is still so at the exchange, even if
the head has moved and come back: meanwhile only that thread takes blocks off, and only
a used block's first byte changes); and `Counts`. `Room`: between the pop and the count is one
thread at most, so that the count does not wrap at 255. `FullIsUnused`: a
full count of a chunk that is not allocated from means that nobody has anything of it, which
is why the timer may delete it. `ChainLink` brings the path and the model's recursive
function `Link` together. All of it is kept as long as at most one thread is in `allocate`
(`InTurn`), and `OverlapStep` shows that this is so until `overlapped` is set, from which the three
theorems follow (`SmallInvCorrect`). What holds after that too
is `StaysInChunkCorrect`: even when the list is no longer intact, no index, link or
count leaves its byte or its chunk, because whatever byte is read as a link, one of a
user's included, is the index of a block or the end (`InBounds`).

**RpcProofs**. `Types`, the types that are needed, is inductive with one lemma for the
steps of the client's threads, one for its event loop and one for the server; `TypeCorrect`
adds that a context is in `m_calls` exactly while its call may be answered. For
`LoginFirstCorrect` the invariant `LegalFirst` adds that a connection is legal exactly
when it has served something. For `AnswersOwnRequestCorrect` the invariant `OwnAnswers`
follows an answer along its way: everything in `toClient` but an echo is `Truthful`, a
response to a request that was served or a request sent back that was not, and
so is what a context or a result holds, for its own call (`FindCall` finds a
context by the number of the response and no other way). A request that was sent back stays unserved
because it is nowhere else (`Unserved`, which needs `OnceInv`, below). `ServedOnce` is not inductive
either: `OnceInv` adds that a request is once in `toServer` at most and in no list of what was served
while it is there, and that a call which has yet to write is in neither. All rows of all
connections are in it, because a break moves to a new row.

**LoggerProofs**, in three parts.

1. `OverrunByLongLineCorrect`. `PositionInv /\ DealtEmpty` is inductive: buffers that wait for reuse are
   cleared (`QueuesFit`, `DealtEmpty`), one thread at most is inside `logWrite`, and puts its line into an
   empty buffer if it has changed buffers (`OneWriter`), and a synchronous buffer is empty whenever
   nobody writes (`SyncEmpty`: that mode never changes buffers). So a line meets an empty buffer or
   more room than is kept back (`PutRoom`), and one that ends past the end is longer than that.
   `OneWriter` is what makes a new buffer belong to the thread that took it: without it another
   thread could fill it between the two.
2. `Placed` (`BuffersPlaced`, `MutexHeld`, `ThreadLives`, `RotationOwned`) says which
   buffers are null, who holds the mutex, whether `dealThread` exists and who is in a rotation.
   `FilesTyped /\ FilesFull /\ FilesKept` is about the files: numbered files are full, and, unless a run died
   between the renames of a rotation, have no gap but the one the rotation is at. It gives `RotationKeepsFilesCorrect`.
   `Drained` follows `dealThread` from the lowered flag to its end (lines that are
   still in a buffer came after the flag) and gives `StopKeepsLinesCorrect`.
3. `ImplementsJournalCorrect`. `JournalInv` adds `LineCount` (who is inside `logWrite` has
   a line left to log) and `NameFree` (no rename replaces a file). Each action is a step of
   the journal or none: the lemmas say what a move of a buffer does to the pending lines,
   and what a write, a rename or a removal does to the files read in order.
   `LinesInOrderCorrect` says what the journal is worth: through the refinement mapping
   (`J!GoDown` cuts pending lines off, and a rotation cuts files off the old end) the numbers on the disk
   and then those pending are rising (`NumbersInv`), so that no line is there twice; what a
   line trails of older ones (`Trails`) is not a line.

What a recursive function computes cannot be cited from the libraries' induction theorems,
which take an operator. Where a proof needs such a fact, about a chain of links (`Link`), the
files in order (`Disk`), the lines of a queue of buffers (`FlattenSeq`) or a sum of sizes, it is proved
by the least natural number for which it fails (`LeastNatural`).

Model-checked only: all liveness, with the fairness it rests on (out of the prover's reach, as
is ENABLED): `PoolServes`, `StopReturns` twice, `EventsDealt`, `AskedEndsRun`,
`AllocateReturns`, `CallReturns`, `LinesWritten`, `StopEnds`. And `RoundTrip` and `AlteredRefused` of
`ProtoCodec`, which uses `Bitwise` as the checksum does; no module with a proof can.

## 6. Where the code and its statements disagree

Each is a run that ends in a counterexample; `PROJECT.json` quotes the statement.

| Run | Statement | What happens |
|---|---|---|
| `threadpool_floor` | a cached pool goes back to its fixed size | two idle threads see the same surplus and both leave (`CThreadpool.cpp:108`, `141`) |
| `chunk_second_block` | a second block of a size is ordinary use | the entry of a size stays when its deque is empty; `back()` of it is undefined (`ChunkAllocator.cpp:138`) |
| `small_two_threads` | `m_ptrAllocChunk` is always valid | the copy of line 212 outlives the chunk (`SmallAllocator.cpp:170`) |

These disagreements were met too and have no run of their own:

- "Wait for all threads to exit" (`CThreadpool.cpp:73`): a thread's last `notify_all` (148) comes
  after the erase (144) that lets `stop` return; `StopReturnsLast` says what does hold.
- "Not running by `run`: terminate" (`CCompFramework.cpp:88`): a stop event before line 366 or
  after 587 terminates a program that does call `run`.
- "Wait until response come or timeout" (`CProtoRpcClient.cpp:79`): the wait has no predicate and a
  response before it begins is not noticed until the time limit.
- A call may return its own request as the answer. If the server reads two requests
  at once, decoding fails and both are written back (`CProtoServe.cpp:125-127`, `186`); the decoding
  turned the last four bytes of the buffer only (`ProtoCodec.hpp:125-136`), so that the first is intact;
  and the client looks at the sequence number alone (`CProtoRpcClient.cpp:127-131`).
  `AnswersOwnRequest` says what does hold.
- "Return the data as it is" (`CProtoServe.cpp:125`): the last four bytes of what is echoed were turned
  in place by the failed decoding; and where one whole message was decoded, from a client that has
  not logged in, its sequence number mostly too.
- "Messages are sent in big-endian form" (`ProtoCodec.hpp:75`): `protoFlipBuf` leaves two
  bytes as they are, so that the length of the name is sent in the order of the host
  (`RoundTrip` shows that hosts of different order refuse each other's messages).
- A Windows client and a Linux server disagree on the checksum of some messages with bytes of 128
  and more (`BufConvert.cpp:112`, `138`): `RoundTrip` without its condition `Plain` fails.
- "level -1 for log off" (`CLoggerCtrl.cpp:63`): one character is taken after the colon, so
  that "-1" is refused, as the comment on line 69 says.
- The server's threads may read the null `g_LoggerPtr` of their component during
  the teardown (`ProtoRpcServer/CComponentActivator.cpp:82`): `DiesOnlyInStop` says when.
- "The maximum length of a log line" (`Clogger.cpp:99`) is 2048 (line 87): with its time and
  newline a line may take 2073 bytes, twice what line 268 keeps
  back. It may move the position past the end of the buffer, and
  the room of the next line wraps (`getTryAvailid`). `OverrunByLongLine` says which lines do,
  and the model ends where one has (`Defined`).
- A synchronous logger may write the end of an older, longer line behind a line: `LOG_BY_LEVEL`
  streams the buffer as a C string (line 160), and `doneTry` (43-47) has put a newline over the zero
  that ended it. `Trails` is what it writes; `logWrite` (294) writes by length.
- `dealThread` may read a null `m_pBufWrite` (`Clogger.cpp:391` against 427-430) and die.

Two more statements hold only in part. The
comment of `ChunkAllocator.cpp:189` says one trim brings the cache within its limit: with
another deallocation counted at line 148 and still to push it may not at once, but does
when both are done (`CacheBounded`). The comment of `CThreadpool.cpp:97` says all tasks
must be done before the threads are taken back: the loop ends with the flag, and
what is queued then is destroyed with the pool (`PoolServes` therefore says
"or the pool is stopped").

## 7. Not modelled

- Running the framework as a client (`is_Server` false), the contents of
  configuration, license file and commands; each component is the same to the model.
- Destruction of the allocators, `getBigFixAllocator`, blocks of more than 32 bytes.
- `stop` of the RPC client; the wrap of the 32-bit sequence number; the torn read of
  `responsePtr` (line 88 reads it without the mutex).
- `m_mapCallbacks_` of the server read during a registration: a race inside
  `std::map`, below the grain of the model.
- Logger: failing opens and renames, `tellp() == -1` (compared unsigned at line 443, a
  failed stream looks like a full file), `LOG_BY_LEVEL`'s constants and levels, a call of
  `logWrite` on a logger being destroyed, a change of the settings between runs. What a line that
  has run past its buffer does to the memory behind it; the cut of a line at `m_lMaxStrLen` (line 285).
- Components: one life of the framework, so that the static index of `VecServByIndex`, which
  outlives `clear` (`ServiceCtrlPolicies.hpp:117`), is never read again; commands, timers and
  HTTP handlers of the demonstration.
- Codec: the parse of the body (protobuf), `messageToJson`, base64 and encryption.
- Uses the repository never makes: callbacks that call `addFunc` or `stop`
  (`EventCtrlPolicies.cpp:108`), `start` of a running event control (`:65`), tasks of a component in the
  pool when its library is unloaded (`CCompFramework.cpp:421`), a cache of 4096 MB or more
  (`ChunkAllocator.cpp:38`).
- Lock-free stack: no part of the program uses it.
- Logger control (`CLoggerCtrl`): a map that is filled while the components initialise
  and read by one command afterwards.
- Stateless handlers, variants, JSON, streams, wrappers: sequential data code.
- libhv and the other vendored code, but for a little of its C++ side: the reads, writes and the close
  of `hv::Channel` in `Rpc`, the end of `hv::TcpServer` and its threads in `Components`.

## 8. Plan

Order of work, the most important behaviour first.

1. `ThreadPool`, its runs and proofs. *Done.*
2. `EventBus`, `EventCtrl`, the refinement, first proofs. *Done.*
3. `Framework`, composed with `EventCtrl`. *Done.*
4. `ChunkAllocator`. *Done.*
5. `SmallAllocator`. *Done.*
6. `Rpc`. *Done.*
7. `ServiceCtrl` and `Components`: the registry, driven by its users. *Done.*
8. `Logger`, `LogFiles`, the refinement of `Journal`, first proof. *Done.*
9. `Adler`, `ProtoCodec`. *Done.*
10. Proofs of the invariants and of both refinements: `EventCtrlProofs`, `FrameworkProofs`,
    `ComponentsProofs`, `RpcProofs`, `LoggerProofs`, `ChunkAllocatorProofs`,
    `SmallAllocatorProofs`. *Done.*
11. `LockFreeStack`, if a part of the program comes to use it.
