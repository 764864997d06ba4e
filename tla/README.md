# DistributedNAS in TLA+

Specifications of DistributedNAS: a user-space engine that serves Linux network
block devices (NBD) from one file. Every module is written from the C++ source; where a comment
or a test of the repository says something else, the code is modelled and the difference is
listed under *Findings*. Paths below are relative to `src/`; `waitablequeue.hpp`, `threadpool.*`
and `factory.hpp` stand under `DesignPatterns/`.

## 1. The system

The kernel writes block requests to a socket. `RequestEngine::Run` waits for readable sockets
in `select` and lets the device's `NBDProxy` read a request, which becomes a task of the
`ThreadPool`. A thread of the pool looks up the handler in the `Factory`, the handler moves
data between the request and the file through `MemoryFile`, and `NBDProxy::Done` writes the
reply to the socket. Next to this path handlers can be loaded at run time: `DirMonitor` watches
a directory, notifies `DLLoader` through the `Observer` classes, and a loaded library registers
its handlers in the one `Factory` a `Singleton` holds. `Kamikaze` and `Scheduler` are a separate
service: calls at a later time.

| Component (source) | State | Operations | What is hard | What makes it correct |
|---|---|---|---|---|
| WaitableQueue (`waitablequeue.hpp`) | `m_pq`, a mutex, a condition variable | `Enqueue`, `Dequeue()`, `Dequeue(duration)` | wakeups that go to nobody, spurious wakeups, a deadline that meets a notification | no item is stranded while a consumer sleeps; it is a blocking priority buffer |
| ThreadPool (`threadpool.cpp/.hpp`) | `m_wq`, `m_num_of_threads`, `m_map`, `m_is_paused`, `m_mutex`, two condition variables | `AddTask`, `Pause`, `Resume`, `SetThreadNumber`, `Stop`; the loop of a thread; `PauseTask`, `DeleteTask` | calls work through tasks in the queue of user tasks; counters and flags are used without the mutex | each task starts once and in order; the count is the number of threads; a pause reaches every thread; Stop ends them |
| RequestEngine (`framework/requestengine.hpp`) | `m_map` of devices, the `fd_set`, `m_tp` | `Run`, `RequestCB`, `RETask` | the loop owns all sockets; requests run concurrently | every request is answered |
| NBDProxy (`nbdproxy.cpp`) | the socket pair, `m_mutex` | `OnSocketReady`, `Done` | byte streams without record boundaries, replies from several threads | both ends agree on where requests and replies begin |
| Handlers and memory (`requesthandler.cpp`, `memory.*`, `MemoryFile` in `nbdproxy.cpp`) | one descriptor with a position | `read`, `write`, `operator()` | `lseek` and the transfer are two calls | a request touches its own blocks, once |
| Factory, plugins (`factory.hpp`, `pnpcommands/`) | map from key to function | `Add`, `Create` | `Add` while `Create` searches | `Create` finds a handler |
| Singleton (`Singletone/`) | an atomic pointer | `instance`, `KillInstance` | double-checked locking | one instance |
| Handleton (`handleton.h`, `handleton/handleton.hpp`) | two flags, pointer | `GetInstance`, `DestroyInstance` | first use by several threads, a constructor that throws, exit | one object; nobody gets it before it is complete or after it is deleted |
| Observer (`observer/observer.hpp`) | list of callbacks, back pointers | attach, detach, `NotifyAll` | a callback that changes the list being walked | `Update` only on live, attached callbacks |
| Scheduler, Timer (`schedualer/`) | queue of deadlines, one POSIX timer | `Add`, `Cycle` | the timer's thread against callers | each entry fires once, not early, the earliest first |
| Kamikaze (`kamikaze/`) | the call, its callback | constructor, `Update` | deletes itself inside a notification | runs once, freed once |
| DirMonitor (`dirmonitor/`) | inotify descriptor, thread | `Monitor`, `StopMonitoring` | several events in one read | every new library is reported |
| DLLoader, SharedObject (`dlloader/`) | list of open libraries | `Load`, destructor | erasing while iterating; a failed `dlopen` | a handler in the factory is code that is mapped |
| BUSE (`BUSE/`) | socket pair, two processes, the device | `buse_main`, `serve_nbd`, `disconnect_nbd`; the callbacks of `busexmp` and `loopback` | signals, death of one of the processes, the disconnect in the request stream | a block device to the kernel; exit code 0 means a clean end |

`BUSE` is the C library the engine's proxy was written after, with its own programs and tests.
`MasterProxy` and `SlaveProxy` are unfinished headers that do not compile and that nothing includes.

## 2. Modules

| Module | Stands for | Uses |
|---|---|---|
| `PriorityBuffer` | what a WaitableQueue promises | |
| `WaitableQueue` | the class | refines `PriorityBuffer` |
| `Executor` | what a ThreadPool promises its callers | |
| `ThreadPool` | the class | instance `m_wq` of `WaitableQueue`; refines `Executor` |
| `BlockDevice` | what the kernel expects of the program | |
| `RequestEngine` | engine, proxy, handlers and memory | instance `Pool` of `Executor`; refines `BlockDevice` |
| `Observer` | `Dispatcher` and `CallbackBase` | |
| `Scheduler` | `Schedualer`, `Timer`, `Kamikaze` | instance `O` of `Observer` |
| `Once` | what a `Handleton` promises its callers | |
| `Handleton` | the class | refines `Once` |
| `Plugins` | `Factory`, `Singleton`, `DirMonitor`, `DLLoader`, `SharedObject`, with `main`, the monitor's thread and the pool's threads | |
| `Buse` | `buse.c` with `busexmp.c` and `loopback.c` | refines `BlockDevice` |
| `MC...` | a small instance of each for TLC | |
| `WaitableQueueProofs`, `ThreadPoolProofs`, `RequestEngineProofs`, `ObserverProofs`, `SchedulerProofs`, `HandletonProofs`, `BuseProofs`, `PluginsProofs` | theorems | |

### WaitableQueue

`m_pq` is a set of items and `Compare` the functor; `Pop` takes any item that no other precedes,
which is all a heap fixes. `caller[t]` is where a consumer is: `out`, `lock` (wants the mutex), `wait` (in the
condition variable), `woken` (released, wants the mutex again). A critical section is one step,
since the mutex is held throughout: `Enqueue` inserts and notifies (`NotifyOne` chooses the waiter),
`CheckQueue` is the test with either `Pop` or `Block`. `WakeUp` is a spurious wakeup or a deadline,
`TimeOut` the answer of `wait_for`, after which the code returns `false` without a look at the queue.

### ThreadPool

A thread is at `wpc[w]`: `register`, `loop`, `dequeue`, `run`, in `LockCV` (`pause_hold`, `pause_wait`,
`pause_woken`), `leave`, or `none`. A client is at `cpc[c]`, with the loop counter `i` and the
argument `num`. The cuts follow the locks. What a client does without `m_mutex` (reading
`m_num_of_threads`, setting `m_is_paused`, adding a task) is a step each, so resizing, pausing,
dying and stopping interleave; what happens under `m_mutex` and is not seen from outside is one.
Only the test of a loop is in one step with the `Enqueue` after it. Stop tells nobody whether its time was over, so any
call may follow any other. `LockCV` is cut between its test and its wait because `Resume` changes the flag without the mutex.
The queue is the instance `m_wq`, and every step that touches it is a step of that module
(`PoolUsesQueue` proves it). `shrunk` and `late` are history: the number of times `SetThreadNumber`
decremented the count, and the tasks that were added when each thread that was left had taken its `DeleteTask`.

### RequestEngine

`stage[r]` is how far a request is: written by the kernel (`sending`, `sent`), a task
(`queued`), in its handler (`seek`, `move`), in `Done` (`reply`, `data`, `done`), `answered`. A direction
of a socket is a bounded queue of messages, each a header or the data that belongs to one; a request is two
messages for a write, a reply is two for a read. `Select` leaves the ready descriptors in
`master`; the loop of `Run` goes through them in the order of `m_map` (`Reached`), and for a write
reads header and data in two steps, since the kernel may still be writing. `Seek` and then `Read` or `Write` are
the two calls of `MemoryFile` on the shared `position`. `Read` gets what there is up to the end of
the file and at the end spins, like `read_all`. `m_offset` narrows the 64-bit offset to an
`int`; `m_type` is what the handler is looked up under, which for a disconnect is in network order.

The kernel's side (`Send`, `SendData`, `Receive`, `ReceiveData`) is external: the Linux driver
writes one request after another to a socket, and reads a reply as header and, for a read, data. Of the pool the
module uses only that a task that was added waits, is started once by one of `Threads` threads
and ends, which is `Executor` with tasks of equal number (`UsesExecutorSafely`); `PoolImplementsExecutor` proves that of
the pool's steps. `Run` never pauses, resizes or stops it.

### Observer

`m_subscribers[d]` is a dispatcher's list, `m_dispatcher[c]` a callback's pointer back, `cursor[d]` the
iterator of a running `NotifyAll`: a position, `NoLoop`, or `Freed` when the node under it was
erased. `Update` may call every operation of the two classes, so between two steps of the loop (`Step`) any
action may happen; `Attach` inserts at the front (`push_front`) and moves the position, `EraseAt` is `Detach`'s
`erase`. `undefined` says that the code used memory that is gone, `reattached` and `owed` are history.
The classes have no lock and the repository uses a dispatcher from one thread at a time.

### Scheduler

A Kamikaze's constructor enters `Schedualer::Add` (`Add`, `AddNew`, `AddPush`, `AddAsk`, `AddCompare`, `AddZero`, `AddArm`),
which holds `m_mutex` to its end. An expiry of the timer (`Expire`) starts a thread in `Cycle`
(`CycleTop` to `CycleArm`, with `OnEvent` in the middle), which locks nothing: hence a step for each
access to `m_pq` or the timer, and `DataRace`, after which nothing is known (`gone`). Attaching,
notifying and the two destructors are the actions of `Observer`, `delete this` inside `NotifyAll`
included. `Tick` lets time pass between any two steps; deadlines are the ticks left. `CheckDeadline`
keeps the unit mix of the code (seconds added to milliseconds), and `Timer::Arm` cuts to whole milliseconds.
`Timer::Arm` writes `tv_sec` and `tv_nsec` of the one `itime` and then sets the timer (`ArmSec`, `ArmNsec`,
`ArmTimer`); `Add` is in it with the mutex and `Cycle` without, so each may set what the other wrote. `torn` is
the history of a timer that was set to another time than its own call had written; 0 and 0 disarms. The
two calls also share `m_old_value`, which `CheckDeadline` has written (`AddAsk`) before it reads it. The step of
`NotifyAll` after `delete this` reads a freed node in every `Cycle` (`CycleStep`): the loop ends, or anything may happen (`freed`).

### Handleton

One action per access to `sv_isReady`, `sv_shouldInit` and `theObject` in `GetInstance` and
`DestroyInstance`; `Throw` is a constructor that throws. The object that thread `t` makes is called `t`.
`Once` is an object that appears at most once, is what every call returns, and is at last replaced by a mark.

### Plugins

Every thread reaches the factory through `Singleton::instance()` (`Load`, `Lock`, `New`): the second test is made of the local copy, so
each thread that gets as far as the lock makes a factory of its own. `Create` and `Add` use the map
of the factory in `temp`; an insert is cut in two, so that a search in the middle of it, for whatever key, is seen (`CreateFaults`,
`AddFaults`). `Read` is one round of `DirMonitor::Monitor` with `NotifyAll` and `DLLoader::Load`:
a batch is read, the first event handled. `Open` is `dlopen` with its counts; a library's constructor adds its handler on
the monitor's thread. `DestroyLoader` is the loop that erases while it iterates. A `fault` is undefined
behaviour, with the key that was asked for, and ends a behaviour.

### Buse

The parent (`parent`) sets the device up, forks, installs two handlers one after the other and serves: `Take` reads a
request, `Transfer` moves blocks (all at once in `busexmp`, some at a time in `loopback`), `Reply`
writes. A signal handler (`DisconnectNbd`) runs between two steps of the parent and leaves the parent waiting
when the socket has no room for the disconnect. A handler that cannot be set ends the parent and leaves the child (`NoHandler`). The child masks signals, binds the device and sits in
`NBD_DO_IT`. Either process can be killed or fail. `Return` is how each program uses `buse_main`'s value.
The driver (`Submit`, `Receive`, `Disconnect`, `NbdClient`) is external: it sends requests while the
device runs, writes a disconnect behind them, and returns from `NBD_DO_IT` when the other end is closed and the replies are read.

## 3. What is checked

Passing runs:

| Run | Instance | Property | Meaning |
|---|---|---|---|
| `queue_untimed` | 3 consumers, 3 items, two of them equal for the functor | `NoLostWakeup` | while one sleeps, each item has a consumer on its way |
| | | `BlockedUntilData` | nobody stays blocked while data stays in the queue |
| | | `ImplementsBuffer` | refines `PriorityBuffer`, with its fairness |
| `queue_mixed` | one consumer polls | `PollingServes` | a queue that keeps being non-empty keeps being served |
| `pool_calls` | 1 client, all calls, 1 to 2 threads | `Consistent` | the places of threads and clients agree with queue, map and mutex |
| | | `ThreadCount` | the count is right up to the known double decrement |
| | | `DeleteFindsWorker` | the unchecked `find` of `DeleteTask` succeeds |
| | | `StopDrains` | a `Stop` that returns with count 0: all threads left, all tasks done but late ones |
| | | `PauseCovers` | a pause has a `PauseTask` for every thread |
| | | `ImplementsExecutorSafely` | every step is an executor's |
| `pool_live` | 1 client, all calls, 1 to 2 threads, 1 task, fair | `PauseQuiesces` | a pool that stays paused comes to rest, unless threads were taken off |
| | | `StopKillsAll` | after `Stop` each thread ends or is paused, unless threads were taken off or are added |
| | | `ImplementsExecutor` | refines `Executor`, whose fairness it keeps while a thread is not leaving and nobody stays paused |
| `engine_one` | 1 thread, 2 overlapping writes and a read, fair | `ImplementsDevice` | refines `BlockDevice` with its fairness: every request takes effect once and is replied to |
| `engine_many` | 3 threads, 2 devices | `StreamInSync` | `Run` reads a header where one begins |
| | | `RepliesFramed` | replies of several threads do not mix |
| | | `UsesExecutorSafely` | each request is added to the pool once, started once, and comes back once |
| `observer` | 2 dispatchers, 3 callbacks, made and destroyed again and again | `BackPointers` | a callback's pointer leads to a living dispatcher that lists it |
| | | `NoDangling` | no destroyed callback is listed, except after a double registration |
| | | `EveryoneOnce` | a notification owes a call to exactly those behind its iterator |
| `scheduler` | 2 Kamikazes, 2 timer threads, delays of 0 to 3 ms, fair | `NoEntryStranded` | while entries wait, the timer is armed or somebody will arm it, unless an `Add` and a `Cycle` tore `itime` |
| | | `EveryExpiryHasEntry` | a `Cycle` that meets nobody finds an entry |
| | | `NeverEarly` | and runs nothing more than a rounded millisecond early |
| | | `NothingLeaks` | and leaves no dispatcher and no callback behind |
| | | `EveryKamikazeDies` | and every Kamikaze runs and is freed, or the read of a freed node went wrong |
| `handleton` | 3 threads, a constructor that may throw, exit; fair | `PointerValid` | the pointer leads to no object that is unfinished or deleted |
| | | `EveryoneReturns` | everyone who asks gets an answer, unless the constructor threw |
| | | `ImplementsOnce` | refines `Once` |
| `plugins` | `main` with 2 handlers, 2 libraries and a text file, 1 pool thread; fair | `MainKeysAreServed` | what `main` added before any library is found, unless a library inserts a key that `main` does not have at that moment |
| | | `HandlersAreMapped` | while the loader lives no handler in a factory is unmapped |
| | | `FirstIsLoaded` | the first library of a batch is loaded |
| | | `EveryoneGetsAFactory` | everyone who asks for the factory gets one |
| `buse` | both programs, 2 writes, a read and a flush, each signal once, kills; fair | `SuccessIsClean` | exit code 0 of `busexmp`: what was sent before was answered, the device is free |
| | | `DisconnectEnds` | a disconnect in the socket ends the program |
| | | `ImplementsDevice` | refines `BlockDevice`, whatever is killed when |

The one run that finds a violation, `engine_race`, is under *Findings*.

**Bounds.** Ids of threads are used again after a thread has ended, and so are the `PauseTask`
and `DeleteTask` objects, so the pool's runs are not bounded in length; what is bounded is how many exist
at one time. A call begins when there are as many as it can need (`RoomFor`, `RoomToGrow`): two `PauseTask`s
leave room for a second pause of one thread while the object of the first is still queued or held, or for a pause of
two threads; three `DeleteTask`s (two in `pool_live`) for a second Stop behind one that ran out of time. Two threads are the least with which one can be paused, dying or created while
another takes tasks; three consumers the least where one sleeps, one is woken and one comes first.
The engine's device has three blocks, the least where two requests overlap without
being the same; a socket has room for two messages, so that both sides can be blocked half way
through a request or a reply. `OffsetLimit` 8 is beyond the file.
`Observer`: addresses are used again, so its run is not bounded in length either; `MaxListed` 3 lets a list hold
all three callbacks, or one of them twice next to another, and two dispatchers are the least a callback can be moved between. What a program does
after undefined behaviour is cut off (`MCDefined`).
`Scheduler`: a tick is half a millisecond, so that `Arm` can round; a second has two
milliseconds, so that the unit mix of `CheckDeadline` is within the delays of 0 to 3; of two
Kamikazes one can be added while the other's timer is armed, expires or runs, by a client or by the
other's function. Two timer threads are the least that meet in `Cycle`.
`Plugins`: one pool thread, since pool threads only read the factory and meet no one but `main` and the monitor;
a queue of two events and a batch of two are the least with a lost and an overflowing event;
`MaxMoves` 3 is one file more than the queue holds.
`Buse`: room for two messages, so that a request and the disconnect can be queued and the handler find no room.
What a bound hides the theorems cover, as they hold for any values of the constants.

One client makes the calls in the pool's runs; what holds for several at once is proved (`PoolConsistent`,
`ThreadsAreCounted`, `PoolImplementsExecutor`).

**Symmetry** is used in `pool_calls`, over the pool's own task objects, and in `observer`, over
dispatchers and over callbacks: addresses the code never compares but for equality. No liveness is checked there.

**Fairness.** `WaitableQueue`: the mutex is granted to some consumer that wants it, which is all a
mutex promises; a consumer with a duration wakes, and then takes its turn. Nobody is
obliged to enqueue or to call; `Polling`, used in one run, is a consumer that calls again.
`ThreadPool`: each thread and each client takes steps while it can (the system's scheduler); to be
woken without a reason is never fair. `PauseQuiesces` and `StopKillsAll` assume that spurious wakeups end
(`FewWakeups`), since each of them takes a thread out of the wait for a moment; `StopKillsAll` also that callers do not
add tasks or pause for ever (`FewUrgentTasks`), as these overtake `DeleteTask`s, and `ImplementsExecutor` that they do not stop for
ever (`FewStops`), since `Stop` holds the mutex that a new thread needs and weak fairness grants it no turn between. `RequestEngine`: `Run` and each running
handler take steps; some queued task is started when a thread is free, which is what `Executor`'s fairness says; the kernel finishes
what it began and reads replies. It is not obliged to send. `Scheduler`: a running `Add` and each timer thread
take steps, time passes, and an expired timer gets a thread. `Handleton`, `Plugins`: each thread that is in a
call goes on; nobody has to call, to move a file or to exit, and constructors need not throw or succeed.
`Buse`: both processes go on while they can, and the driver reads replies; it need not send, and no
signal need come.

**Deadlock** is checked in the queue's, the pool's, the observer's and the scheduler's runs. It is not where the system may
really stop: the engine when its requests are answered, `Handleton` when everyone spins after a
constructor threw, `Plugins` after undefined behaviour, `Buse` when the program has ended or its
handler waits for room.

## 4. What is proved

For all values of the constants, under the assumption each module names (`QueueAssumption` with
`CompareAssumption`, `PoolAssumption`, `EngineAssumption`, `ObserverAssumption`, `SchedulerAssumption`,
`HandletonAssumption`, `BuseAssumption`, `PluginsAssumption`: finite sets, disjoint ids, a transitive and irreflexive
functor for the queue, requests inside the device, units of time that are not 0, room for one event).

* `TypeCorrect`, `NoWakeupIsLost` (for no consumer with a duration), `ImplementsBufferSafety`.
  `NoLostWakeup` is inductive once the types are known: a consumer goes to sleep only on an empty queue, an
  item comes with a notification, and an item leaves with an awake consumer.
* `PoolConsistent`: `Consistent` is inductive, and every other proof about the pool stands on it. It has to
  say of each thread, task, `m_map` and the mutex at once where they are, since a
  step that moves one is safe only because of where the others are.
* `DeleteFindsItsWorker` follows from it.
* `ThreadsAreCounted`, by counting: each step changes `m_num_of_threads`, `shrunk`,
  `Starting` and `Counted` by amounts that cancel. For any number of concurrent clients.
* `StopDrainsThePool`, for any number of clients that call anything in any order. The strengthening
  `OnlyLateTasks` says that once each thread that is left has its `DeleteTask` in hand, the queued user tasks are late:
  a `DeleteTask` is taken only from a queue without user tasks, and a thread that drops another task, or is new, has none.
  By `ThreadCount` the count 0 means that no thread is left, if none was taken off twice and none is just being created.
* `PauseReachesAll`, for one client. `Covered(c)` compares a sum, the `PauseTask`s that are queued or held, with what
  the client has still to do: in a loop of `Pause` or `SetThreadNumber` the rounds that remain make up the
  difference. Each step of a thread leaves the sum as it is, or the flag is down. With two clients it is
  false: `SetThreadNumber` reads the flag, and `Pause` the count, without a lock.
* `PoolImplementsExecutor` and `PoolUsesQueue`: refinement, step by step.
* `PoolLosesNoWakeup`, from `PoolUsesQueue` and `NoWakeupIsLost`: the pool's comparator is a strict order
  (`CompareIsStrict`) and its threads dequeue without a duration, so the queue's theorem holds in every pool, with any number of clients.
* `InOrderAlways`: the invariant of the sockets. `Framed` says of one direction that a header with
  data is directly followed by it, that the reader's expectation fits the first message and the writer's
  unfinished one the last, and that no request is twice in it; `Carries` ties that to the stages of the
  requests. The two directions share their lemmas: `PutHeader`, `PutData`, `TakeHeader`,
  `TakeData` about sequences, then `CarriesHeader` and the like with the stages.
  `StreamAlwaysInSync` and `RepliesAlwaysFramed` follow.
* `OneThreadImplementsDevice`: with one thread, and a file whose offsets an `int` holds, the engine
  refines `BlockDevice`. The invariant `Serial` adds to the above that at most one request is in a handler, that
  between `lseek` and the transfer the position is its offset, and that a read's buffer is either untouched or complete. The first
  of these is what fails with two threads (`engine_race`), so the theorem cannot be had without it. The property is `ImplementsDeviceSafely`, the safety half of
  what `engine_one` checks. The second
  assumption is needed as well: beyond it `lseek` fails unnoticed.
* `EngineUsesExecutor`, refinement of the pool's interface by the engine, for any number of threads: a task is added only for a request
  that is on its way (`OnTheWay`, from `InOrder`). With `PoolImplementsExecutor` the two components meet at `Executor`. It
  assumes that no handler was added under `htonl(NBD_CMD_DISC)`, as in `nbd_test.cpp`: for a disconnect `Create` is start and end in one step.
* `BackPointersHold`, `NothingDangles`: the two invariants need each other, since a destructor finds its node
  only by a right pointer, and a right pointer stays right only if no destroyed object is listed. The strengthening is
  that a callback that was never attached while listed is in at most one place of one list, the one its pointer leads to.
* `EveryoneIsToldOnce`: on top of it, a case analysis of where an insertion or an erased node lies relative to the iterator.
* `NobodyIsStranded`: inductive with the types and `Told`: an `Add` that was told of an armed timer, and leaves it at that, was
  told so rightly. The cases to see are `AddZero`, where "not armed" reads as 0 and arms, and `ArmTimer`: what one call of `Arm` writes
  for any delay is not 0 and 0 (`ArmArms`), so only a torn `itime` disarms.
* `ExpiriesFindEntries`, `NobodyRunsEarly`, `NothingIsLeftBehind`, from one invariant that holds until threads overlap.
  `Steady` is the bookkeeping: a timer is armed only over a queue that is not empty, each Kamikaze is queued
  once with its dispatcher unused, and what a `Cycle` holds is in no queue; so a `Cycle` that is alone finds what it was started for.
  `Timed` adds the deadlines: `Add` arms for its delay, which is no earlier than the first deadline, a `Cycle` for that deadline less
  what `Arm` rounds off, timer and deadlines run with the same clock, and what a call of `Arm` sets is what it wrote (`Written`). The proof uses the theorems of `Observer`
  (`UsesObserver`: each step is one of its steps or leaves it alone).
* `PointersAreValid`, `HandletonIsOnce`: the invariant `Inv` says that one thread at most holds the claim, and how
  far it and `exit` are determine the flags, the pointer and the object.
* `BuseIsBlockDevice`: a request is in at most one place, namely the one its stage names (`Lined`, for both directions of the
  socket), and what a read has collected so far is what the file holds, since nothing else touches it. With that
  every step of either process, a kill included, maps to a step of `BlockDevice` or a stutter. A write that `loopback` makes in
  parts takes effect at its first part, as nobody but the serving process sees the file.
* `ExitCodeIsRight`: a disconnect stands behind everything that was sent before it (`Behind`), so who took it has answered all
  that; the child's place in `buse_main` says what the device is (`Bound`), and the child leaves its loop, other than by a
  signal, only when its parent has closed the socket and the replies were read.
* `PluginsConsistent`: the types, where each thread is in `instance` and `Add` or `Create`, and the counts of `dlopen`.
  While the loader lives, or before the monitor starts, a library is open as often as the loader's list has it (`Times`,
  whose lemmas say what appending to a sequence does to it); so the destructor closes nothing that is not open.
* `HandlersStayMapped`: with these counts, a handler that a library added is of a library with a count above 0. The step
  to see is `LibraryInsert`, which runs inside `dlopen`, before the library is on the list.
* `MainKeysStayServed`: until the first library is loaded nobody but `main` calls, so `main` makes the one factory
  (`OneFactory`), every later caller gets it, and each key of `main` is still to be added or in its map (`Serving`). After that
  nobody inserts such a key for the first time (`Spared`), so a search for it does find it, or is undefined, and the one that
  disturbed it is a library with a key that `main` does not have. That race is not excluded: the map is rebalanced under a search for any key.

Only model-checked: what needs fairness (`BlockedUntilData`, `PollingServes`, `PauseQuiesces`,
`StopKillsAll`, `EveryKamikazeDies`, `EveryoneReturns`, `FirstIsLoaded`, `EveryoneGetsAFactory`, `DisconnectEnds`, the liveness
half of the refinements), as the prover has no ENABLED. Every safety property that a run checks has a theorem.

## 5. Findings

| Run | Code | What it shows |
|---|---|---|
| `engine_race` | `nbdproxy.cpp:245` | Handlers share one file position without a lock: data goes to, and comes from, other blocks. |

The models also have the following, and properties that would be false without an exception for it name the exception:

* A deadline that passes together with a notification swallows it (`waitablequeue.hpp:79`): `NoWakeupIsLost` assumes no consumer with a duration.
* Threads that `SetThreadNumber` takes off are counted off twice (`threadpool.cpp:51`), so `Stop` may report "all threads are dead" while one lives: `shrunk`.
* `Resume` does not lock (`threadpool.cpp:115`): it can fall between a thread's test and its wait, and is lost, so that thread stays paused.
* `Stop` on a paused pool leaves `m_is_paused` set, although its comment says "all paused tasks will continue"
  (`threadpool.cpp:91`), so such a pool does not end. User tasks have smaller numbers than a
  `PauseTask` (`threadpool.hpp:72-112`), so a thread that has not reached its `PauseTask` executes user tasks that
  are added to a paused pool.
* `select` overwrites the set that `Run` filled once (`requestengine.hpp:178`): a device that was idle once is not served again.
  `ImplementsDevice` of `engine_one` has one device.
* The handler of a disconnect is looked up under the type in network
  order (`nbdproxy.cpp:203`), where `nbd_test.cpp:88` adds it under `NBD_CMD_DISC`. `Factory::Create` then
  dereferences `end()`, which is undefined; `RequestEngine` does not begin that task.
* A second factory is made when a library loads while `main` is in its first call (`singletone.hpp:58`), and handlers are looked up in one
  of the two: `orderly`.
* A library's constructor inserts into the map of the factory while pool threads search it (`factory.hpp:27,34`, no lock). The insert
  relinks nodes, so a search for any key, one of `main`'s included, is undefined: the fault `"map"`, which `MainKeysAreServed` names.
* Of the events of one `read` the first is handled (`dirmonitor.cpp:24`): hence *First*IsLoaded.
* `~DLLoader` closes every other library (`dlloader.cpp:17`), and gives `dlclose` a pointer nobody set where a file was no library.
* `Cycle` uses the scheduler's queue and timer without the lock of `Add` (`schedualer.cpp:44`): `overlapped`. In `Timer::Arm`
  (`schedualer.cpp:84-101`) the two can set the timer to 0 and 0, so that nobody wakes what is queued: `torn`.
* `CheckDeadline` takes 2 s for 2 (`schedualer.cpp:122`), so a shorter delay that is added then may run late; no property denies it.
* `Kamikaze` deletes itself under the iterator of `NotifyAll` (`kamikaze.cpp:25`), which then reads a freed node (`observer.hpp:111`): the
  loop's end (`StepFreed`) is one outcome, `freed` is the rest. `EveryKamikazeDies` names it; `Observer`'s properties allow for it by `undefined`.
* `disconnect_nbd` may wait for room in a socket that only the process it interrupted reads (`buse.c:103`): `Stuck`.
* The exit code of a child that was killed counts as 0 (`buse.c:351`), and `loopback`'s `main` drops `buse_main`'s value: `SuccessIsClean`
  is about `busexmp` and a child that was not killed.

## 6. Not modelled

Output, and the real length of durations. The destruction of a pool whose threads live. Of the proxy: the set-up
with `ioctl`, the signal handler, errors and the end of the socket (`Buse` has all four of them for the library the proxy follows). In
`RequestEngine`: handlers that are registered while `Run` runs (they are in `Plugins`), and memory ownership of requests (`Done` deletes them).
Operations that nothing calls or that have no effect: `DirMonitor::StopMonitoring` and `unsubscribe`, `Singleton::KillInstance` (it
deletes only a null pointer), `Timer::Disarm`, `KamikazeDispatcher`, `SharedObject::GetSymbol`. `Observer` from several
threads at once, and calls of its operations from the function that `StopObserving` runs in `~Dispatcher` (every owner's is empty or prints).
In `Buse`, a request that `read` returns in parts, or with a wrong magic number, for which the code has assertions: the driver
writes neither. The parsing of arguments in `BUSE`. `MasterProxy`, `SlaveProxy`, sources that are comments, and the demos.
No program of the repository destroys a `DirMonitor` or a `DLLoader` while others use it; the model has their destructors, as they are part of the classes.

## 7. Plan

1. `NBDProxy`: set-up, signal handler and disconnection, as `Buse` has them; the end of a socket and failing calls in `RequestEngine`.
2. Proofs: `NoLostWakeup` for consumers of which some use a duration, as far as it is true of them; `StopDrains` for a
   client that shrinks the pool to a size above 0; the actions of 1.
