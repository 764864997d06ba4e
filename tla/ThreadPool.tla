------------------------------- MODULE ThreadPool -------------------------------
(***************************************************************************)
(* ThreadPool (threadpool.hpp, threadpool.cpp): detached worker threads    *)
(* that take tasks from a WaitableQueue, and the calls that control them:  *)
(* AddTask, Pause, Resume, Stop and SetThreadNumber.  The calls work by    *)
(* queueing tasks of their own: a PauseTask keeps the worker that runs it  *)
(* in LockCV, a DeleteTask makes it leave.                                 *)
(*                                                                         *)
(* Atomicity.  A client reads m_num_of_threads, writes m_is_paused and     *)
(* queues a task in separate steps, since it does so without m_mutex; Stop *)
(* holds it and is still cut where it queues.  Only the test of a loop,    *)
(* i < m_num_of_threads, is in one step with the Enqueue that follows: a   *)
(* count that falls between them could as well fall after the Enqueue.     *)
(* Stop answers nobody whether its time was over, so any call may follow   *)
(* any other.  A worker registers, and executes a DeleteTask, in one step: *)
(* it holds m_mutex and nobody sees the middle.  LockCV is cut between its *)
(* test of m_is_paused and its wait, because Resume changes the flag       *)
(* without m_mutex.                                                        *)
(***************************************************************************)
EXTENDS Integers, FiniteSets

CONSTANTS
    Workers,         \* thread ids; an id is used again when its thread ended
    Clients,         \* the threads that call the pool's member functions
    Tasks,           \* user tasks, one per queued occurrence
    TaskPriority,    \* the number a user task was constructed with
    PauseTasks,      \* the PauseTask objects that can exist at one time
    DeleteTasks,     \* the DeleteTask objects that can exist at one time
    InitialWorkers,  \* the threads the constructor creates
    Sizes,           \* the arguments of SetThreadNumber
    Calls,           \* the member functions the clients use
    NoTask,          \* a worker without a task
    NoOne            \* m_mutex is free

\* enum priority {LOW, MEDIUM, HIGH}, the PauseTask and the DeleteTask.
PoolAssumption ==
    /\ IsFiniteSet(Workers) /\ InitialWorkers \subseteq Workers
    /\ IsFiniteSet(Clients)
    /\ IsFiniteSet(Tasks) /\ IsFiniteSet(PauseTasks) /\ IsFiniteSet(DeleteTasks)
    /\ Tasks \intersect PauseTasks = {}
    /\ Tasks \intersect DeleteTasks = {}
    /\ PauseTasks \intersect DeleteTasks = {}
    /\ TaskPriority \in [Tasks -> 0 .. 2]
    /\ Sizes \subseteq Nat
    /\ Workers \intersect Clients = {} /\ NoOne \notin Workers \union Clients
    /\ NoTask \notin Tasks \union PauseTasks \union DeleteTasks

ASSUME PoolAssumption

VARIABLES
    m_pq, caller,       \* m_wq
    m_is_paused,        \* what Pause and Resume write
    m_num_of_threads,
    m_map,              \* the workers that registered
    m_mutex,            \* who holds it, or NoOne
    wpc,                \* where each worker is
    task,               \* the task each worker has taken
    cpc,                \* where each client is
    i,                  \* its loop counter
    num,                \* new_num_of_threads, and diff once that is computed
    shrunk,             \* history: how often SetThreadNumber did --m_num_of_threads
    late                \* history: tasks added when no thread was going to take one

queueVars  == <<m_pq, caller>>
workerVars == <<wpc, task>>
poolVars   == <<m_is_paused, m_num_of_threads, m_map, m_mutex>>
history    == <<shrunk, late>>
loopVars   == <<i, num, history>>
vars       == <<queueVars, workerVars, poolVars, cpc, loopVars>>

AllTasks == Tasks \union PauseTasks \union DeleteTasks

GetPriority(x) ==
    CASE x \in Tasks       -> TaskPriority[x]
      [] x \in PauseTasks  -> 4
      [] x \in DeleteTasks -> 5

\* Mutant of CompareFunctor: the comparison the other way round.
CompareReversed ==
    {p \in AllTasks \X AllTasks : GetPriority(p[1]) < GetPriority(p[2])}

\* true for <<lhs, rhs>>: the queue serves the smallest number first.
CompareFunctor ==
    {p \in AllTasks \X AllTasks : GetPriority(p[1]) > GetPriority(p[2])}

m_wq == INSTANCE WaitableQueue
    WITH Items <- AllTasks, Threads <- Workers,
         TimedThreads <- {}, Compare <- CompareFunctor

WorkerStates ==
    {"none",         \* no such thread
     "register",     \* started, before RegisterFunctor
     "loop",         \* at while (i_am_alive), which is true
     "dequeue",      \* in m_wq.Dequeue()
     "run",          \* has a task to execute
     "pause_hold",   \* in LockCV, saw m_is_paused, holds m_mutex
     "pause_wait",   \* in LockCV, waits on m_cv
     "pause_woken",  \* in LockCV, released by m_cv, wants m_mutex
     "leave"}        \* at while (i_am_alive), which is false

ClientStates ==
    {"idle", "pause", "resume",
     "grow", "grow_test", "grow_pause", "grow_create", "grow_count",
     "shrink", "shrink_add", "shrink_count",
     "stop_add", "stop_test", "stop_wait", "stop_woken"}

TypeOK ==
    /\ m_wq!TypeOK
    /\ m_is_paused \in BOOLEAN
    /\ m_num_of_threads \in Int
    /\ m_map \subseteq Workers
    /\ m_mutex \in Workers \union Clients \union {NoOne}
    /\ wpc \in [Workers -> WorkerStates]
    /\ task \in [Workers -> AllTasks \union {NoTask}]
    /\ cpc \in [Clients -> ClientStates]
    /\ i \in [Clients -> Nat]
    /\ num \in [Clients -> Int]
    /\ shrunk \in Nat
    /\ late \subseteq Tasks

\* The constructor has created the threads; none has run yet.
Init ==
    /\ m_wq!Init
    /\ m_is_paused = FALSE
    /\ m_num_of_threads = Cardinality(InitialWorkers)
    /\ m_map = {}
    /\ m_mutex = NoOne
    /\ wpc = [w \in Workers |-> IF w \in InitialWorkers THEN "register" ELSE "none"]
    /\ task = [w \in Workers |-> NoTask]
    /\ cpc = [c \in Clients |-> "idle"]
    /\ i = [c \in Clients |-> 0]
    /\ num = [c \in Clients |-> 0]
    /\ shrunk = 0
    /\ late = {}

\* The threads that have not executed a DeleteTask.
Counted == {w \in Workers : wpc[w] \notin {"none", "leave"}}

--------------------------------------------------------------------------------
(***************************************************************************)
(* Workers: ThreadFunctor::operator() and the tasks.                       *)
(***************************************************************************)

Move(w, p, q) ==
    /\ wpc[w] = p
    /\ wpc' = [wpc EXCEPT ![w] = q]

\* RegisterFunctor
Register(w) ==
    /\ Move(w, "register", "loop")
    /\ m_mutex = NoOne
    /\ m_map' = m_map \union {w}
    /\ UNCHANGED <<queueVars, task, m_is_paused, m_num_of_threads, m_mutex, cpc, loopVars>>

\* while (i_am_alive): the thread calls m_wq.Dequeue(), or ends.
NextTask(w) ==
    /\ Move(w, "loop", "dequeue")
    /\ m_wq!Dequeue(w)
    /\ UNCHANGED <<task, poolVars, cpc, loopVars>>

Exit(w) ==
    /\ Move(w, "leave", "none")
    /\ UNCHANGED <<queueVars, task, poolVars, cpc, loopVars>>

\* Dequeue finds the queue empty, or returns a task.
WaitForTask(w) ==
    /\ m_wq!Block(w)
    /\ UNCHANGED <<workerVars, poolVars, cpc, loopVars>>

TakeTask(w) ==
    /\ Move(w, "dequeue", "run")
    /\ \E x \in AllTasks : m_wq!Pop(w, x) /\ task' = [task EXCEPT ![w] = x]
    /\ UNCHANGED <<poolVars, cpc, loopVars>>

Drop(w) == task' = [task EXCEPT ![w] = NoTask]

\* (*tb)() of a user task: it returns, and does not use the pool.
RunTask(w) ==
    /\ task[w] \in Tasks
    /\ Move(w, "run", "loop")
    /\ Drop(w)
    /\ UNCHANGED <<queueVars, poolVars, cpc, loopVars>>

\* LockCV, at while (m_is_paused): called by a PauseTask, or after m_cv.wait.
InLockCV(w) ==
    \/ wpc[w] = "run" /\ task[w] \in PauseTasks
    \/ wpc[w] = "pause_woken"

PauseTest(w) ==
    /\ InLockCV(w)
    /\ m_mutex = NoOne
    /\ m_is_paused
    /\ m_mutex' = w
    /\ wpc' = [wpc EXCEPT ![w] = "pause_hold"]
    /\ UNCHANGED <<queueVars, task, m_is_paused, m_num_of_threads, m_map, cpc, loopVars>>

PauseWait(w) ==
    /\ Move(w, "pause_hold", "pause_wait")
    /\ m_mutex' = NoOne
    /\ UNCHANGED <<queueVars, task, m_is_paused, m_num_of_threads, m_map, cpc, loopVars>>

\* Mutant of PauseLeave: "if (m_is_paused)" in place of "while".
PauseLeaveOnce(w) ==
    /\ InLockCV(w)
    /\ m_mutex = NoOne
    /\ ~m_is_paused \/ wpc[w] = "pause_woken"
    /\ wpc' = [wpc EXCEPT ![w] = "loop"]
    /\ Drop(w)
    /\ UNCHANGED <<queueVars, poolVars, cpc, loopVars>>

PauseLeave(w) ==
    /\ InLockCV(w)
    /\ m_mutex = NoOne
    /\ ~m_is_paused
    /\ wpc' = [wpc EXCEPT ![w] = "loop"]
    /\ Drop(w)
    /\ UNCHANGED <<queueVars, poolVars, cpc, loopVars>>

\* m_stop_cv.notify_one(): releases some client that waits in Stop, or nobody.
NotifyStop ==
    \/ (\A c \in Clients : cpc[c] # "stop_wait") /\ UNCHANGED cpc
    \/ \E c \in Clients :
          cpc[c] = "stop_wait" /\ cpc' = [cpc EXCEPT ![c] = "stop_woken"]

DeleteSelfThen(w, p, decrement) ==
    /\ task[w] \in DeleteTasks
    /\ Move(w, "run", p)
    /\ m_mutex = NoOne
    /\ w \in m_map
    /\ m_map' = m_map \ {w}
    /\ m_num_of_threads' = m_num_of_threads - decrement
    /\ NotifyStop
    /\ Drop(w)
    /\ UNCHANGED <<queueVars, m_is_paused, m_mutex, loopVars>>

\* Mutants of DeleteSelf: no KillMe(), no --m_num_of_threads.
DeleteSelfAlive(w)     == DeleteSelfThen(w, "loop", 1)
DeleteSelfUncounted(w) == DeleteSelfThen(w, "leave", 0)

\* DeleteTask::operator(): find() has to succeed, the code does not check it;
\* KillMe() makes the loop end.
DeleteSelf(w) == DeleteSelfThen(w, "leave", 1)

WorkerStep(w) ==
    \/ Register(w) \/ NextTask(w) \/ Exit(w)
    \/ WaitForTask(w) \/ TakeTask(w) \/ RunTask(w)
    \/ PauseTest(w) \/ PauseWait(w) \/ PauseLeave(w)
    \/ DeleteSelf(w)

\* Both condition variables may release a waiter that nobody notified.
Spurious(w) ==
    \/ m_wq!WakeUp(w) /\ UNCHANGED <<workerVars, poolVars, cpc, loopVars>>
    \/ /\ Move(w, "pause_wait", "pause_woken")
       /\ UNCHANGED <<queueVars, task, poolVars, cpc, loopVars>>

--------------------------------------------------------------------------------
(***************************************************************************)
(* Clients: the member functions.                                          *)
(***************************************************************************)

At(c, p, q) ==
    /\ cpc[c] = p
    /\ cpc' = [cpc EXCEPT ![c] = q]

Begin(c, f, q) == f \in Calls /\ At(c, "idle", q)

\* Bound: `new PauseTask` and `new DeleteTask` draw from finite sets of objects.
Unused(S) == {x \in S \ m_pq : \A w \in Workers : task[w] # x}

\* Bound: a call that queues n of them starts when as many are unused.
RoomFor(S, n) == Cardinality(Unused(S)) >= n

QueueNew(S) == \E x \in Unused(S) : m_wq!Enqueue(x)

\* for (int i = 0; i < n; i++) AddTask(new ...);   and its end
QueueOne(c, p, S, n) ==
    /\ At(c, p, p)
    /\ i[c] < n
    /\ QueueNew(S)
    /\ i' = [i EXCEPT ![c] = @ + 1]
    /\ UNCHANGED <<workerVars, poolVars, num, history>>

LoopEnd(c, p, q, n) ==
    /\ At(c, p, q)
    /\ i[c] >= n
    /\ i' = [i EXCEPT ![c] = 0]
    /\ UNCHANGED <<queueVars, workerVars, poolVars, num, history>>

\* Every thread that is left has its DeleteTask in hand.
Leaving == \A w \in Counted : task[w] \in DeleteTasks

AddTask(c) ==
    /\ Begin(c, "AddTask", "idle")
    /\ \E x \in Unused(Tasks) :
          /\ m_wq!Enqueue(x)
          /\ late' = IF Leaving THEN late \union {x} ELSE late \ {x}
    /\ UNCHANGED <<workerVars, poolVars, i, num, shrunk>>

\* Pause: the flag, then a PauseTask for each thread that is counted.
Pause(c) ==
    /\ Begin(c, "Pause", "pause")
    /\ RoomFor(PauseTasks, m_num_of_threads)
    /\ m_is_paused' = TRUE
    /\ UNCHANGED <<queueVars, workerVars, m_num_of_threads, m_map, m_mutex, loopVars>>

PauseAdd(c) == QueueOne(c, "pause", PauseTasks, m_num_of_threads)

PauseReturn(c) == LoopEnd(c, "pause", "idle", m_num_of_threads)

NotifyAllPaused ==
    wpc' = [w \in Workers |-> IF wpc[w] = "pause_wait" THEN "pause_woken" ELSE wpc[w]]

\* Resume: the flag, without m_mutex, then m_cv.notify_all().
Resume(c) ==
    /\ Begin(c, "Resume", "resume")
    /\ m_is_paused' = FALSE
    /\ UNCHANGED <<queueVars, workerVars, m_num_of_threads, m_map, m_mutex, loopVars>>

ResumeNotify(c) ==
    /\ At(c, "resume", "idle")
    /\ NotifyAllPaused
    /\ UNCHANGED <<queueVars, task, poolVars, loopVars>>

\* Bound: there are thread ids for n more threads, and PauseTasks for as many
\* and for those that DeleteTasks take away before the count is read again.
RoomToGrow(n) ==
    /\ Cardinality({w \in Workers : wpc[w] = "none"}) >= n
    /\ RoomFor(PauseTasks, n + Cardinality(DeleteTasks \ Unused(DeleteTasks)))

\* SetThreadNumber: compares, then reads the count again for diff.
SetThreadNumber(c, n) ==
    /\ Begin(c, "SetThreadNumber", IF m_num_of_threads < n THEN "grow" ELSE "shrink")
    /\ RoomFor(DeleteTasks, m_num_of_threads - n)
    /\ m_num_of_threads < n => RoomToGrow(n - m_num_of_threads)
    /\ num' = [num EXCEPT ![c] = n]
    /\ UNCHANGED <<queueVars, workerVars, poolVars, i, history>>

Diff(c) ==
    /\ \/ At(c, "grow", "grow_test") /\ num' = [num EXCEPT ![c] = @ - m_num_of_threads]
       \/ At(c, "shrink", "shrink_add") /\ num' = [num EXCEPT ![c] = m_num_of_threads - @]
    /\ UNCHANGED <<queueVars, workerVars, poolVars, i, history>>

\* Mutant of GrowTest: a paused pool grows by threads that run.
GrowTestNever(c) ==
    /\ At(c, "grow_test", "grow_create")
    /\ UNCHANGED <<queueVars, workerVars, poolVars, loopVars>>

GrowTest(c) ==
    /\ At(c, "grow_test", IF m_is_paused THEN "grow_pause" ELSE "grow_create")
    /\ UNCHANGED <<queueVars, workerVars, poolVars, loopVars>>

GrowPause(c) ==
    \/ QueueOne(c, "grow_pause", PauseTasks, num[c])
    \/ LoopEnd(c, "grow_pause", "grow_create", num[c])

\* CreateThread: a detached thread with a ThreadFunctor of its own.
CreateThread(c) ==
    /\ At(c, "grow_create", "grow_count")
    /\ i[c] < num[c]
    /\ \E w \in Workers : Move(w, "none", "register")
    /\ UNCHANGED <<queueVars, task, poolVars, loopVars>>

GrowCount(c) ==
    /\ At(c, "grow_count", "grow_create")
    /\ m_num_of_threads' = m_num_of_threads + 1
    /\ i' = [i EXCEPT ![c] = @ + 1]
    /\ UNCHANGED <<queueVars, workerVars, m_is_paused, m_map, m_mutex, num, history>>

GrowReturn(c) == LoopEnd(c, "grow_create", "idle", num[c])

ShrinkAdd(c) ==
    /\ At(c, "shrink_add", "shrink_count")
    /\ i[c] < num[c]
    /\ QueueNew(DeleteTasks)
    /\ UNCHANGED <<workerVars, poolVars, loopVars>>

\* The DeleteTask will decrement the count once more.
ShrinkCount(c) ==
    /\ At(c, "shrink_count", "shrink_add")
    /\ m_num_of_threads' = m_num_of_threads - 1
    /\ shrunk' = shrunk + 1
    /\ i' = [i EXCEPT ![c] = @ + 1]
    /\ UNCHANGED <<queueVars, workerVars, m_is_paused, m_map, m_mutex, num, late>>

ShrinkReturn(c) == LoopEnd(c, "shrink_add", "idle", num[c])

StopHolding(c, owner) ==
    /\ Begin(c, "Stop", "stop_add")
    /\ RoomFor(DeleteTasks, m_num_of_threads)
    /\ m_mutex = NoOne
    /\ m_mutex' = owner
    /\ NotifyAllPaused
    /\ UNCHANGED <<queueVars, task, m_is_paused, m_num_of_threads, m_map, loopVars>>

\* Mutant of Stop: the lock is released before the DeleteTasks are queued.
StopUnlocked(c) == StopHolding(c, NoOne)

\* Stop: under m_mutex, wakes the paused and queues a DeleteTask per thread.
Stop(c) == StopHolding(c, c)

StopAdd(c) == QueueOne(c, "stop_add", DeleteTasks, m_num_of_threads)

\* Mutant of StopAdded: the loop ends one early.
StopAddedEarly(c) == LoopEnd(c, "stop_add", "stop_test", m_num_of_threads - 1)

\* The loop is over, m_mutex is held.
StopAdded(c) == LoopEnd(c, "stop_add", "stop_test", m_num_of_threads)

\* while (m_num_of_threads && timeout != m_stop_cv.wait_until(ul, timep)):
\* Stop returns or waits, and either releases m_mutex.
StopTest(c) ==
    /\ \/ cpc[c] = "stop_test"
       \/ cpc[c] = "stop_woken" /\ m_mutex = NoOne
    /\ m_mutex' = NoOne
    /\ cpc' = [cpc EXCEPT ![c] = IF m_num_of_threads = 0 THEN "idle" ELSE "stop_wait"]
    /\ UNCHANGED <<queueVars, workerVars, m_is_paused, m_num_of_threads, m_map, loopVars>>

\* wait_until answers timeout: Stop returns whatever the count is.
StopTimeout(c) ==
    /\ At(c, "stop_woken", "idle")
    /\ m_mutex = NoOne
    /\ UNCHANGED <<queueVars, workerVars, poolVars, loopVars>>

\* The deadline passes, or a spurious wakeup.
StopWake(c) ==
    /\ At(c, "stop_wait", "stop_woken")
    /\ UNCHANGED <<queueVars, workerVars, poolVars, loopVars>>

\* What a client does to complete a call that it made.
ClientStep(c) ==
    \/ PauseAdd(c) \/ PauseReturn(c) \/ ResumeNotify(c)
    \/ Diff(c) \/ GrowTest(c) \/ GrowPause(c)
    \/ CreateThread(c) \/ GrowCount(c) \/ GrowReturn(c)
    \/ ShrinkAdd(c) \/ ShrinkCount(c) \/ ShrinkReturn(c)
    \/ StopAdd(c) \/ StopAdded(c) \/ StopTest(c) \/ StopTimeout(c) \/ StopWake(c)

ClientCall(c) ==
    \/ AddTask(c) \/ Pause(c) \/ Resume(c) \/ Stop(c)
    \/ \E n \in Sizes : SetThreadNumber(c, n)

Next ==
    \/ \E w \in Workers : WorkerStep(w) \/ Spurious(w)
    \/ \E c \in Clients : ClientStep(c) \/ ClientCall(c)

Spec == Init /\ [][Next]_vars

\* Every thread of the program is scheduled, and a mutex that is free goes to
\* a thread that wants it.  Nobody has to call a member function.
Fairness ==
    /\ \A w \in Workers : WF_vars(WorkerStep(w))
    /\ \A c \in Clients : WF_vars(ClientStep(c))

FairSpec == Spec /\ Fairness

--------------------------------------------------------------------------------

\* The clients that are between CreateThread and ++m_num_of_threads.
Starting == {c \in Clients : cpc[c] = "grow_count"}

InPause(w) == wpc[w] \in {"pause_hold", "pause_wait", "pause_woken"}

\* Spurious wakeups end: two paused threads that are woken in turn for ever
\* could keep m_mutex from a third.
FewWakeups == <>[][\A w \in Workers : ~Spurious(w)]_vars

(***************************************************************************)
(* The places where the threads are agree with what they share.  A worker  *)
(* is in the queue's Dequeue or has a task of its own or neither; no task  *)
(* is in two places; m_map holds the threads that registered and did not   *)
(* execute a DeleteTask; m_mutex belongs to the one thread that is between *)
(* locking and unlocking it.                                               *)
(***************************************************************************)
Consistent ==
    /\ TypeOK
    /\ \A w \in Workers :
          /\ caller[w] # "out" <=> wpc[w] = "dequeue"
          /\ task[w] # NoTask <=> wpc[w] = "run" \/ InPause(w)
          /\ InPause(w) => task[w] \in PauseTasks
          /\ task[w] \notin m_pq
          /\ \A u \in Workers \ {w} : task[u] = task[w] => task[w] = NoTask
          /\ w \in m_map <=> wpc[w] \notin {"none", "register", "leave"}
          /\ m_mutex = w <=> wpc[w] = "pause_hold"
    /\ \A c \in Clients : m_mutex = c <=> cpc[c] \in {"stop_add", "stop_test"}

(***************************************************************************)
(* m_num_of_threads counts the threads, except that one is missing between *)
(* CreateThread and ++m_num_of_threads, and that each thread SetThreadNum- *)
(* ber takes off is taken off twice: by the call itself (cpp:51) and by    *)
(* the DeleteTask that it queues (cpp:173).                                *)
(***************************************************************************)
ThreadCount ==
    m_num_of_threads + shrunk + Cardinality(Starting) = Cardinality(Counted)

(***************************************************************************)
(* A worker that executes a DeleteTask is in m_map, so the iterator that   *)
(* DeleteTask::operator() dereferences without a check is valid (cpp:167). *)
(***************************************************************************)
DeleteFindsWorker ==
    \A w \in Workers : wpc[w] = "run" /\ task[w] \in DeleteTasks => w \in m_map

(***************************************************************************)
(* "all threads are dead" (cpp:101): when a Stop returns because the count *)
(* is 0, every thread has left and every user task has been executed, but  *)
(* for those added when each thread that was left had its DeleteTask in    *)
(* hand: a DeleteTask is served last (cpp:10).  This holds whatever calls  *)
(* came before, other Stops that ran out of time among them, of a pool     *)
(* that was not shrunk (cpp:51,173) and that no client is adding threads   *)
(* to at that moment.                                                      *)
(***************************************************************************)
StopReturns(c) ==
    /\ cpc[c] \in {"stop_test", "stop_woken"} /\ cpc'[c] = "idle"
    /\ m_num_of_threads = 0

Drained ==
    /\ Counted = {}
    /\ m_pq \intersect Tasks \subseteq late
    /\ \A w \in Workers : task[w] \notin Tasks

StopDrains ==
    [][(\E c \in Clients : StopReturns(c)) /\ shrunk = 0 /\ Starting = {} => Drained]_vars

(***************************************************************************)
(* A pause reaches every thread: when Pause or SetThreadNumber has         *)
(* returned and Resume was not called, there is a PauseTask, queued or in  *)
(* a worker's hands, for every thread but those that were taken off twice. *)
(* For one client.                                                         *)
(***************************************************************************)
PauseCovers ==
    m_is_paused /\ (\A c \in Clients : cpc[c] = "idle") =>
        Cardinality(Counted) <= Cardinality(m_pq \intersect PauseTasks)
                                + Cardinality({w \in Workers : task[w] \in PauseTasks})
                                + shrunk

(***************************************************************************)
(* A pool that stays paused while no more user tasks come to the queue     *)
(* comes to rest with every thread in LockCV, whatever spurious wakeups    *)
(* there were.  For a pool that was not shrunk: the threads that a shrink  *)
(* takes off twice (cpp:51,173) get no PauseTask from a later Pause.       *)
(***************************************************************************)
PauseQuiesces ==
    FewWakeups /\ <>[](m_is_paused /\ m_pq \intersect Tasks = {} /\ shrunk = 0)
        => <>[](\A w \in Counted : InPause(w))

(***************************************************************************)
(* Once Stop has queued its DeleteTasks every thread ends, whether or not  *)
(* the caller still waits for it and whatever it calls after a Stop that   *)
(* ran out of time, but for the threads that wait in LockCV: a paused pool *)
(* has none left that works.  Unless the client adds threads meanwhile.    *)
(* For a pool that was not shrunk, and callers that do not pass a task of  *)
(* a smaller number to it for ever.                                        *)
(***************************************************************************)
FewUrgentTasks == <>[][\A c \in Clients : ~AddTask(c) /\ ~Pause(c)]_vars

StopKillsAll ==
    FewWakeups /\ FewUrgentTasks => \A c \in Clients :
        cpc[c] = "stop_test" /\ shrunk = 0
            ~> (\A w \in Counted : InPause(w)) \/ cpc[c] = "grow"

(***************************************************************************)
(* For the callers the pool is an executor: a task that was added is       *)
(* started once, not before one with a smaller number that is waiting,     *)
(* and finished; and while tasks are waiting some are started, if it has a *)
(* thread that is not leaving, no thread is paused for good and nobody     *)
(* goes on calling Stop, which holds m_mutex.                              *)
(***************************************************************************)
Executor == INSTANCE Executor
    WITH Number  <- TaskPriority,
         pending <- m_pq \intersect Tasks,
         running <- {x \in Tasks : \E w \in Workers : task[w] = x}

ImplementsExecutorSafely == Executor!Spec

FewStops == <>[][\A c \in Clients : ~Stop(c)]_vars

ImplementsExecutor ==
    /\ Executor!Spec
    /\ FewStops /\ <>[](~Leaving /\ \A w \in Workers : ~InPause(w))
        => Executor!Fairness
================================================================================
