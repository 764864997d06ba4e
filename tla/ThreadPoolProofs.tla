---------------------------- MODULE ThreadPoolProofs ----------------------------
(***************************************************************************)
(* Theorems about ThreadPool for any number of threads, clients and tasks. *)
(***************************************************************************)
EXTENDS ThreadPool, FiniteSetTheorems, TLAPS

USE DEF WorkerStates, ClientStates, m_wq!CallerStates

(***************************************************************************)
(* What queueing a fresh object does to the queue and its consumers.       *)
(***************************************************************************)
LEMMA QueueNewStep ==
    ASSUME Consistent, NEW S \in SUBSET AllTasks, QueueNew(S)
    PROVE  /\ \E x \in Unused(S) : m_pq' = m_pq \union {x}
           /\ m_pq' \subseteq AllTasks
           /\ caller' \in [Workers -> m_wq!CallerStates]
           /\ \A w \in Workers : caller'[w] = "out" <=> caller[w] = "out"
           /\ \A w \in Workers : task[w] \notin m_pq'
<1>1. PICK x \in Unused(S) : m_wq!Enqueue(x)
  BY DEF QueueNew
<1>2. m_pq' = m_pq \union {x} /\ x \in AllTasks
  BY <1>1 DEF Unused, m_wq!Enqueue
<1>3. /\ caller' \in [Workers -> m_wq!CallerStates]
      /\ \A w \in Workers : caller'[w] = "out" <=> caller[w] = "out"
  BY <1>1 DEF m_wq!Enqueue, m_wq!NotifyOne, m_wq!Waiting, Consistent, TypeOK, m_wq!TypeOK
<1>4. \A w \in Workers : task[w] \notin m_pq'
  BY <1>2 DEF Unused, Consistent
<1> QED
  BY <1>2, <1>3, <1>4 DEF Consistent, TypeOK, m_wq!TypeOK

(***************************************************************************)
(* The two loops that the clients share keep the invariant.                *)
(***************************************************************************)
LEMMA QueueOneConsistent ==
    ASSUME Consistent, NEW c \in Clients, NEW S \in SUBSET AllTasks, NEW n, NEW p \in ClientStates,
           QueueOne(c, p, S, n)
    PROVE  Consistent'
<1>1. QueueNew(S)
  BY DEF QueueOne
<1>2. cpc' = cpc
  BY DEF QueueOne, At, Consistent, TypeOK
<1> QED
  BY <1>1, <1>2, QueueNewStep
  DEF QueueOne, workerVars, poolVars, history, Consistent, TypeOK, m_wq!TypeOK, InPause

\* AddTask queues a user task, and records whether it is late.
LEMMA AddTaskQueues ==
    ASSUME NEW c \in Clients, AddTask(c)
    PROVE  QueueNew(Tasks) /\ (late \subseteq Tasks => late' \subseteq Tasks)
<1>1. PICK x \in Unused(Tasks) :
         m_wq!Enqueue(x) /\ late' = IF Leaving THEN late \union {x} ELSE late \ {x}
  BY DEF AddTask
<1>2. x \in Tasks
  BY DEF Unused
<1> QED
  BY <1>1, <1>2 DEF QueueNew

THEOREM PoolConsistent == Spec => []Consistent
<1>1. Init => Consistent
  <2>1. Cardinality(InitialWorkers) \in Nat
    BY PoolAssumption, FS_Subset, FS_CardinalityType DEF PoolAssumption
  <2> SUFFICES ASSUME Init PROVE Consistent
    OBVIOUS
  <2> USE PoolAssumption DEF PoolAssumption, Init, AllTasks, m_wq!Init
  <2>2. TypeOK
    <3>1. m_wq!TypeOK
      BY DEF m_wq!TypeOK
    <3>2. wpc \in [Workers -> WorkerStates] /\ task \in [Workers -> AllTasks \union {NoTask}]
      OBVIOUS
    <3>3. /\ cpc \in [Clients -> ClientStates] /\ i \in [Clients -> Nat]
          /\ num \in [Clients -> Int] /\ shrunk \in Nat
      OBVIOUS
    <3>4. /\ m_is_paused \in BOOLEAN /\ m_num_of_threads \in Int /\ m_map \subseteq Workers
          /\ m_mutex \in Workers \union Clients \union {NoOne}
      <4>1. m_num_of_threads \in Int
        BY <2>1
      <4>2. m_is_paused \in BOOLEAN
        OBVIOUS
      <4> QED
        BY <4>1, <4>2
    <3> QED
      BY <3>1, <3>2, <3>3, <3>4 DEF TypeOK
  <2>3. ASSUME NEW w \in Workers
        PROVE  /\ task[w] = NoTask /\ caller[w] = "out" /\ wpc[w] \in {"none", "register"}
               /\ w \notin m_map /\ m_mutex # w /\ m_pq = {}
    OBVIOUS
  <2>4. ASSUME NEW c \in Clients PROVE m_mutex # c /\ cpc[c] = "idle"
    OBVIOUS
  <2> QED
    BY <2>2, <2>3, <2>4 DEF Consistent, InPause
<1>2. Consistent /\ [Next]_vars => Consistent'
  <2> SUFFICES ASSUME Consistent, [Next]_vars PROVE Consistent'
    OBVIOUS
  <2> USE PoolAssumption DEF PoolAssumption, Consistent, TypeOK, m_wq!TypeOK, InPause, queueVars, workerVars, poolVars, history, loopVars
  <2>1. ASSUME NEW w \in Workers, Register(w) PROVE Consistent'
    BY <2>1 DEF Register, Move
  <2>2. ASSUME NEW w \in Workers, NextTask(w) PROVE Consistent'
    BY <2>2 DEF NextTask, Move, m_wq!Dequeue
  <2>3. ASSUME NEW w \in Workers, Exit(w) PROVE Consistent'
    BY <2>3 DEF Exit, Move
  <2>4. ASSUME NEW w \in Workers, WaitForTask(w) PROVE Consistent'
    BY <2>4 DEF WaitForTask, m_wq!Block, m_wq!Contending
  <2>5. ASSUME NEW w \in Workers, TakeTask(w) PROVE Consistent'
    BY <2>5 DEF TakeTask, Move, m_wq!Pop, m_wq!Top, m_wq!Contending, AllTasks
  <2>6. ASSUME NEW w \in Workers, RunTask(w) PROVE Consistent'
    BY <2>6 DEF RunTask, Move, Drop, AllTasks
  <2>7. ASSUME NEW w \in Workers, PauseTest(w) PROVE Consistent'
    BY <2>7 DEF PauseTest, InLockCV
  <2>8. ASSUME NEW w \in Workers, PauseWait(w) PROVE Consistent'
    BY <2>8 DEF PauseWait, Move
  <2>9. ASSUME NEW w \in Workers, PauseLeave(w) PROVE Consistent'
    BY <2>9 DEF PauseLeave, InLockCV, Drop, AllTasks
  <2>10. ASSUME NEW w \in Workers, DeleteSelf(w) PROVE Consistent'
    BY <2>10 DEF DeleteSelf, DeleteSelfThen, Move, NotifyStop, Drop, AllTasks
  <2>11. ASSUME NEW w \in Workers, Spurious(w) PROVE Consistent'
    BY <2>11 DEF Spurious, Move, m_wq!WakeUp
  <2>12. ASSUME NEW c \in Clients, AddTask(c) PROVE Consistent'
    <3>1. cpc' = cpc /\ Tasks \in SUBSET AllTasks
      BY <2>12 DEF AddTask, Begin, At, AllTasks
    <3>2. QueueNew(Tasks) /\ late' \subseteq Tasks
      BY <2>12, AddTaskQueues
    <3>3. UNCHANGED <<wpc, task, m_is_paused, m_num_of_threads, m_map, m_mutex, i, num, shrunk>>
      BY <2>12 DEF AddTask
    <3> QED
      BY <3>1, <3>2, <3>3, QueueNewStep
  <2>13. ASSUME NEW c \in Clients, Pause(c) PROVE Consistent'
    BY <2>13 DEF Pause, Begin, At
  <2>14. ASSUME NEW c \in Clients, PauseAdd(c) PROVE Consistent'
    BY <2>14, QueueOneConsistent DEF PauseAdd, AllTasks
  <2>15. ASSUME NEW c \in Clients, PauseReturn(c) PROVE Consistent'
    BY <2>15 DEF PauseReturn, LoopEnd, At
  <2>16. ASSUME NEW c \in Clients, Resume(c) PROVE Consistent'
    BY <2>16 DEF Resume, Begin, At
  <2>17. ASSUME NEW c \in Clients, ResumeNotify(c) PROVE Consistent'
    BY <2>17 DEF ResumeNotify, At, NotifyAllPaused
  <2>18. ASSUME NEW c \in Clients, NEW n \in Sizes, SetThreadNumber(c, n) PROVE Consistent'
    BY <2>18 DEF SetThreadNumber, Begin, At
  <2>19. ASSUME NEW c \in Clients, Diff(c) PROVE Consistent'
    BY <2>19 DEF Diff, At
  <2>20. ASSUME NEW c \in Clients, GrowTest(c) PROVE Consistent'
    BY <2>20 DEF GrowTest, At
  <2>21. ASSUME NEW c \in Clients, GrowPause(c) PROVE Consistent'
    <3>1. CASE QueueOne(c, "grow_pause", PauseTasks, num[c])
      BY <3>1, QueueOneConsistent DEF AllTasks
    <3>2. CASE LoopEnd(c, "grow_pause", "grow_create", num[c])
      BY <3>2 DEF LoopEnd, At
    <3> QED
      BY <2>21, <3>1, <3>2 DEF GrowPause
  <2>22. ASSUME NEW c \in Clients, CreateThread(c) PROVE Consistent'
    BY <2>22 DEF CreateThread, At, Move
  <2>23. ASSUME NEW c \in Clients, GrowCount(c) PROVE Consistent'
    BY <2>23 DEF GrowCount, At
  <2>24. ASSUME NEW c \in Clients, GrowReturn(c) PROVE Consistent'
    BY <2>24 DEF GrowReturn, LoopEnd, At
  <2>25. ASSUME NEW c \in Clients, ShrinkAdd(c) PROVE Consistent'
    <3>1. QueueNew(DeleteTasks) /\ DeleteTasks \in SUBSET AllTasks
      BY <2>25 DEF ShrinkAdd, AllTasks
    <3> QED
      BY <2>25, <3>1, QueueNewStep DEF ShrinkAdd, At
  <2>26. ASSUME NEW c \in Clients, ShrinkCount(c) PROVE Consistent'
    BY <2>26 DEF ShrinkCount, At
  <2>27. ASSUME NEW c \in Clients, ShrinkReturn(c) PROVE Consistent'
    BY <2>27 DEF ShrinkReturn, LoopEnd, At
  <2>28. ASSUME NEW c \in Clients, Stop(c) PROVE Consistent'
    BY <2>28 DEF Stop, StopHolding, Begin, At, NotifyAllPaused
  <2>29. ASSUME NEW c \in Clients, StopAdd(c) PROVE Consistent'
    BY <2>29, QueueOneConsistent DEF StopAdd, AllTasks
  <2>30. ASSUME NEW c \in Clients, StopAdded(c) PROVE Consistent'
    BY <2>30 DEF StopAdded, LoopEnd, At
  <2>31. ASSUME NEW c \in Clients, StopTest(c) PROVE Consistent'
    BY <2>31 DEF StopTest
  <2>32. ASSUME NEW c \in Clients, StopTimeout(c) \/ StopWake(c) PROVE Consistent'
    BY <2>32 DEF StopTimeout, StopWake, At
  <2>33. CASE UNCHANGED vars
    BY <2>33 DEF vars
  <2> QED
    BY <2>1, <2>2, <2>3, <2>4, <2>5, <2>6, <2>7, <2>8, <2>9, <2>10, <2>11, <2>12, <2>13,
       <2>14, <2>15, <2>16, <2>17, <2>18, <2>19, <2>20, <2>21, <2>22, <2>23, <2>24, <2>25,
       <2>26, <2>27, <2>28, <2>29, <2>30, <2>31, <2>32, <2>33
    DEF Next, WorkerStep, ClientStep, ClientCall
<1> QED
  BY <1>1, <1>2, PTL DEF Spec

(***************************************************************************)
(* A thread that executes a DeleteTask is in m_map, so find() succeeds     *)
(* (threadpool.cpp:167).                                                   *)
(***************************************************************************)
THEOREM DeleteFindsItsWorker == Spec => []DeleteFindsWorker
<1>1. Consistent => DeleteFindsWorker
  BY DEF Consistent, DeleteFindsWorker
<1> QED
  BY <1>1, PoolConsistent, PTL

--------------------------------------------------------------------------------

(***************************************************************************)
(* The sets of threads and clients that ThreadCount measures have a size.  *)
(***************************************************************************)
LEMMA CountsAreNumbers ==
    /\ IsFiniteSet(Counted) /\ Cardinality(Counted) \in Nat
    /\ IsFiniteSet(Starting) /\ Cardinality(Starting) \in Nat
<1>1. IsFiniteSet(Counted) /\ IsFiniteSet(Starting)
  BY PoolAssumption, FS_Subset DEF PoolAssumption, Counted, Starting
<1> QED
  BY <1>1, FS_CardinalityType

(***************************************************************************)
(* Only CreateThread, ++m_num_of_threads, --m_num_of_threads and the       *)
(* DeleteTask touch what ThreadCount relates.                              *)
(***************************************************************************)
CountVars == <<Counted, Starting, m_num_of_threads, shrunk>>

LEMMA OthersKeepCount ==
    ASSUME Consistent, [Next]_vars,
           \A c \in Clients : ~CreateThread(c) /\ ~GrowCount(c) /\ ~ShrinkCount(c),
           \A w \in Workers : ~DeleteSelf(w)
    PROVE  UNCHANGED CountVars
<1> USE DEF Consistent, TypeOK, m_wq!TypeOK, queueVars, workerVars, poolVars, history, loopVars, Counted, Starting, CountVars
<1>1. ASSUME NEW w \in Workers,
             Register(w) \/ NextTask(w) \/ Exit(w) \/ WaitForTask(w) \/ TakeTask(w) \/ RunTask(w)
      PROVE  UNCHANGED CountVars
  BY <1>1 DEF Register, NextTask, Exit, WaitForTask, TakeTask, RunTask, Move
<1>2. ASSUME NEW w \in Workers, PauseTest(w) \/ PauseWait(w) \/ PauseLeave(w) \/ Spurious(w)
      PROVE  UNCHANGED CountVars
  BY <1>2 DEF PauseTest, PauseWait, PauseLeave, Spurious, InLockCV, Move
<1>3. ASSUME NEW c \in Clients,
             \/ AddTask(c) \/ Pause(c) \/ PauseAdd(c) \/ PauseReturn(c)
             \/ \E n \in Sizes : SetThreadNumber(c, n)
      PROVE  UNCHANGED CountVars
  BY <1>3 DEF AddTask, Pause, PauseAdd, PauseReturn, SetThreadNumber, QueueOne, LoopEnd, Begin, At
<1>4. ASSUME NEW c \in Clients, Resume(c) \/ ResumeNotify(c) \/ Stop(c)
      PROVE  UNCHANGED CountVars
  BY <1>4 DEF Resume, ResumeNotify, Stop, StopHolding, NotifyAllPaused, Begin, At
<1>5. ASSUME NEW c \in Clients,
             \/ Diff(c) \/ GrowTest(c) \/ GrowPause(c) \/ GrowReturn(c)
             \/ ShrinkAdd(c) \/ ShrinkReturn(c)
      PROVE  UNCHANGED CountVars
  BY <1>5 DEF Diff, GrowTest, GrowPause, GrowReturn, ShrinkAdd, ShrinkReturn, QueueOne, LoopEnd, At
<1>6. ASSUME NEW c \in Clients,
             StopAdd(c) \/ StopAdded(c) \/ StopTest(c) \/ StopTimeout(c) \/ StopWake(c)
      PROVE  UNCHANGED CountVars
  BY <1>6 DEF StopAdd, StopAdded, StopTest, StopTimeout, StopWake, QueueOne, LoopEnd, At
<1>7. CASE UNCHANGED vars
  BY <1>7 DEF vars
<1> QED
  BY <1>1, <1>2, <1>3, <1>4, <1>5, <1>6, <1>7 DEF Next, WorkerStep, ClientStep, ClientCall

(***************************************************************************)
(* m_num_of_threads is the number of threads that have not executed a      *)
(* DeleteTask, except for those just created and those that were taken off *)
(* twice, for any number of clients and threads and whatever they call.    *)
(***************************************************************************)
THEOREM ThreadsAreCounted == Spec => []ThreadCount
<1>1. Init => ThreadCount
  <2> SUFFICES ASSUME Init PROVE ThreadCount
    OBVIOUS
  <2>1. Counted = InitialWorkers /\ Starting = {}
    BY PoolAssumption DEF Init, Counted, Starting, PoolAssumption
  <2>2. Cardinality(Starting) = 0
    BY <2>1, FS_EmptySet
  <2> QED
    BY <2>1, <2>2, CountsAreNumbers DEF Init, ThreadCount
<1>2. Consistent /\ ThreadCount /\ [Next]_vars => ThreadCount'
  <2> SUFFICES ASSUME Consistent, ThreadCount, [Next]_vars PROVE ThreadCount'
    OBVIOUS
  <2> USE CountsAreNumbers DEF Consistent, TypeOK
  <2>1. ASSUME NEW c \in Clients, CreateThread(c) PROVE ThreadCount'
    <3>1. PICK w \in Workers : Move(w, "none", "register")
      BY <2>1 DEF CreateThread
    <3>2. Counted' = Counted \union {w} /\ w \notin Counted
      BY <3>1 DEF Move, Counted
    <3>3. Starting' = Starting \union {c} /\ c \notin Starting
      BY <2>1 DEF CreateThread, At, Starting
    <3>4. /\ Cardinality(Counted') = Cardinality(Counted) + 1
          /\ Cardinality(Starting') = Cardinality(Starting) + 1
      BY <3>2, <3>3, FS_AddElement
    <3> QED
      BY <2>1, <3>4 DEF CreateThread, ThreadCount, poolVars, history, loopVars
  <2>2. ASSUME NEW c \in Clients, GrowCount(c) PROVE ThreadCount'
    <3>1. Counted' = Counted
      BY <2>2 DEF GrowCount, Counted, workerVars
    <3>2. Starting' = Starting \ {c} /\ c \in Starting
      BY <2>2 DEF GrowCount, At, Starting
    <3>3. Cardinality(Starting') = Cardinality(Starting) - 1
      BY <3>2, FS_RemoveElement
    <3> QED
      BY <2>2, <3>1, <3>3 DEF GrowCount, ThreadCount, history
  <2>3. ASSUME NEW c \in Clients, ShrinkCount(c) PROVE ThreadCount'
    <3>1. Counted' = Counted /\ Starting' = Starting
      BY <2>3 DEF ShrinkCount, At, Counted, Starting, workerVars
    <3> QED
      BY <2>3, <3>1 DEF ShrinkCount, ThreadCount
  <2>4. ASSUME NEW w \in Workers, DeleteSelf(w) PROVE ThreadCount'
    <3>1. Counted' = Counted \ {w} /\ w \in Counted
      BY <2>4 DEF DeleteSelf, DeleteSelfThen, Move, Counted
    <3>2. Starting' = Starting
      BY <2>4 DEF DeleteSelf, DeleteSelfThen, NotifyStop, Starting
    <3>3. Cardinality(Counted') = Cardinality(Counted) - 1
      BY <3>1, FS_RemoveElement
    <3> QED
      BY <2>4, <3>2, <3>3 DEF DeleteSelf, DeleteSelfThen, ThreadCount, history, loopVars
  <2>5. CASE UNCHANGED CountVars
    BY <2>5 DEF CountVars, ThreadCount
  <2> QED
    BY <2>1, <2>2, <2>3, <2>4, <2>5, OthersKeepCount
<1> QED
  BY <1>1, <1>2, PoolConsistent, PTL DEF Spec

--------------------------------------------------------------------------------

(***************************************************************************)
(* Stop drains the queue.  A DeleteTask leaves the queue after every user  *)
(* task, and a thread that drops a user task or a PauseTask comes back     *)
(* for another one; so once each thread that is left has its DeleteTask in *)
(* hand, the user tasks that are queued were added after that.             *)
(***************************************************************************)
OnlyLateTasks == Leaving => m_pq \intersect Tasks \subseteq late

(***************************************************************************)
(* A DeleteTask is at the top only if no user task is in the queue.        *)
(***************************************************************************)
LEMMA DeleteTaskIsLast ==
    ASSUME m_pq \subseteq AllTasks, NEW x \in DeleteTasks, x \in m_wq!Top
    PROVE  m_pq \intersect Tasks = {}
<1> SUFFICES ASSUME NEW y \in m_pq \intersect Tasks PROVE FALSE
  OBVIOUS
<1>1. x \in AllTasks /\ y \in AllTasks
  BY DEF AllTasks
<1>2. GetPriority(x) = 5
  BY PoolAssumption DEF PoolAssumption, GetPriority
<1>3. GetPriority(y) \in 0 .. 2
  BY PoolAssumption DEF PoolAssumption, GetPriority
<1>4. <<x, y>> \in CompareFunctor
  BY <1>1, <1>2, <1>3 DEF CompareFunctor
<1> QED
  BY <1>4 DEF m_wq!Top

LEMMA OnlyLateTasksNext ==
    ASSUME Consistent, OnlyLateTasks, [Next]_vars
    PROVE  OnlyLateTasks'
<1> USE PoolAssumption DEF PoolAssumption, Consistent, TypeOK, m_wq!TypeOK, InPause,
        OnlyLateTasks, Leaving, Counted, queueVars, workerVars, poolVars, history, loopVars
<1>1. ASSUME NEW w \in Workers,
             \/ Register(w) \/ NextTask(w) \/ Exit(w) \/ WaitForTask(w)
             \/ PauseTest(w) \/ PauseWait(w) \/ Spurious(w)
      PROVE  OnlyLateTasks'
  BY <1>1 DEF Register, NextTask, Exit, WaitForTask, PauseTest, PauseWait, Spurious, Move, InLockCV,
              m_wq!Dequeue, m_wq!Block, m_wq!WakeUp
<1>2. ASSUME NEW w \in Workers, TakeTask(w) PROVE OnlyLateTasks'
  <2>1. PICK x \in AllTasks : m_wq!Pop(w, x) /\ task' = [task EXCEPT ![w] = x]
    BY <1>2 DEF TakeTask
  <2>2. m_pq' = m_pq \ {x} /\ x \in m_wq!Top
    BY <2>1 DEF m_wq!Pop
  <2>3. CASE x \in DeleteTasks
    BY <2>2, <2>3, DeleteTaskIsLast
  <2>4. CASE x \notin DeleteTasks
    <3>1. w \in Counted' /\ task'[w] = x
      BY <1>2, <2>1 DEF TakeTask, Move
    <3> QED
      BY <2>4, <3>1
  <2> QED
    BY <2>3, <2>4
<1>3. ASSUME NEW w \in Workers, RunTask(w) \/ PauseLeave(w) PROVE OnlyLateTasks'
  <2>1. w \in Counted' /\ task'[w] = NoTask
    BY <1>3 DEF RunTask, PauseLeave, Move, Drop
  <2> QED
    BY <2>1
<1>4. ASSUME NEW w \in Workers, DeleteSelf(w) PROVE OnlyLateTasks'
  <2>1. /\ task[w] \in DeleteTasks /\ wpc' = [wpc EXCEPT ![w] = "leave"]
        /\ task' = [task EXCEPT ![w] = NoTask] /\ UNCHANGED <<m_pq, late>>
    BY <1>4 DEF DeleteSelf, DeleteSelfThen, Move, Drop
  <2>2. Leaving' => Leaving
    BY <2>1
  <2> QED
    BY <2>1, <2>2
<1>5. ASSUME NEW c \in Clients, AddTask(c) PROVE OnlyLateTasks'
  <2>1. PICK x \in Unused(Tasks) :
           /\ m_pq' = m_pq \union {x} /\ UNCHANGED <<wpc, task>>
           /\ late' = IF Leaving THEN late \union {x} ELSE late \ {x}
    BY <1>5 DEF AddTask, m_wq!Enqueue
  <2> QED
    BY <2>1
<1>6. ASSUME NEW c \in Clients,
             \/ PauseAdd(c) \/ QueueOne(c, "grow_pause", PauseTasks, num[c])
             \/ ShrinkAdd(c) \/ StopAdd(c)
      PROVE  OnlyLateTasks'
  <2>1. PICK x \in PauseTasks \union DeleteTasks :
           m_pq' = m_pq \union {x} /\ UNCHANGED <<wpc, task, late>>
    BY <1>6 DEF PauseAdd, ShrinkAdd, StopAdd, QueueOne, QueueNew, Unused, m_wq!Enqueue
  <2> QED
    BY <2>1
<1>7. ASSUME NEW c \in Clients, CreateThread(c) PROVE OnlyLateTasks'
  <2>1. PICK w \in Workers : Move(w, "none", "register") /\ task' = task
    BY <1>7 DEF CreateThread
  <2>2. w \in Counted' /\ task'[w] = NoTask
    BY <2>1 DEF Move
  <2> QED
    BY <2>2
<1>8. ASSUME NEW c \in Clients, ResumeNotify(c) \/ Stop(c) PROVE OnlyLateTasks'
  <2>1. Counted' = Counted /\ UNCHANGED <<task, m_pq, late>>
    BY <1>8 DEF ResumeNotify, Stop, StopHolding, NotifyAllPaused
  <2> QED
    BY <2>1
<1>9. ASSUME NEW c \in Clients,
             \/ Pause(c) \/ PauseReturn(c) \/ Resume(c)
             \/ \E n \in Sizes : SetThreadNumber(c, n)
             \/ Diff(c) \/ GrowTest(c) \/ LoopEnd(c, "grow_pause", "grow_create", num[c])
             \/ GrowCount(c) \/ GrowReturn(c) \/ ShrinkCount(c) \/ ShrinkReturn(c)
             \/ StopAdded(c) \/ StopTest(c) \/ StopTimeout(c) \/ StopWake(c)
      PROVE  OnlyLateTasks'
  BY <1>9 DEF Pause, PauseReturn, Resume, SetThreadNumber, Diff, GrowTest, GrowCount, GrowReturn,
              ShrinkCount, ShrinkReturn, StopAdded, StopTest, StopTimeout, StopWake, LoopEnd
<1>10. CASE UNCHANGED vars
  BY <1>10 DEF vars
<1> QED
  BY <1>1, <1>2, <1>3, <1>4, <1>5, <1>6, <1>7, <1>8, <1>9, <1>10
  DEF Next, WorkerStep, ClientStep, ClientCall, GrowPause

(***************************************************************************)
(* When a Stop returns because the count is 0, every thread has left and   *)
(* every user task was executed but those that came when all threads were  *)
(* leaving (threadpool.cpp:10,86-102), for any number of clients and       *)
(* whatever they called before, in a pool that was not shrunk and is not   *)
(* growing.                                                                *)
(***************************************************************************)
THEOREM StopDrainsThePool == Spec => StopDrains
<1>1. Init => OnlyLateTasks
  BY DEF Init, m_wq!Init, OnlyLateTasks
<1>2. Consistent /\ OnlyLateTasks /\ [Next]_vars => OnlyLateTasks'
  BY OnlyLateTasksNext
<1>3. ASSUME Consistent, ThreadCount, OnlyLateTasks,
             m_num_of_threads = 0, shrunk = 0, Starting = {}
      PROVE  Drained
  <2>1. Cardinality(Counted) = 0
    BY <1>3, FS_EmptySet, CountsAreNumbers DEF ThreadCount
  <2>2. Counted = {}
    BY <2>1, CountsAreNumbers, FS_EmptySet
  <2>3. \A w \in Workers : task[w] \notin Tasks
    BY <1>3, <2>2, PoolAssumption DEF Counted, Consistent, InPause, PoolAssumption
  <2> QED
    BY <1>3, <2>2, <2>3 DEF Drained, OnlyLateTasks, Leaving
<1>4. Consistent /\ ThreadCount /\ OnlyLateTasks
      => [(\E c \in Clients : StopReturns(c)) /\ shrunk = 0 /\ Starting = {} => Drained]_vars
  BY <1>3 DEF StopReturns
<1> QED
  BY <1>1, <1>2, <1>4, PoolConsistent, ThreadsAreCounted, PTL DEF Spec, StopDrains

--------------------------------------------------------------------------------

(***************************************************************************)
(* A pause reaches every thread: the argument for one client.  A thread    *)
(* drops its PauseTask only while the pool is not paused, and taking one   *)
(* moves it from the queue to a hand, so while the pool is paused their    *)
(* number only grows.                                                      *)
(***************************************************************************)
Queued == m_pq \intersect PauseTasks

Held == {w \in Workers : task[w] \in PauseTasks}

Pausing == Cardinality(Queued) + Cardinality(Held)

LEMMA PausingIsNumber ==
    /\ IsFiniteSet(Queued) /\ Cardinality(Queued) \in Nat
    /\ IsFiniteSet(Held) /\ Cardinality(Held) \in Nat
    /\ Pausing \in Nat
<1>1. IsFiniteSet(Queued) /\ IsFiniteSet(Held)
  BY PoolAssumption, FS_Subset, FS_Intersection DEF PoolAssumption, Queued, Held
<1> QED
  BY <1>1, FS_CardinalityType DEF Pausing

\* QueueOne draws a PauseTask that is nowhere.
LEMMA PausingGrows ==
    ASSUME NEW c, NEW p, NEW n, QueueOne(c, p, PauseTasks, n)
    PROVE  Pausing' = Pausing + 1
<1>1. PICK x \in PauseTasks : x \notin m_pq /\ m_pq' = m_pq \union {x}
  BY DEF QueueOne, QueueNew, Unused, m_wq!Enqueue
<1>2. Queued' = Queued \union {x} /\ x \notin Queued
  BY <1>1 DEF Queued
<1>3. Held' = Held
  BY DEF QueueOne, Held, workerVars
<1>4. Cardinality(Queued') = Cardinality(Queued) + 1
  BY <1>2, PausingIsNumber, FS_AddElement
<1> QED
  BY <1>3, <1>4, PausingIsNumber DEF Pausing

\* Dequeue moves a PauseTask from the queue into the hands of a thread.
LEMMA PausingMoves ==
    ASSUME Consistent, NEW w \in Workers, TakeTask(w)
    PROVE  Pausing' = Pausing
<1> USE PoolAssumption DEF PoolAssumption, Consistent, TypeOK
<1>1. PICK x \in AllTasks : m_wq!Pop(w, x) /\ task' = [task EXCEPT ![w] = x]
  BY DEF TakeTask
<1>2. m_pq' = m_pq \ {x} /\ x \in m_pq
  BY <1>1 DEF m_wq!Pop, m_wq!Top
<1>3. task[w] = NoTask
  BY DEF TakeTask, Move, InPause
<1>4. CASE x \in PauseTasks
  <2>1. Queued' = Queued \ {x} /\ x \in Queued
    BY <1>2, <1>4 DEF Queued
  <2>2. Held' = Held \union {w} /\ w \notin Held
    BY <1>1, <1>3, <1>4 DEF Held
  <2>3. Cardinality(Queued') = Cardinality(Queued) - 1
    BY <2>1, PausingIsNumber, FS_RemoveElement
  <2>4. Cardinality(Held') = Cardinality(Held) + 1
    BY <2>2, PausingIsNumber, FS_AddElement
  <2> QED
    BY <2>3, <2>4, PausingIsNumber DEF Pausing
<1>5. CASE x \notin PauseTasks
  <2>1. Queued' = Queued
    BY <1>2, <1>5 DEF Queued
  <2>2. Held' = Held
    BY <1>1, <1>3, <1>5 DEF Held
  <2> QED
    BY <2>1, <2>2 DEF Pausing
<1> QED
  BY <1>4, <1>5

LEMMA PausingKept ==
    ASSUME Consistent, [Next]_vars,
           \A w \in Workers : ~PauseLeave(w),
           \A c \in Clients : ~PauseAdd(c) /\ ~QueueOne(c, "grow_pause", PauseTasks, num[c])
    PROVE  Pausing' = Pausing
<1> USE PoolAssumption DEF PoolAssumption, Consistent, TypeOK, queueVars, workerVars, poolVars, history, loopVars
<1> SUFFICES ASSUME \A w \in Workers : ~TakeTask(w) PROVE Queued' = Queued /\ Held' = Held
  BY PausingMoves DEF Pausing
<1>1. ASSUME NEW w \in Workers,
             \/ Register(w) \/ NextTask(w) \/ Exit(w) \/ WaitForTask(w)
             \/ PauseTest(w) \/ PauseWait(w) \/ Spurious(w)
      PROVE  Queued' = Queued /\ Held' = Held
  BY <1>1 DEF Register, NextTask, Exit, WaitForTask, PauseTest, PauseWait, Spurious,
              m_wq!Dequeue, m_wq!Block, m_wq!WakeUp, Queued, Held
<1>2. ASSUME NEW w \in Workers, RunTask(w) \/ DeleteSelf(w)
      PROVE  Queued' = Queued /\ Held' = Held
  <2>1. task[w] \notin PauseTasks /\ task' = [task EXCEPT ![w] = NoTask] /\ m_pq' = m_pq
    BY <1>2 DEF RunTask, DeleteSelf, DeleteSelfThen, Drop
  <2> QED
    BY <2>1 DEF Queued, Held
<1>3. ASSUME NEW c \in Clients, AddTask(c) \/ ShrinkAdd(c) \/ StopAdd(c)
      PROVE  Queued' = Queued /\ Held' = Held
  <2>1. PICK x \in Tasks \union DeleteTasks : m_pq' = m_pq \union {x} /\ task' = task
    BY <1>3 DEF AddTask, ShrinkAdd, StopAdd, QueueOne, QueueNew, Unused, m_wq!Enqueue
  <2> QED
    BY <2>1 DEF Queued, Held
<1>4. ASSUME NEW c \in Clients,
             \/ Pause(c) \/ PauseReturn(c) \/ Resume(c) \/ ResumeNotify(c)
             \/ \E n \in Sizes : SetThreadNumber(c, n)
             \/ Diff(c) \/ GrowTest(c) \/ LoopEnd(c, "grow_pause", "grow_create", num[c])
             \/ CreateThread(c) \/ GrowCount(c) \/ GrowReturn(c)
      PROVE  Queued' = Queued /\ Held' = Held
  BY <1>4 DEF Pause, PauseReturn, Resume, ResumeNotify, SetThreadNumber, Diff, GrowTest,
              CreateThread, GrowCount, GrowReturn, LoopEnd, Queued, Held
<1>5. ASSUME NEW c \in Clients,
             \/ ShrinkCount(c) \/ ShrinkReturn(c) \/ Stop(c) \/ StopAdded(c)
             \/ StopTest(c) \/ StopTimeout(c) \/ StopWake(c)
      PROVE  Queued' = Queued /\ Held' = Held
  BY <1>5 DEF ShrinkCount, ShrinkReturn, Stop, StopHolding, StopAdded, StopTest, StopTimeout,
              StopWake, LoopEnd, Queued, Held
<1>6. CASE UNCHANGED vars
  BY <1>6 DEF vars, Queued, Held
<1> QED
  BY <1>1, <1>2, <1>3, <1>4, <1>5, <1>6 DEF Next, WorkerStep, ClientStep, ClientCall, GrowPause

(***************************************************************************)
(* What the PauseTasks of a paused pool are enough for: the threads that   *)
(* are counted, but for those that the loop of Pause still has to come to, *)
(* and the threads that SetThreadNumber is going to create.                *)
(***************************************************************************)
Looping == {"pause", "grow_pause", "grow_create", "grow_count",
            "shrink_add", "shrink_count", "stop_add"}

Covered(c) ==
    /\ cpc[c] \notin Looping => i[c] = 0
    /\ cpc[c] = "grow_count" => i[c] < num[c]
    /\ m_is_paused =>
         /\ cpc[c] # "resume"
         /\ IF cpc[c] = "pause" THEN i[c] <= Pausing ELSE m_num_of_threads <= Pausing
         /\ cpc[c] = "grow_pause" => m_num_of_threads + i[c] <= Pausing
         /\ cpc[c] \in {"grow_create", "grow_count"} =>
                m_num_of_threads + num[c] - i[c] <= Pausing

LEMMA CoveredNext ==
    ASSUME NEW c \in Clients, Clients = {c}, Consistent, Covered(c), [Next]_vars
    PROVE  Covered(c)'
<1> USE PausingIsNumber DEF Consistent, TypeOK, Covered, Looping,
        queueVars, workerVars, poolVars, history, loopVars
<1>1. ASSUME NEW w \in Workers, PauseLeave(w) PROVE Covered(c)'
  BY <1>1 DEF PauseLeave
<1>2. CASE PauseAdd(c)
  <2>1. Pausing' = Pausing + 1
    BY <1>2, PausingGrows DEF PauseAdd
  <2>2. /\ cpc[c] = "pause" /\ cpc' = cpc /\ i[c] < m_num_of_threads
        /\ i' = [i EXCEPT ![c] = @ + 1] /\ UNCHANGED <<num, m_is_paused>>
    BY <1>2 DEF PauseAdd, QueueOne, At
  <2> QED
    BY <2>1, <2>2
<1>3. CASE QueueOne(c, "grow_pause", PauseTasks, num[c])
  <2>1. Pausing' = Pausing + 1
    BY <1>3, PausingGrows
  <2>2. /\ cpc[c] = "grow_pause" /\ cpc' = cpc
        /\ i' = [i EXCEPT ![c] = @ + 1] /\ UNCHANGED <<num, m_is_paused, m_num_of_threads>>
    BY <1>3 DEF QueueOne, At
  <2> QED
    BY <2>1, <2>2
<1>4. SUFFICES ASSUME Pausing' = Pausing PROVE Covered(c)'
  BY <1>1, <1>2, <1>3, PausingKept
<1>5. ASSUME NEW w \in Workers, WorkerStep(w) \/ Spurious(w), ~PauseLeave(w), ~DeleteSelf(w)
      PROVE  Covered(c)'
  <2>1. UNCHANGED <<m_is_paused, m_num_of_threads, cpc, i, num>>
    BY <1>5 DEF WorkerStep, Spurious, Register, NextTask, Exit, WaitForTask, TakeTask, RunTask,
                PauseTest, PauseWait
  <2> QED
    BY <1>4, <2>1
<1>6. ASSUME NEW w \in Workers, DeleteSelf(w) PROVE Covered(c)'
  <2>1. /\ m_num_of_threads' = m_num_of_threads - 1
        /\ UNCHANGED <<m_is_paused, i, num>>
    BY <1>6 DEF DeleteSelf, DeleteSelfThen
  <2>2. cpc' = cpc \/ (cpc[c] = "stop_wait" /\ cpc'[c] = "stop_woken")
    BY <1>6 DEF DeleteSelf, DeleteSelfThen, NotifyStop
  <2> QED
    BY <1>4, <2>1, <2>2
<1>7. CASE Pause(c) \/ Resume(c) \/ ResumeNotify(c) \/ AddTask(c)
  BY <1>4, <1>7 DEF Pause, Resume, ResumeNotify, AddTask, Begin, At
<1>8. CASE PauseReturn(c)
  BY <1>4, <1>8 DEF PauseReturn, LoopEnd, At
<1>9. CASE (\E n \in Sizes : SetThreadNumber(c, n)) \/ Diff(c)
  BY <1>4, <1>9 DEF SetThreadNumber, Diff, Begin, At
<1>10. CASE GrowTest(c)
  BY <1>4, <1>10 DEF GrowTest, At
<1>11. CASE LoopEnd(c, "grow_pause", "grow_create", num[c])
  BY <1>4, <1>11 DEF LoopEnd, At
<1>12. CASE CreateThread(c) \/ GrowCount(c)
  BY <1>4, <1>12 DEF CreateThread, GrowCount, At
<1>13. CASE GrowReturn(c) \/ ShrinkReturn(c) \/ StopAdded(c)
  BY <1>4, <1>13 DEF GrowReturn, ShrinkReturn, StopAdded, LoopEnd, At
<1>14. CASE ShrinkAdd(c) \/ ShrinkCount(c)
  BY <1>4, <1>14 DEF ShrinkAdd, ShrinkCount, At
<1>15. CASE Stop(c) \/ StopAdd(c) \/ StopTest(c) \/ StopTimeout(c) \/ StopWake(c)
  BY <1>4, <1>15 DEF Stop, StopHolding, StopAdd, QueueOne, StopTest, StopTimeout, StopWake, Begin, At
<1>16. CASE UNCHANGED vars
  BY <1>4, <1>16 DEF vars
<1> QED
  BY <1>1, <1>2, <1>3, <1>5, <1>6, <1>7, <1>8, <1>9, <1>10, <1>11, <1>12, <1>13, <1>14, <1>15, <1>16
  DEF Next, ClientStep, ClientCall, GrowPause

(***************************************************************************)
(* When Pause or SetThreadNumber has returned there is a PauseTask for     *)
(* each thread, but for those that SetThreadNumber took off twice          *)
(* (threadpool.cpp:106-112, 30-47), for a client that is the only one.     *)
(***************************************************************************)
THEOREM PauseReachesAll ==
    ASSUME NEW c \in Clients, Clients = {c}
    PROVE  Spec => []PauseCovers
<1>1. Init => Covered(c)
  BY DEF Init, Covered, Looping
<1>2. Consistent /\ Covered(c) /\ [Next]_vars => Covered(c)'
  BY CoveredNext
<1>3. Consistent /\ ThreadCount /\ Covered(c) => PauseCovers
  <2> SUFFICES ASSUME Consistent, ThreadCount, Covered(c), m_is_paused, cpc[c] = "idle"
               PROVE  Cardinality(Counted) <= Pausing + shrunk
    BY DEF PauseCovers, Pausing, Queued, Held
  <2>1. Starting = {}
    BY DEF Starting
  <2>2. m_num_of_threads + shrunk = Cardinality(Counted)
    BY <2>1, FS_EmptySet, CountsAreNumbers DEF ThreadCount, Consistent, TypeOK
  <2> QED
    BY <2>2, CountsAreNumbers, PausingIsNumber DEF Covered, Consistent, TypeOK
<1> QED
  BY <1>1, <1>2, <1>3, PoolConsistent, ThreadsAreCounted, PTL DEF Spec

--------------------------------------------------------------------------------

(***************************************************************************)
(* A user task at the top has the smallest number among those queued.      *)
(***************************************************************************)
LEMMA SmallestIsFirst ==
    ASSUME m_pq \subseteq AllTasks, NEW x \in Tasks, x \in m_wq!Top, NEW y \in m_pq \intersect Tasks
    PROVE  TaskPriority[x] <= TaskPriority[y]
<1>1. x \in AllTasks /\ y \in AllTasks /\ <<x, y>> \notin CompareFunctor
  BY DEF AllTasks, m_wq!Top
<1>2. ~(GetPriority(x) > GetPriority(y))
  BY <1>1 DEF CompareFunctor
<1>3. GetPriority(x) = TaskPriority[x] /\ GetPriority(y) = TaskPriority[y]
  BY PoolAssumption DEF PoolAssumption, GetPriority
<1>4. TaskPriority[x] \in 0 .. 2 /\ TaskPriority[y] \in 0 .. 2
  BY PoolAssumption DEF PoolAssumption
<1> QED
  BY <1>2, <1>3, <1>4

Pending == m_pq \intersect Tasks

Running == {x \in Tasks : \E w \in Workers : task[w] = x}

(***************************************************************************)
(* What a step does to the tasks that are queued and to those in the hands *)
(* of a thread: AddTask adds to the first, a thread moves one from the     *)
(* first to the second or drops one from the second, and no other step     *)
(* touches a user task.                                                    *)
(***************************************************************************)
LEMMA ExecutorStep ==
    ASSUME Consistent, [Next]_vars
    PROVE  Executor!Next \/ UNCHANGED <<Pending, Running>>
<1> USE PoolAssumption DEF PoolAssumption, Consistent, TypeOK, m_wq!TypeOK, InPause,
        queueVars, workerVars, poolVars, history, loopVars
<1> DEFINE Same == Pending' = Pending /\ Running' = Running
<1>1. ASSUME NEW w \in Workers,
             Register(w) \/ NextTask(w) \/ Exit(w) \/ WaitForTask(w) \/ Spurious(w)
             \/ PauseTest(w) \/ PauseWait(w)
      PROVE  Same
  BY <1>1 DEF Register, NextTask, Exit, WaitForTask, Spurious, PauseTest, PauseWait,
              m_wq!Dequeue, m_wq!Block, m_wq!WakeUp, Pending, Running
<1>2. ASSUME NEW w \in Workers, TakeTask(w) PROVE Executor!Next \/ Same
  <2>1. PICK x \in AllTasks : m_wq!Pop(w, x) /\ task' = [task EXCEPT ![w] = x]
    BY <1>2 DEF TakeTask
  <2>2. m_pq' = m_pq \ {x} /\ x \in m_wq!Top /\ x \in m_pq
    BY <2>1 DEF m_wq!Pop, m_wq!Top
  <2>3. task[w] = NoTask
    BY <1>2 DEF TakeTask, Move
  <2>4. CASE x \in Tasks
    <3>1. Pending' = Pending \ {x} /\ x \in Pending
      BY <2>2, <2>4 DEF Pending
    <3>2. Running' = Running \union {x}
      BY <2>1, <2>3, <2>4 DEF Running
    <3>3. \A y \in Pending : TaskPriority[x] <= TaskPriority[y]
      BY <2>2, <2>4, SmallestIsFirst DEF Pending
    <3> QED
      BY <2>4, <3>1, <3>2, <3>3 DEF Executor!Next, Executor!Start, Pending, Running
  <2>5. CASE x \notin Tasks
    <3>1. Pending' = Pending
      BY <2>2, <2>5 DEF Pending
    <3>2. Running' = Running
      BY <2>1, <2>3, <2>5 DEF Running
    <3> QED
      BY <3>1, <3>2
  <2> QED
    BY <2>4, <2>5
<1>3. ASSUME NEW w \in Workers, RunTask(w) PROVE Executor!Next
  <2>1. task[w] \in Running /\ Running' = Running \ {task[w]} /\ Pending' = Pending
    BY <1>3 DEF RunTask, Move, Drop, Running, Pending
  <2> QED
    BY <2>1 DEF Executor!Next, Executor!Finish, Pending, Running
<1>4. ASSUME NEW w \in Workers, PauseLeave(w) \/ DeleteSelf(w) PROVE Same
  <2>1. task[w] \notin Tasks /\ task' = [task EXCEPT ![w] = NoTask] /\ m_pq' = m_pq
    BY <1>4 DEF PauseLeave, InLockCV, DeleteSelf, DeleteSelfThen, Drop
  <2> QED
    BY <2>1 DEF Pending, Running
<1>5. ASSUME NEW c \in Clients, AddTask(c) PROVE Executor!Next
  <2>1. PICK x \in Unused(Tasks) : m_pq' = m_pq \union {x} /\ task' = task
    BY <1>5 DEF AddTask, QueueNew, m_wq!Enqueue
  <2>2. x \in Tasks \ (Pending \union Running) /\ Pending' = Pending \union {x} /\ Running' = Running
    BY <2>1 DEF Unused, Pending, Running
  <2> QED
    BY <2>2 DEF Executor!Next, Executor!Submit, Pending, Running
<1>6. ASSUME NEW c \in Clients,
             \/ PauseAdd(c) \/ QueueOne(c, "grow_pause", PauseTasks, num[c])
             \/ ShrinkAdd(c) \/ StopAdd(c)
      PROVE  Same
  <2>1. PICK x \in PauseTasks \union DeleteTasks : m_pq' = m_pq \union {x} /\ task' = task
    BY <1>6 DEF PauseAdd, ShrinkAdd, StopAdd, QueueOne, QueueNew, Unused, m_wq!Enqueue
  <2> QED
    BY <2>1 DEF Pending, Running
<1>7. ASSUME NEW c \in Clients,
             \/ Pause(c) \/ PauseReturn(c) \/ Resume(c) \/ ResumeNotify(c)
             \/ \E n \in Sizes : SetThreadNumber(c, n)
             \/ Diff(c) \/ GrowTest(c) \/ LoopEnd(c, "grow_pause", "grow_create", num[c])
             \/ CreateThread(c) \/ GrowCount(c) \/ GrowReturn(c)
      PROVE  Same
  BY <1>7 DEF Pause, PauseReturn, Resume, ResumeNotify, SetThreadNumber, Diff, GrowTest,
              CreateThread, GrowCount, GrowReturn, LoopEnd, Pending, Running
<1>8. ASSUME NEW c \in Clients,
             \/ ShrinkCount(c) \/ ShrinkReturn(c) \/ Stop(c) \/ StopAdded(c)
             \/ StopTest(c) \/ StopTimeout(c) \/ StopWake(c)
      PROVE  Same
  BY <1>8 DEF ShrinkCount, ShrinkReturn, Stop, StopHolding, StopAdded, StopTest, StopTimeout,
              StopWake, LoopEnd, Pending, Running
<1>9. CASE UNCHANGED vars
  BY <1>9 DEF vars, Pending, Running
<1> QED
  BY <1>1, <1>2, <1>3, <1>4, <1>5, <1>6, <1>7, <1>8, <1>9
  DEF Next, WorkerStep, ClientStep, ClientCall, GrowPause

(***************************************************************************)
(* For its callers a pool of any size is an executor: each task that was   *)
(* added is started at most once, before no task with a smaller number,    *)
(* and finished at most once, whatever is called in between.               *)
(***************************************************************************)
THEOREM PoolImplementsExecutor == Spec => ImplementsExecutorSafely
<1>1. Init => Executor!Init
  BY PoolAssumption DEF PoolAssumption, Init, m_wq!Init, Executor!Init
<1>2. Consistent /\ [Next]_vars => [Executor!Next]_(Executor!vars)
  BY ExecutorStep DEF Executor!vars, Pending, Running
<1> QED
  BY <1>1, <1>2, PoolConsistent, PTL DEF Spec, ImplementsExecutorSafely, Executor!Spec

--------------------------------------------------------------------------------

(***************************************************************************)
(* The pool uses its queue as WaitableQueue specifies it: every step is a  *)
(* step of the queue or leaves it alone.                                   *)
(***************************************************************************)
THEOREM PoolUsesQueue == Spec => m_wq!Spec
<1>1. Init => m_wq!Init
  BY DEF Init
<1>2. Consistent /\ [Next]_vars => [m_wq!Next]_(m_wq!vars)
  <2> SUFFICES ASSUME Consistent, [Next]_vars PROVE m_wq!Next \/ UNCHANGED queueVars
    BY DEF m_wq!vars, queueVars
  <2> USE DEF workerVars, poolVars, history, loopVars
  <2>1. ASSUME NEW w \in Workers,
               NextTask(w) \/ WaitForTask(w) \/ TakeTask(w) \/ Spurious(w)
        PROVE  m_wq!Next \/ UNCHANGED queueVars
    BY <2>1 DEF NextTask, WaitForTask, TakeTask, Spurious, m_wq!Next, m_wq!CheckQueue
  <2>2. ASSUME NEW w \in Workers,
               \/ Register(w) \/ Exit(w) \/ RunTask(w) \/ PauseTest(w) \/ PauseWait(w)
               \/ PauseLeave(w) \/ DeleteSelf(w)
        PROVE  UNCHANGED queueVars
    BY <2>2 DEF Register, Exit, RunTask, PauseTest, PauseWait, PauseLeave, DeleteSelf, DeleteSelfThen
  <2>3. ASSUME NEW S \in SUBSET AllTasks, QueueNew(S) PROVE m_wq!Next
    BY <2>3 DEF QueueNew, Unused, m_wq!Next
  <2>4. ASSUME NEW c \in Clients,
               \/ AddTask(c) \/ PauseAdd(c) \/ QueueOne(c, "grow_pause", PauseTasks, num[c])
               \/ ShrinkAdd(c) \/ StopAdd(c)
        PROVE  m_wq!Next
    BY <2>3, <2>4, AddTaskQueues DEF PauseAdd, ShrinkAdd, StopAdd, QueueOne, AllTasks
  <2>5. ASSUME NEW c \in Clients,
               \/ Pause(c) \/ PauseReturn(c) \/ Resume(c) \/ ResumeNotify(c)
               \/ \E n \in Sizes : SetThreadNumber(c, n)
               \/ Diff(c) \/ GrowTest(c) \/ LoopEnd(c, "grow_pause", "grow_create", num[c])
               \/ CreateThread(c) \/ GrowCount(c) \/ GrowReturn(c)
        PROVE  UNCHANGED queueVars
    BY <2>5 DEF Pause, PauseReturn, Resume, ResumeNotify, SetThreadNumber, Diff, GrowTest,
                CreateThread, GrowCount, GrowReturn, LoopEnd
  <2>6. ASSUME NEW c \in Clients,
               \/ ShrinkCount(c) \/ ShrinkReturn(c) \/ Stop(c) \/ StopAdded(c)
               \/ StopTest(c) \/ StopTimeout(c) \/ StopWake(c)
        PROVE  UNCHANGED queueVars
    BY <2>6 DEF ShrinkCount, ShrinkReturn, Stop, StopHolding, StopAdded, StopTest,
                StopTimeout, StopWake, LoopEnd
  <2>7. CASE UNCHANGED vars
    BY <2>7 DEF vars
  <2> QED
    BY <2>1, <2>2, <2>4, <2>5, <2>6, <2>7 DEF Next, WorkerStep, ClientStep, ClientCall, GrowPause
<1> QED
  BY <1>1, <1>2, PoolConsistent, PTL DEF Spec, m_wq!Spec

--------------------------------------------------------------------------------

(***************************************************************************)
(* The theorems about WaitableQueue hold of m_wq: WQ says the same with    *)
(* proofs.  They need the comparator of the tasks to be a strict order.    *)
(***************************************************************************)
WQ == INSTANCE WaitableQueueProofs
    WITH Items <- AllTasks, Threads <- Workers,
         TimedThreads <- {}, Compare <- CompareFunctor

LEMMA CompareIsStrict == WQ!QueueAssumption /\ WQ!CompareAssumption
<1>1. IsFiniteSet(AllTasks) /\ IsFiniteSet(Workers)
  BY PoolAssumption, FS_Union DEF PoolAssumption, AllTasks
<1>2. \A x \in AllTasks : GetPriority(x) \in Nat
  BY PoolAssumption DEF PoolAssumption, AllTasks, GetPriority
<1>3. \A x, y \in AllTasks : <<x, y>> \in CompareFunctor <=> GetPriority(x) > GetPriority(y)
  BY DEF CompareFunctor
<1>4. CompareFunctor \subseteq AllTasks \X AllTasks
  BY DEF CompareFunctor
<1>5. WQ!CompareAssumption
  BY <1>2, <1>3 DEF WQ!CompareAssumption
<1>6. WQ!IsFiniteSet(AllTasks) /\ WQ!IsFiniteSet(Workers)
  BY <1>1, Zenon DEF IsFiniteSet, WQ!IsFiniteSet
<1> QED
  BY <1>4, <1>5, <1>6 DEF WQ!QueueAssumption

(***************************************************************************)
(* The two instances of the queue are the same.                            *)
(***************************************************************************)
LEMMA SameQueue ==
    /\ WQ!Init <=> m_wq!Init
    /\ [WQ!Next]_(WQ!vars) <=> [m_wq!Next]_(m_wq!vars)
    /\ WQ!NoLostWakeup <=> m_wq!NoLostWakeup
<1> USE DEF WQ!Waiting, m_wq!Waiting, WQ!Contending, m_wq!Contending
<1>1. WQ!Init <=> m_wq!Init
  BY DEF WQ!Init, m_wq!Init
<1>2. \A x \in AllTasks : WQ!Enqueue(x) <=> m_wq!Enqueue(x)
  BY DEF WQ!Enqueue, m_wq!Enqueue, WQ!NotifyOne, m_wq!NotifyOne
<1>3. \A t \in Workers :
        /\ WQ!Dequeue(t) <=> m_wq!Dequeue(t)
        /\ WQ!WakeUp(t) <=> m_wq!WakeUp(t)
        /\ WQ!TimeOut(t) <=> m_wq!TimeOut(t)
  BY DEF WQ!Dequeue, m_wq!Dequeue, WQ!WakeUp, m_wq!WakeUp, WQ!TimeOut, m_wq!TimeOut
<1>4. \A t \in Workers : WQ!CheckQueue(t) <=> m_wq!CheckQueue(t)
  BY DEF WQ!CheckQueue, m_wq!CheckQueue, WQ!Block, m_wq!Block, WQ!Pop, m_wq!Pop, WQ!Top, m_wq!Top
<1>5. WQ!Next <=> m_wq!Next
  BY <1>2, <1>3, <1>4, Zenon DEF WQ!Next, m_wq!Next
<1>6. WQ!vars = m_wq!vars /\ (UNCHANGED WQ!vars <=> UNCHANGED m_wq!vars)
  BY DEF WQ!vars, m_wq!vars
<1>7. \A S : WQ!Cardinality(S) = m_wq!Cardinality(S)
  BY Zenon DEF WQ!Cardinality, m_wq!Cardinality
<1>8. WQ!NoLostWakeup <=> m_wq!NoLostWakeup
  BY <1>7 DEF WQ!NoLostWakeup, m_wq!NoLostWakeup
<1> QED
  BY <1>1, <1>5, <1>6, <1>8

(***************************************************************************)
(* In a pool of any size, whatever its clients call: while a thread sleeps *)
(* in Dequeue there are as many threads on their way to the queue as there *)
(* are tasks in it (waitablequeue.hpp:48,56-61, threadpool.cpp:124-134).   *)
(***************************************************************************)
THEOREM PoolLosesNoWakeup == Spec => []m_wq!NoLostWakeup
<1>1. WQ!Spec => []WQ!NoLostWakeup
  BY WQ!NoWakeupIsLost, CompareIsStrict
<1> QED
  BY <1>1, SameQueue, PoolUsesQueue, PTL DEF WQ!Spec, m_wq!Spec
================================================================================
