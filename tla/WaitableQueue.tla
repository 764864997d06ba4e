----------------------------- MODULE WaitableQueue -----------------------------
(***************************************************************************)
(* WaitableQueue<T, Container, Compare>: a std::priority_queue guarded by  *)
(* one mutex and one condition variable (waitablequeue.hpp).               *)
(*                                                                         *)
(* The mutex is a leaf lock: no member function of the class calls out     *)
(* while holding it, so what a thread does between acquiring the mutex     *)
(* and releasing it (by returning or by waiting) is one action here.  What *)
(* is not atomic is kept: a call and its first critical section are two    *)
(* steps, and a thread that was notified still has to acquire the mutex    *)
(* again before it looks at the queue, so another thread may be first.     *)
(***************************************************************************)
EXTENDS Naturals, FiniteSets

CONSTANTS
    Items,         \* the values that may be queued, one per queued occurrence
    Threads,       \* the threads that call Dequeue
    TimedThreads,  \* those that call the overload with a duration
    Compare        \* the template's comparator: the pairs it answers true for

ASSUME QueueAssumption ==
    /\ IsFiniteSet(Items)
    /\ IsFiniteSet(Threads)
    /\ TimedThreads \subseteq Threads
    /\ Compare \subseteq Items \X Items

\* What std::priority_queue asks of its comparator: a strict order.
ASSUME CompareAssumption ==
    /\ \A x \in Items : <<x, x>> \notin Compare
    /\ \A x, y, z \in Items :
          <<x, y>> \in Compare /\ <<y, z>> \in Compare => <<x, z>> \in Compare

VARIABLES
    m_pq,     \* the items in the queue
    caller    \* where each consumer is in Dequeue

vars == <<m_pq, caller>>

CallerStates ==
    {"out",      \* not in Dequeue
     "lock",     \* called Dequeue, wants m_mutex
     "wait",     \* blocked in m_cv.wait or m_cv.wait_for
     "woken"}    \* released by the cv, wants m_mutex again

TypeOK ==
    /\ m_pq \subseteq Items
    /\ caller \in [Threads -> CallerStates]

Waiting == {t \in Threads : caller[t] = "wait"}

Contending == {t \in Threads : caller[t] \in {"lock", "woken"}}

Init ==
    /\ m_pq = {}
    /\ caller = [t \in Threads |-> "out"]

--------------------------------------------------------------------------------

\* m_pq.top(): any item that the comparator puts before no other.
Top == {x \in m_pq : \A y \in m_pq : <<x, y>> \notin Compare}

\* Mutant of NotifyOne: notify only when the queue was empty.
NotifyFirstOnly ==
    \/ (Waiting = {} \/ m_pq # {}) /\ UNCHANGED caller
    \/ m_pq = {} /\ \E t \in Waiting : caller' = [caller EXCEPT ![t] = "woken"]

\* m_cv.notify_one(): releases some waiter, or nobody.
NotifyOne ==
    \/ Waiting = {} /\ UNCHANGED caller
    \/ \E t \in Waiting : caller' = [caller EXCEPT ![t] = "woken"]

Enqueue(x) ==
    /\ x \in Items \ m_pq
    /\ m_pq' = m_pq \union {x}
    /\ NotifyOne

\* Either Dequeue is called.
Dequeue(t) ==
    /\ caller[t] = "out"
    /\ caller' = [caller EXCEPT ![t] = "lock"]
    /\ UNCHANGED m_pq

\* With m_mutex held: the loop finds an item, takes it and returns.
Pop(t, x) ==
    /\ t \in Contending
    /\ x \in Top
    /\ m_pq' = m_pq \ {x}
    /\ caller' = [caller EXCEPT ![t] = "out"]

\* Mutant of Block: "if (IsEmpty())" in place of "while (IsEmpty())".
BlockOnce(t) ==
    /\ t \in Contending
    /\ m_pq = {}
    /\ caller' = [caller EXCEPT ![t] = IF caller[t] = "lock" THEN "wait" ELSE "out"]
    /\ UNCHANGED m_pq

\* Mutant of Block: waits before it looks at the queue.
BlockFirst(t) ==
    /\ t \in Contending
    /\ caller' = [caller EXCEPT ![t] = "wait"]
    /\ UNCHANGED m_pq

\* With m_mutex held: IsEmpty(), so the thread waits and frees the mutex.
Block(t) ==
    /\ t \in Contending
    /\ m_pq = {}
    /\ caller' = [caller EXCEPT ![t] = "wait"]
    /\ UNCHANGED m_pq

CheckQueue(t) == Block(t) \/ \E x \in Items : Pop(t, x)

\* The cv releases a waiter that nobody notified: a spurious wakeup or, in
\* wait_for, the deadline.
WakeUp(t) ==
    /\ caller[t] = "wait"
    /\ caller' = [caller EXCEPT ![t] = "woken"]
    /\ UNCHANGED m_pq

\* wait_for answers timeout.  The clock is read when the mutex is held again,
\* so the answer may be timeout also for a thread that was notified meanwhile;
\* the code then returns false and does not look at the queue.
TimeOut(t) ==
    /\ t \in TimedThreads
    /\ caller[t] = "woken"
    /\ caller' = [caller EXCEPT ![t] = "out"]
    /\ UNCHANGED m_pq

Next ==
    \/ \E x \in Items : Enqueue(x)
    \/ \E t \in Threads : Dequeue(t) \/ CheckQueue(t) \/ WakeUp(t) \/ TimeOut(t)

\* The mutex is granted to some thread that wants it and, for a thread with a
\* duration, the deadline passes and the call takes its turn.  Nobody has to
\* enqueue and nobody has to call again.
Fairness ==
    /\ WF_vars(\E t \in Threads : CheckQueue(t))
    /\ \A t \in TimedThreads :
          /\ WF_vars(WakeUp(t))
          /\ WF_vars(CheckQueue(t) \/ TimeOut(t))

\* A consumer that polls: after each answer it calls again.
Polling == \A t \in TimedThreads : WF_vars(Dequeue(t))

Spec == Init /\ [][Next]_vars

FairSpec == Spec /\ Fairness

PollingSpec == FairSpec /\ Polling

--------------------------------------------------------------------------------

(***************************************************************************)
(* While a consumer sleeps, every queued item has a consumer that is awake *)
(* and on its way to the queue: notify_one under the mutex, one            *)
(* notification per item, loses none as long as no consumer gives up.      *)
(***************************************************************************)
NoLostWakeup ==
    Waiting # {} => Cardinality(m_pq) <= Cardinality(Contending)

(***************************************************************************)
(* "block forever dequeue , when returning data got inside the queue"      *)
(* (waitablequeue.hpp:16): a consumer that is blocked in Dequeue() while   *)
(* data stays in the queue does not remain blocked.                        *)
(***************************************************************************)
BlockedUntilData ==
    \A t \in Threads \ TimedThreads :
        (caller[t] = "wait" /\ m_pq # {}) ~> (caller[t] # "wait" \/ m_pq = {})

(***************************************************************************)
(* Whatever mixture of consumers uses the queue, if one that polls with a  *)
(* duration is among them, a queue that keeps being non-empty keeps being  *)
(* served: a timeout that swallows a notification delays an item but does  *)
(* not strand it.                                                          *)
(***************************************************************************)
PollingServes ==
    []<>(m_pq # {}) => []<><<\E t \in Threads, x \in Items : Pop(t, x)>>_vars

(***************************************************************************)
(* With consumers that never give up, the class is a blocking priority     *)
(* buffer: mutex, condition variable and wakeups are not observable, and   *)
(* while somebody asks and something is there, somebody is served.         *)
(***************************************************************************)
Buffer == INSTANCE PriorityBuffer
    WITH content <- m_pq,
         asking  <- {t \in Threads : caller[t] # "out"}

ImplementsBuffer == Buffer!FairSpec
================================================================================
