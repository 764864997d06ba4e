-------------------------------- MODULE Executor --------------------------------
(***************************************************************************)
(* What a ThreadPool is for its callers: tasks are submitted, started in   *)
(* the order of their numbers, and finished.  Threads, their number and    *)
(* the tasks the pool queues for its own purposes are not visible.         *)
(***************************************************************************)
EXTENDS Naturals

CONSTANTS
    Tasks,    \* one per submission
    Number    \* the number a task was constructed with; small ones go first

VARIABLES
    pending,  \* submitted, not started
    running   \* started, not finished

vars == <<pending, running>>

Init ==
    /\ pending = {}
    /\ running = {}

Submit(x) ==
    /\ x \in Tasks \ (pending \union running)
    /\ pending' = pending \union {x}
    /\ UNCHANGED running

Start(x) ==
    /\ x \in pending
    /\ \A y \in pending : Number[x] <= Number[y]
    /\ pending' = pending \ {x}
    /\ running' = running \union {x}

Finish(x) ==
    /\ x \in running
    /\ running' = running \ {x}
    /\ UNCHANGED pending

Next == \E x \in Tasks : Submit(x) \/ Start(x) \/ Finish(x)

Spec == Init /\ [][Next]_vars

\* Some task is started while any is waiting, and what runs ends.
Fairness ==
    /\ WF_vars(\E x \in Tasks : Start(x))
    /\ \A x \in Tasks : WF_vars(Finish(x))

FairSpec == Spec /\ Fairness
================================================================================
