----------------------------- MODULE PriorityBuffer -----------------------------
(***************************************************************************)
(* What WaitableQueue promises its callers, without a mutex, a condition   *)
(* variable or a wakeup: a buffer of items and a set of threads that ask   *)
(* for one.  An asking thread gets an item that no other item in the       *)
(* buffer precedes, or goes on asking.                                     *)
(***************************************************************************)
EXTENDS Naturals, FiniteSets

CONSTANTS
    Items,     \* what may be in the buffer
    Threads,   \* who may ask
    Compare    \* <<x, y>> \in Compare: y leaves the buffer before x

VARIABLES
    content,   \* the items in the buffer
    asking     \* the threads that have asked and were not served

vars == <<content, asking>>

Init ==
    /\ content = {}
    /\ asking = {}

Put(x) ==
    /\ x \in Items \ content
    /\ content' = content \union {x}
    /\ UNCHANGED asking

Ask(t) ==
    /\ t \in Threads \ asking
    /\ asking' = asking \union {t}
    /\ UNCHANGED content

Give(t, x) ==
    /\ t \in asking
    /\ x \in content
    /\ \A y \in content : <<x, y>> \notin Compare
    /\ asking' = asking \ {t}
    /\ content' = content \ {x}

Next ==
    \/ \E x \in Items : Put(x)
    \/ \E t \in Threads : Ask(t)
    \/ \E t \in Threads, x \in Items : Give(t, x)

Spec == Init /\ [][Next]_vars

FairSpec == Spec /\ WF_vars(\E t \in Threads, x \in Items : Give(t, x))
================================================================================
