---------------------------- MODULE MCWaitableQueue ----------------------------
(***************************************************************************)
(* Small instances of WaitableQueue: items are numbers, two of them equal  *)
(* for the comparator, which is std::greater as in waitable_test.cpp.      *)
(***************************************************************************)
EXTENDS WaitableQueue, TLC

CONSTANTS t1, t2, t3

MCItems == 1 .. 3

MCThreads == {t1, t2, t3}

\* Only t1 polls with a duration.
MCMixed == {t1}

MCNobody == {}

\* std::greater on a key that 2 and 3 share.
MCGreater == {<<x, y>> \in MCItems \X MCItems : x > 1 /\ y = 1}
================================================================================
