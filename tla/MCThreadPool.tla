------------------------------ MODULE MCThreadPool ------------------------------
(***************************************************************************)
(* Small instances of ThreadPool.                                          *)
(***************************************************************************)
EXTENDS ThreadPool, TLC

CONSTANTS w1, w2, c1, low, high, p1, p2, p3, d1, d2, d3

\* One thread, and room for a second.
MCWorkers2 == {w1, w2}
MCOne      == {w1}

MCClient  == {c1}

\* One task of the smallest and one of the largest number.
MCTasks == {low, high}
MCTaskPriority == [x \in MCTasks |-> IF x = low THEN 0 ELSE 2]

MCTask1 == {low}
MCTaskPriority1 == [x \in MCTask1 |-> 0]

MCPause2 == {p1, p2}
MCPause3 == {p1, p2, p3}
MCDelete2 == {d1, d2}
MCDelete3 == {d1, d2, d3}

MCTwo == {2}
MCUpDown == {1, 2}

MCAllCalls == {"AddTask", "Pause", "Resume", "SetThreadNumber", "Stop"}

\* The objects that the pool makes for itself are alike.
MCSymmetry == Permutations(MCPause2) \union Permutations(MCDelete3)
================================================================================
