------------------------------- MODULE MCObserver -------------------------------
(***************************************************************************)
(* A small instance of Observer: two dispatchers, three callbacks.         *)
(***************************************************************************)
EXTENDS Observer, TLC

CONSTANTS d1, d2, c1, c2, c3

MCDispatchers == {d1, d2}

MCCallbacks == {c1, c2, c3}

\* What a program does after undefined behaviour is not looked at.
MCDefined == ~undefined

MCSymmetry == Permutations(MCDispatchers) \union Permutations(MCCallbacks)
================================================================================
