------------------------------- MODULE MCHandleton -------------------------------
(***************************************************************************)
(* A small instance of Handleton.                                          *)
(***************************************************************************)
EXTENDS Handleton

CONSTANTS t1, t2, t3

MCThreads == {t1, t2, t3}
================================================================================
