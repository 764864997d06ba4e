------------------------------- MODULE MCScheduler -------------------------------
(***************************************************************************)
(* Small instances of Scheduler: a tick is half a millisecond, and a       *)
(* second has two milliseconds, so that its unit mix is within reach.      *)
(***************************************************************************)
EXTENDS Scheduler

CONSTANTS k1, k2, t1, t2

MCKamikazes == {k1, k2}

MCThreads == {t1, t2}

MCDelays == {0, 1, 2, 3}
================================================================================
