--------------------------------- MODULE MCBuse ---------------------------------
(***************************************************************************)
(* A small instance of Buse: three blocks, two writes and a read that overlap*)
(* in the middle one, and a flush.                                         *)
(***************************************************************************)
EXTENDS Buse

CONSTANTS r1, w1, w2, f1

MCReads == {r1}
MCWrites == {w1, w2}
MCOthers == {f1}
MCOffset == [r \in {r1, w1, w2} |-> IF r = w1 THEN 0 ELSE 1]
MCSize == [r \in {r1, w1, w2} |-> 2]
MCBlocks == 0 .. 2
================================================================================
