---------------------------- MODULE MCRequestEngine ----------------------------
(***************************************************************************)
(* Small instances of RequestEngine: a device of three blocks.             *)
(***************************************************************************)
EXTENDS RequestEngine

CONSTANTS w1, w2, r1, r2, d1

\* Two writes that overlap and a read of what both write.
MCOverlap == {w1, w2, r1}
\* Two reads on different devices, a write, a disconnect.
MCMany == {w1, r1, r2, d1}

MCOffset == [r \in Requests |-> IF r = w1 THEN 0 ELSE 1]
MCSize == [r \in Requests |-> IF r = w2 THEN 1 ELSE 2]
MCCommand == [r \in Requests |->
    CASE r \in {w1, w2} -> NBD_CMD_WRITE [] r \in {r1, r2} -> NBD_CMD_READ
      [] r = d1 -> NBD_CMD_DISC]

MCOne == {3}
MCTwo == {3, 4}
MCSame == [r \in Requests |-> 3]
MCSplit == [r \in Requests |-> IF r = r2 THEN 4 ELSE 3]

\* nbd_test.cpp adds all three.
MCKeys == {NBD_CMD_READ, NBD_CMD_WRITE, NBD_CMD_DISC}
================================================================================
