------------------------------- MODULE BlockDevice -------------------------------
(***************************************************************************)
(* What the kernel expects of the program behind a network block device:   *)
(* a request takes effect once, at one moment between its submission and   *)
(* the reply, and a read answers what the blocks hold at that moment.      *)
(* Requests that overlap in time may take effect in either order.          *)
(***************************************************************************)
EXTENDS Naturals

CONSTANTS
    Reads, Writes,  \* the requests
    Offset,         \* the first block of a request
    Size,           \* how many blocks it covers
    Blocks,         \* the blocks of the device
    Blank,          \* what a block holds before it is written
    NoData          \* a read that has not taken effect

All == Reads \union Writes

VARIABLES
    phase,   \* how far a request is
    image,   \* what each block holds
    result   \* what a read answers, block by block

vars == <<phase, image, result>>

Init ==
    /\ phase = [r \in All |-> "idle"]
    /\ image = [b \in Blocks |-> Blank]
    /\ result = [r \in Reads |-> NoData]

Advance(r, p, q) ==
    /\ phase[r] = p
    /\ phase' = [phase EXCEPT ![r] = q]

Submit(r) ==
    /\ Advance(r, "idle", "submitted")
    /\ UNCHANGED <<image, result>>

Read(r) ==
    /\ r \in Reads
    /\ Advance(r, "submitted", "applied")
    /\ result' = [result EXCEPT ![r] = [k \in 0 .. Size[r] - 1 |-> image[Offset[r] + k]]]
    /\ UNCHANGED image

\* <<r, k>> is block k of the data of request r.
Write(r) ==
    /\ r \in Writes
    /\ Advance(r, "submitted", "applied")
    /\ image' = [b \in Blocks |-> IF b - Offset[r] \in 0 .. Size[r] - 1
                                  THEN <<r, b - Offset[r]>> ELSE image[b]]
    /\ UNCHANGED result

Reply(r) ==
    /\ Advance(r, "applied", "replied")
    /\ UNCHANGED <<image, result>>

Next == \E r \in All : Submit(r) \/ Read(r) \/ Write(r) \/ Reply(r)

Spec == Init /\ [][Next]_vars

FairSpec == Spec /\ \A r \in All : WF_vars(Read(r) \/ Write(r) \/ Reply(r))
================================================================================
