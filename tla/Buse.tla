---------------------------------- MODULE Buse ----------------------------------
(***************************************************************************)
(* The BUSE library (BUSE/buse.c) under its two programs, busexmp and      *)
(* loopback: the parent serves the requests that the kernel's nbd driver   *)
(* writes to a socket, one after the other, while its child sits in        *)
(* NBD_DO_IT; SIGINT, SIGTERM or nbd-client -d ask the driver to           *)
(* disconnect, which it does by one last request, Disc, to the parent.     *)
(*                                                                         *)
(* Atomicity: a request or a reply with its data is one message, since     *)
(* each end of the socket has one writer at a time; it is never in parts,  *)
(* so what the code asserts of its length and of its magic number holds.   *)
(* A signal handler runs between two steps of the parent.                  *)
(***************************************************************************)
EXTENDS Integers, Sequences

CONSTANTS
    Reads, Writes,
    Others,      \* flushes and trims
    Disc,        \* the NBD_CMD_DISC request
    Offset,      \* the first block of a request
    Size,        \* how many blocks it covers
    Blocks,      \* the blocks of the device
    Blank,       \* what a block holds before it is written
    NoRequest, NoData,
    SocketRoom   \* how many messages fit into one direction of the socket

Transfers == Reads \union Writes
Requests == Transfers \union Others

ASSUME BuseAssumption ==
    /\ Reads \intersect Writes = {} /\ Transfers \intersect Others = {}
    /\ {Disc, NoRequest} \intersect Requests = {} /\ Disc # NoRequest
    /\ Offset \in [Transfers -> Nat] /\ Size \in [Transfers -> Nat \ {0}]
    /\ Blocks \subseteq Nat
    /\ \A r \in Transfers : \A k \in 0 .. Size[r] - 1 : Offset[r] + k \in Blocks
    /\ SocketRoom \in Nat \ {0}

Signals == {"SIGINT", "SIGTERM"}

VARIABLES
    backend,                \* the program
    parent,                 \* where it is in buse_main
    status,                 \* how it ended
    handled,                \* the signals that disconnect_nbd is set for
    raised,                 \* the signals that came; each comes once
    handler,                \* disconnect_nbd runs
    nbd_dev_to_disconnect,
    cur, moved,             \* the request that is served, the blocks transferred
    chunk,                  \* the data of each read
    file,                   \* the data behind the device
    child,
    nbd, asked,             \* the driver, and whether a disconnect was requested
    toServer, toKernel,     \* the socket
    stage,                  \* how far each request is
    before                  \* what was sent before the first Disc

parentVars == <<backend, parent, status, handled, raised, handler, nbd_dev_to_disconnect>>
serveVars == <<cur, moved, chunk, file>>
driverVars == <<nbd, asked, before>>
socketVars == <<toServer, toKernel, stage>>
vars == <<parentVars, serveVars, child, driverVars, socketVars>>

TypeOK ==
    /\ backend \in {"busexmp", "loopback"}
    /\ parent \in {"setup", "fork", "sigint", "sigterm", "serve", "move", "reply", "wait"}
    /\ status \in {"none", "success", "failure", "killed"}
    /\ handled \subseteq Signals /\ raised \subseteq Signals
    /\ handler \in BOOLEAN /\ nbd_dev_to_disconnect \in {"-1", "nbd"}
    /\ cur \in Requests \union {NoRequest} /\ moved \in Nat
    /\ DOMAIN chunk = Reads /\ DOMAIN file = Blocks
    /\ child \in {"none", "start", "masked", "bound", "do_it", "clear",
                  "success", "failure", "killed"}
    /\ nbd \in {"free", "bound", "running", "shut"} /\ asked \in BOOLEAN
    /\ toServer \in Seq(Requests \union {Disc}) /\ toKernel \in Seq(Requests)
    /\ stage \in [Requests -> {"idle", "sent", "served", "answered", "replied"}]
    /\ before \subseteq Requests

Init ==
    /\ backend \in {"busexmp", "loopback"}
    /\ parent = "setup" /\ status = "none" /\ handled = {} /\ raised = {}
    /\ handler = FALSE /\ nbd_dev_to_disconnect = "-1"
    /\ cur = NoRequest /\ moved = 0
    /\ chunk = [r \in Reads |-> NoData]
    /\ file = [b \in Blocks |-> Blank]
    /\ child = "none" /\ nbd = "free" /\ asked = FALSE /\ before = {}
    /\ toServer = <<>> /\ toKernel = <<>>
    /\ stage = [r \in Requests |-> "idle"]

Ended == child \in {"success", "failure", "killed"}

\* Who has the two ends of the socket: the parent until it closes sp[0], the
\* child or the driver until it is shut down.
ServerOpen == status = "none" /\ parent # "wait"
ClientOpen == ~Ended \/ nbd \in {"bound", "running"}

--------------------------------------------------------------------------------
(***************************************************************************)
(* The parent.                                                             *)
(***************************************************************************)

Runs(at) == status = "none" /\ ~handler /\ parent = at

\* buse_main returns: busexmp hands its value on, loopback returns 0.
Return(value) == status' = IF backend = "loopback" THEN "success" ELSE value

\* open, which may fail, and the ioctls that set the device up, each asserted
SetUp ==
    /\ Runs("setup")
    /\ \/ parent' = "fork" /\ UNCHANGED status
       \/ Return("failure") /\ UNCHANGED parent
       \/ status' = "killed" /\ UNCHANGED parent
    /\ UNCHANGED <<backend, handled, raised, handler, nbd_dev_to_disconnect,
                   serveVars, child, driverVars, socketVars>>

\* A fork that fails is not noticed: waitpid will fail, as for a child that did.
Fork ==
    /\ Runs("fork")
    /\ parent' = "sigint" /\ child' \in {"start", "failure"}
    /\ UNCHANGED <<backend, status, handled, raised, handler, nbd_dev_to_disconnect,
                   serveVars, driverVars, socketVars>>

\* Where a handler cannot be set the parent leaves, and the child stays behind.
SetSigInt ==
    /\ Runs("sigint")
    /\ nbd_dev_to_disconnect' = "nbd"
    /\ \/ handled' = {"SIGINT"} /\ parent' = "sigterm" /\ UNCHANGED status
       \/ Return("failure") /\ UNCHANGED <<handled, parent>>
    /\ UNCHANGED <<backend, raised, handler, serveVars, child, driverVars, socketVars>>

SetSigTerm ==
    /\ Runs("sigterm")
    /\ \/ handled' = Signals /\ parent' = "serve" /\ UNCHANGED status
       \/ Return("failure") /\ UNCHANGED <<handled, parent>>
    /\ UNCHANGED <<backend, raised, handler, nbd_dev_to_disconnect, serveVars, child,
                   driverVars, socketVars>>

\* Mutant of Take: break, and not return, after Disc.
TakeOn(r) ==
    /\ Runs("serve")
    /\ toServer # <<>> /\ r = Head(toServer)
    /\ toServer' = Tail(toServer)
    /\ IF r = Disc THEN
           /\ UNCHANGED <<parent, cur, moved, stage>>
       ELSE
           /\ parent' = IF r \in Others THEN "reply" ELSE "move"
           /\ cur' = r /\ moved' = 0
           /\ stage' = [stage EXCEPT ![r] = "served"]
    /\ UNCHANGED <<backend, status, handled, raised, handler, nbd_dev_to_disconnect,
                   chunk, file, child, driverVars, toKernel>>

\* serve_nbd reads a request; after Disc it returns and the socket is closed.
Take(r) ==
    /\ Runs("serve")
    /\ toServer # <<>> /\ r = Head(toServer)
    /\ toServer' = Tail(toServer)
    /\ IF r = Disc THEN
           /\ parent' = "wait"
           /\ UNCHANGED <<cur, moved, stage>>
       ELSE
           /\ parent' = IF r \in Others THEN "reply" ELSE "move"
           /\ cur' = r /\ moved' = 0
           /\ stage' = [stage EXCEPT ![r] = "served"]
    /\ UNCHANGED <<backend, status, handled, raised, handler, nbd_dev_to_disconnect,
                   chunk, file, child, driverVars, toKernel>>

\* Blocks that a step of n blocks transfers, counted from the first one
Step(n) == moved .. moved + n - 1

\* Mutant of ReadBlocks: the position in the device does not move on.
ReadSameBlocks(n) ==
    /\ cur \in Reads
    /\ chunk' = [chunk EXCEPT ![cur] =
           [k \in 0 .. moved + n - 1 |->
               IF k \in Step(n) THEN file[Offset[cur] + k - moved] ELSE chunk[cur][k]]]
    /\ UNCHANGED file

\* xmp_read, or a read() of loopback_read
ReadBlocks(n) ==
    /\ cur \in Reads
    /\ chunk' = [chunk EXCEPT ![cur] =
           [k \in 0 .. moved + n - 1 |->
               IF k \in Step(n) THEN file[Offset[cur] + k] ELSE chunk[cur][k]]]
    /\ UNCHANGED file

\* xmp_write, or a write() of loopback_write
WriteBlocks(n) ==
    /\ cur \in Writes
    /\ file' = [b \in Blocks |-> IF b \in {Offset[cur] + k : k \in Step(n)}
                                 THEN <<cur, b - Offset[cur]>> ELSE file[b]]
    /\ UNCHANGED chunk

\* memcpy takes all blocks at once, the loops of loopback some.
Transfer(n) ==
    /\ Runs("move")
    /\ n \in 1 .. Size[cur] - moved
    /\ backend = "busexmp" => n = Size[cur]
    /\ ReadBlocks(n) \/ WriteBlocks(n)
    /\ moved' = moved + n
    /\ parent' = IF moved + n = Size[cur] THEN "reply" ELSE "move"
    /\ UNCHANGED <<backend, status, handled, raised, handler, nbd_dev_to_disconnect,
                   cur, child, driverVars, socketVars>>

\* assert(bytes_read > 0), assert(bytes_written > 0)
TransferFails ==
    /\ Runs("move") /\ backend = "loopback"
    /\ status' = "killed"
    /\ UNCHANGED <<backend, parent, handled, raised, handler, nbd_dev_to_disconnect,
                   serveVars, child, driverVars, socketVars>>

\* write_all waits for room; SIGPIPE kills who writes to a socket nobody has.
Reply ==
    /\ Runs("reply")
    /\ IF ClientOpen THEN
           /\ Len(toKernel) < SocketRoom
           /\ toKernel' = Append(toKernel, cur)
           /\ stage' = [stage EXCEPT ![cur] = "answered"]
           /\ parent' = "serve" /\ cur' = NoRequest
           /\ UNCHANGED status
       ELSE
           /\ status' = "killed"
           /\ UNCHANGED <<toKernel, stage, parent, cur>>
    /\ UNCHANGED <<backend, handled, raised, handler, nbd_dev_to_disconnect, moved,
                   chunk, file, child, driverVars, toServer>>

\* read() returns 0, or -1 where replies were never read: then nobody waits.
EndOfSocket ==
    /\ Runs("serve")
    /\ toServer = <<>> /\ ~ClientOpen
    /\ \/ parent' = "wait" /\ UNCHANGED status
       \/ toKernel # <<>> /\ Return("failure") /\ UNCHANGED parent
    /\ UNCHANGED <<backend, handled, raised, handler, nbd_dev_to_disconnect, serveVars,
                   child, driverVars, socketVars>>

\* WEXITSTATUS of a child that was killed is 0.
WaitPid ==
    /\ Runs("wait") /\ Ended
    /\ Return(IF child = "failure" THEN "failure" ELSE "success")
    /\ UNCHANGED <<backend, parent, handled, raised, handler, nbd_dev_to_disconnect,
                   serveVars, child, driverVars, socketVars>>

--------------------------------------------------------------------------------
(***************************************************************************)
(* Signals.                                                                *)
(***************************************************************************)

\* Where no handler is set the default action ends the parent.
Signal(s) ==
    /\ status = "none" /\ ~handler /\ s \notin raised
    /\ raised' = raised \union {s}
    /\ IF s \in handled THEN handler' = TRUE /\ UNCHANGED status
                        ELSE status' = "killed" /\ UNCHANGED handler
    /\ UNCHANGED <<backend, parent, handled, nbd_dev_to_disconnect, serveVars, child,
                   driverVars, socketVars>>

\* ioctl(nbd, NBD_DISCONNECT): without a socket it fails, else Disc is written,
\* for which there must be room.
Connected == nbd \in {"bound", "running"}
Disconnect ==
    /\ Connected
    /\ IF ServerOpen
       THEN Len(toServer) < SocketRoom /\ toServer' = Append(toServer, Disc)
       ELSE UNCHANGED toServer
    /\ asked' = TRUE
    /\ before' = IF asked THEN before ELSE {r \in Requests : stage[r] # "idle"}
    /\ UNCHANGED <<nbd, toKernel, stage>>

\* Mutant of HandlerAsks: the handler ends the loop of serve_nbd itself.
HandlerEndsLoop ==
    /\ nbd_dev_to_disconnect = "nbd" /\ Disconnect
    /\ nbd_dev_to_disconnect' = "-1"
    /\ parent' = "wait"

HandlerAsks ==
    /\ nbd_dev_to_disconnect = "nbd" /\ Disconnect
    /\ nbd_dev_to_disconnect' = "-1"
    /\ UNCHANGED parent

\* disconnect_nbd: asks once, and again where asking failed.
DisconnectNbd ==
    /\ status = "none" /\ handler
    /\ \/ HandlerAsks
       \/ /\ nbd_dev_to_disconnect = "-1" \/ ~Connected
          /\ UNCHANGED <<parent, nbd_dev_to_disconnect, driverVars, socketVars>>
    /\ handler' = FALSE
    /\ UNCHANGED <<backend, status, handled, raised, serveVars, child>>

\* nbd-client -d
NbdClient ==
    /\ ~asked /\ Disconnect
    /\ UNCHANGED <<parentVars, serveVars, child>>

--------------------------------------------------------------------------------
(***************************************************************************)
(* The child.                                                              *)
(***************************************************************************)

\* All signals are blocked, and sp[0] is closed.
Mask ==
    /\ child = "start" /\ child' = "masked"
    /\ UNCHANGED <<parentVars, serveVars, driverVars, socketVars>>

\* NBD_SET_SOCK fails where the device is in use.
SetSock ==
    /\ child = "masked"
    /\ \/ child' = "bound" /\ nbd' = "bound"
       \/ child' = "failure" /\ UNCHANGED nbd
    /\ UNCHANGED <<parentVars, serveVars, asked, before, socketVars>>

\* NBD_SET_FLAGS, which may fail, and NBD_DO_IT
DoIt ==
    /\ child = "bound"
    /\ \/ child' = "do_it" /\ nbd' = "running"
       \/ child' = "failure" /\ UNCHANGED nbd
    /\ UNCHANGED <<parentVars, serveVars, asked, before, socketVars>>

\* NBD_DO_IT returns when the parent has closed its end and every reply was
\* read: with an error, unless a disconnect was requested.
DoItReturns ==
    /\ child = "do_it" /\ ~ServerOpen /\ toKernel = <<>>
    /\ child' = IF asked THEN "clear" ELSE "failure"
    /\ nbd' = "shut"
    /\ UNCHANGED <<parentVars, serveVars, asked, before, socketVars>>

\* NBD_CLEAR_QUE and NBD_CLEAR_SOCK
Clear ==
    /\ child = "clear"
    /\ \/ child' = "success" /\ nbd' = "free"
       \/ child' = "failure" /\ UNCHANGED nbd
    /\ UNCHANGED <<parentVars, serveVars, asked, before, socketVars>>

\* SIGKILL cannot be blocked, and before Mask any signal kills.
KillChild ==
    /\ child # "none" /\ ~Ended
    /\ child' = "killed"
    /\ nbd' = IF nbd = "running" THEN "shut" ELSE nbd
    /\ UNCHANGED <<parentVars, serveVars, asked, before, socketVars>>

--------------------------------------------------------------------------------
(***************************************************************************)
(* The driver.                                                             *)
(***************************************************************************)

Submit(r) ==
    /\ nbd = "running" /\ ServerOpen
    /\ stage[r] = "idle" /\ Len(toServer) < SocketRoom
    /\ stage' = [stage EXCEPT ![r] = "sent"]
    /\ toServer' = Append(toServer, r)
    /\ UNCHANGED <<parentVars, serveVars, child, driverVars, toKernel>>

Receive(r) ==
    /\ nbd = "running"
    /\ toKernel # <<>> /\ r = Head(toKernel)
    /\ stage' = [stage EXCEPT ![r] = "replied"]
    /\ toKernel' = Tail(toKernel)
    /\ UNCHANGED <<parentVars, serveVars, child, driverVars, toServer>>

BlockCounts == UNION {1 .. Size[r] : r \in Transfers}

Parent ==
    \/ SetUp \/ Fork \/ SetSigInt \/ SetSigTerm
    \/ \E r \in Requests \union {Disc} : Take(r)
    \/ \E n \in BlockCounts : Transfer(n)
    \/ Reply \/ EndOfSocket \/ WaitPid
    \/ DisconnectNbd

Child == Mask \/ SetSock \/ DoIt \/ DoItReturns \/ Clear

Next ==
    \/ Parent \/ Child
    \/ TransferFails
    \/ \E s \in Signals : Signal(s)
    \/ NbdClient \/ KillChild
    \/ \E r \in Requests : Submit(r) \/ Receive(r)

Spec == Init /\ [][Next]_vars

\* Both processes run on, and the driver reads what it is sent.
FairSpec ==
    /\ Spec
    /\ WF_vars(Parent) /\ WF_vars(Child)
    /\ WF_vars(\E r \in Requests : Receive(r))

--------------------------------------------------------------------------------

\* busexmp ends with 0 only after its child: a child that was not killed did
\* return from NBD_DO_IT and clear the device, and what was sent before the
\* disconnect was answered (buse.c:342-355, test/signal_termination.sh).
SuccessIsClean ==
    backend = "busexmp" /\ status = "success" /\ child # "killed" =>
        /\ child = "success" /\ nbd = "free"
        /\ \A r \in before : stage[r] = "replied"

\* The handler waits for room in a socket that only this process reads.
Stuck == handler /\ Len(toServer) = SocketRoom

\* The parent left because a handler could not be set, and served nothing.
NoHandler == status = "failure" /\ handled # Signals

\* A disconnect that reaches the socket ends the program with 0, unless one of
\* the processes was killed or failed, a handler could not be set, or another
\* signal found no room (buse.c:98-110, 177-180, 321-356).
DisconnectEnds ==
    (\E i \in 1 .. Len(toServer) : toServer[i] = Disc)
        ~> \/ status \in {"success", "killed"} \/ child \in {"failure", "killed"}
           \/ NoHandler \/ Stuck

\* A request that is being served takes effect at its first block if it is a
\* write, at its last if it is a read: nobody else looks at the data.
Applied(r) ==
    \/ stage[r] = "answered"
    \/ stage[r] = "served" /\ IF r \in Writes THEN moved > 0 ELSE moved = Size[r]

Phase == [r \in Transfers |->
    IF stage[r] \in {"idle", "replied"} THEN stage[r]
    ELSE IF Applied(r) THEN "applied" ELSE "submitted"]

Image == [b \in Blocks |->
    IF cur \in Writes /\ moved > 0 /\ b - Offset[cur] \in 0 .. Size[cur] - 1
    THEN <<cur, b - Offset[cur]>> ELSE file[b]]

Result == [r \in Reads |->
    IF stage[r] = "replied" \/ Applied(r) THEN chunk[r] ELSE NoData]

D == INSTANCE BlockDevice WITH phase <- Phase, image <- Image, result <- Result

\* To the kernel the program is a block device, whatever is killed when.
ImplementsDevice == D!Spec
================================================================================
