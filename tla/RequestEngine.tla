------------------------------ MODULE RequestEngine ------------------------------
(***************************************************************************)
(* The path of a block request through the program (framework/             *)
(* requestengine.hpp, nbdproxy.cpp, requesthandler.cpp): the kernel writes *)
(* it to a device's socket; Run, which waits in select, has the NBDProxy   *)
(* read it and makes it a task of the ThreadPool; a thread of the pool     *)
(* looks up its handler, which moves the data between the request and the  *)
(* one file behind all devices and writes the reply to the socket.         *)
(*                                                                         *)
(* Of the ThreadPool only what Executor promises is used: a task that was  *)
(* added waits, is started by a thread, and ends.  Run only adds tasks, so *)
(* the pool is neither paused nor resized nor stopped.                     *)
(*                                                                         *)
(* Atomicity: a socket is a bounded queue of messages (a header, or the    *)
(* data that follows it); read, write and lseek on the file are atomic     *)
(* calls that share the descriptor's position, as POSIX has them.          *)
(***************************************************************************)
EXTENDS Integers, Sequences, FiniteSets

CONSTANTS
    Requests,     \* the requests of the kernel; their ids are the handles
    Devices,      \* the descriptors of the proxies' sockets, the keys of m_map
    DeviceOf,     \* the device a request is for
    Command,      \* the type in its header
    Offset,       \* the first block it covers
    Size,         \* how many blocks it covers
    FileSize,     \* the blocks of the file
    OffsetLimit,  \* the first offset that an int cannot hold
    Threads,      \* num_of_threads of m_tp
    Keys,         \* the keys that AddToFactory was called with
    SocketRoom,   \* how many messages fit into one direction of a socket
    Blank,        \* what the file and a new buffer hold
    NoRequest

NBD_CMD_READ  == 0
NBD_CMD_WRITE == 1
NBD_CMD_DISC  == 2

\* The kernel stays inside the device, whose size is the file's.
EngineAssumption ==
    /\ Devices \subseteq Nat /\ IsFiniteSet(Devices)
    /\ IsFiniteSet(Requests) /\ NoRequest \notin Requests
    /\ DeviceOf \in [Requests -> Devices]
    /\ Command \in [Requests -> {NBD_CMD_READ, NBD_CMD_WRITE, NBD_CMD_DISC}]
    /\ Offset \in [Requests -> Nat]
    /\ Size \in [Requests -> Nat \ {0}]
    /\ FileSize \in Nat /\ OffsetLimit \in Nat \ {0}
    /\ \A r \in Requests : Offset[r] + Size[r] <= FileSize
    /\ Threads \in Nat \ {0} /\ SocketRoom \in Nat \ {0}

ASSUME EngineAssumption

VARIABLES
    stage,      \* how far each request is
    toEngine,   \* per device, what the kernel wrote and Run has not read
    toKernel,   \* per device, what was replied and the kernel has not read
    master,     \* the fd_set given to select
    todo,       \* the ready devices that the loop of Run has not reached
    payload,    \* the write whose data OnSocketReady is reading
    file,       \* what each block of the file holds
    position,   \* the file position of Memory::descriptor
    m_data,     \* the buffer of each read
    got,        \* how many blocks read_all has put there
    expecting   \* the read whose data the kernel reads next

socketVars == <<toEngine, toKernel>>
runVars    == <<master, todo, payload>>
memoryVars == <<file, position>>
bufferVars == <<m_data, got>>
vars == <<stage, socketVars, runVars, memoryVars, bufferVars, expecting>>

Stages ==
    {"new",        \* not submitted
     "sending",    \* a write of which the kernel has written the header only
     "sent",       \* the kernel has written all of it
     "queued",     \* a task in m_tp
     "seek",       \* its handler runs, before lseek
     "move",       \* after lseek
     "reply",      \* in Done, wants m_mutex
     "data",       \* in Done, holds m_mutex, has written the header of the reply
     "done",       \* the handler returned
     "answered"}   \* the kernel has the reply

Is(r, command) == Command[r] = command

Message == [kind : {"header", "data"}, req : Requests]

Header(r) == [kind |-> "header", req |-> r]
Data(r)   == [kind |-> "data", req |-> r]

TypeOK ==
    /\ stage \in [Requests -> Stages]
    /\ toEngine \in [Devices -> Seq(Message)]
    /\ toKernel \in [Devices -> Seq(Message)]
    /\ master \subseteq Devices
    /\ todo \subseteq Devices
    /\ payload \in Requests \union {NoRequest}
    /\ position \in Nat
    /\ DOMAIN m_data = Requests
    /\ got \in [Requests -> Nat]
    /\ expecting \in [Devices -> Requests \union {NoRequest}]

\* nbd_test.cpp: the devices and the handlers are added before Run is called.
Init ==
    /\ stage = [r \in Requests |-> "new"]
    /\ toEngine = [d \in Devices |-> <<>>]
    /\ toKernel = [d \in Devices |-> <<>>]
    /\ master = Devices
    /\ todo = {}
    /\ payload = NoRequest
    /\ file = [b \in 0 .. FileSize - 1 |-> Blank]
    /\ position = 0
    /\ m_data = [r \in Requests |-> [k \in 0 .. Size[r] - 1 |-> Blank]]
    /\ got = [r \in Requests |-> 0]
    /\ expecting = [d \in Devices |-> NoRequest]

Move(r, p, q) ==
    /\ stage[r] = p
    /\ stage' = [stage EXCEPT ![r] = q]

\* write_all to a socket waits for room.
Put(socket, d, m) ==
    /\ Len(socket[d]) < SocketRoom
    /\ socket' = [socket EXCEPT ![d] = Append(@, m)]

\* read_all waits for the next message.
Take(socket, d, m) ==
    /\ socket[d] # <<>>
    /\ m = Head(socket[d])
    /\ socket' = [socket EXCEPT ![d] = Tail(@)]

--------------------------------------------------------------------------------
(***************************************************************************)
(* The kernel's end of the socket.                                         *)
(***************************************************************************)

\* One request after the other is written to a socket, nothing after a DISC.
MaySend(r) ==
    \A q \in Requests : DeviceOf[q] = DeviceOf[r] =>
        stage[q] # "sending" /\ (Is(q, NBD_CMD_DISC) => stage[q] = "new")

Send(r) ==
    /\ MaySend(r)
    /\ Move(r, "new", IF Is(r, NBD_CMD_WRITE) THEN "sending" ELSE "sent")
    /\ Put(toEngine, DeviceOf[r], Header(r))
    /\ UNCHANGED <<toKernel, runVars, memoryVars, bufferVars, expecting>>

SendData(r) ==
    /\ Move(r, "sending", "sent")
    /\ Put(toEngine, DeviceOf[r], Data(r))
    /\ UNCHANGED <<toKernel, runVars, memoryVars, bufferVars, expecting>>

\* The header of a reply; a read's data has to follow.
Receive(r) ==
    LET d == DeviceOf[r] IN
    /\ expecting[d] = NoRequest
    /\ Take(toKernel, d, Header(r))
    /\ IF Is(r, NBD_CMD_READ)
       THEN expecting' = [expecting EXCEPT ![d] = r] /\ UNCHANGED stage
       ELSE stage' = [stage EXCEPT ![r] = "answered"] /\ UNCHANGED expecting
    /\ UNCHANGED <<toEngine, runVars, memoryVars, bufferVars>>

ReceiveData(r) ==
    LET d == DeviceOf[r] IN
    /\ expecting[d] = r
    /\ Take(toKernel, d, Data(r))
    /\ expecting' = [expecting EXCEPT ![d] = NoRequest]
    /\ stage' = [stage EXCEPT ![r] = "answered"]
    /\ UNCHANGED <<toEngine, runVars, memoryVars, bufferVars>>

--------------------------------------------------------------------------------
(***************************************************************************)
(* Run: the thread that reads the sockets.                                 *)
(***************************************************************************)

\* select leaves in master the descriptors that are ready.
Select ==
    LET ready == {d \in master : toEngine[d] # <<>>} IN
    /\ todo = {}
    /\ ready # {}
    /\ master' = ready
    /\ todo' = ready
    /\ UNCHANGED <<stage, socketVars, payload, memoryVars, bufferVars, expecting>>

\* The loop goes through m_map, which is ordered.
Reached(d) == d \in todo /\ \A e \in todo : d <= e

\* Mutant of OnSocketReady: the data of a write is left in the socket.
OnSocketReadyHeader(r) ==
    LET d == DeviceOf[r] IN
    /\ Reached(d)
    /\ Take(toEngine, d, Header(r))
    /\ stage' = [stage EXCEPT ![r] = "queued"]
    /\ todo' = todo \ {d}
    /\ UNCHANGED <<toKernel, master, payload, memoryVars, bufferVars, expecting>>

\* Mutant of OnSocketReady: m_cb is called before the data of a write is read.
OnSocketReadyEarly(r) ==
    LET d == DeviceOf[r] IN
    /\ Reached(d)
    /\ payload = NoRequest
    /\ Take(toEngine, d, Header(r))
    /\ stage' = [stage EXCEPT ![r] = "queued"]
    /\ payload' = IF Is(r, NBD_CMD_WRITE) THEN r ELSE payload
    /\ todo' = IF Is(r, NBD_CMD_WRITE) THEN todo ELSE todo \ {d}
    /\ UNCHANGED <<toKernel, master, memoryVars, bufferVars, expecting>>

\* OnSocketReady reads a header; but for a write it then calls m_cb, which adds
\* the task.
OnSocketReady(r) ==
    LET d == DeviceOf[r] IN
    /\ Reached(d)
    /\ payload = NoRequest
    /\ Take(toEngine, d, Header(r))
    /\ IF Is(r, NBD_CMD_WRITE)
       THEN /\ payload' = r
            /\ UNCHANGED <<stage, todo>>
       ELSE /\ stage' = [stage EXCEPT ![r] = "queued"]
            /\ todo' = todo \ {d}
            /\ UNCHANGED payload
    /\ UNCHANGED <<toKernel, master, memoryVars, bufferVars, expecting>>

\* OnSocketReady reads the data of the write, then calls m_cb.
ReadPayload(r) ==
    LET d == DeviceOf[r] IN
    /\ payload = r
    /\ Take(toEngine, d, Data(r))
    /\ stage' = [stage EXCEPT ![r] = "queued"]
    /\ todo' = todo \ {d}
    /\ payload' = NoRequest
    /\ UNCHANGED <<toKernel, master, memoryVars, bufferVars, expecting>>

--------------------------------------------------------------------------------
(***************************************************************************)
(* The threads of m_tp: RETask::operator(), the handlers, MemoryFile, Done *)
(***************************************************************************)

Running == {r \in Requests : stage[r] \in {"seek", "move", "reply", "data"}}

\* Byte order of a 32-bit number below 256, on a little-endian machine.
htonl(n) == n * 2^24

\* NBDRWReq converts the type, `new Request(request.type)` does not.
m_type(r) == IF Is(r, NBD_CMD_DISC) THEN htonl(Command[r]) ELSE Command[r]

\* The 64-bit offset becomes an int.
m_offset(r) == ((Offset[r] + OffsetLimit) % (2 * OffsetLimit)) - OffsetLimit

\* Factory::Create.  If find() fails the code goes on with end(), which is
\* undefined; here the task is then not begun.  A DiscHandler only prints, the
\* others go on.
Create(r) ==
    /\ Cardinality(Running) < Threads
    /\ m_type(r) \in Keys
    /\ Move(r, "queued", IF m_type(r) = NBD_CMD_DISC THEN "done" ELSE "seek")
    /\ UNCHANGED <<socketVars, runVars, memoryVars, bufferVars, expecting>>

\* lseek(descriptor, m_offset, SEEK_SET), which fails for a negative offset.
Seek(r) ==
    /\ Move(r, "seek", "move")
    /\ position' = IF m_offset(r) >= 0 THEN m_offset(r) ELSE position
    /\ UNCHANGED <<socketVars, runVars, file, bufferVars, expecting>>

\* read_all: read gives what is left, or what there is up to the end of the
\* file.  At the end it gives nothing and read_all spins.
Read(r) ==
    /\ Is(r, NBD_CMD_READ)
    /\ \E n \in 1 .. Size[r] - got[r] :
         /\ \A j \in 0 .. n - 1 : position + j \in DOMAIN file
         /\ n = Size[r] - got[r] \/ position + n \notin DOMAIN file
         /\ m_data' = [m_data EXCEPT ![r] =
                         [k \in 0 .. Size[r] - 1 |->
                            IF k \in got[r] .. got[r] + n - 1
                            THEN file[position + (k - got[r])] ELSE @[k]]]
         /\ got' = [got EXCEPT ![r] = @ + n]
         /\ position' = position + n
         /\ Move(r, "move", IF n = Size[r] - got[r] THEN "reply" ELSE "move")
    /\ UNCHANGED <<socketVars, runVars, file, expecting>>

\* write_all, which makes the file longer where it has to.
Write(r) ==
    LET written == position .. position + Size[r] - 1 IN
    /\ Is(r, NBD_CMD_WRITE)
    /\ Move(r, "move", "reply")
    /\ file' = [b \in DOMAIN file \union written |->
                  IF b \in written THEN <<r, b - position>> ELSE file[b]]
    /\ position' = position + Size[r]
    /\ UNCHANGED <<socketVars, runVars, bufferVars, expecting>>

\* The requests whose Done holds m_mutex of a device.
Replying(d) == {r \in Requests : DeviceOf[r] = d /\ stage[r] = "data"}

\* Mutant of Done: the reply is written without m_mutex.
DoneUnlocked(r) ==
    /\ Move(r, "reply", IF Is(r, NBD_CMD_READ) THEN "data" ELSE "done")
    /\ Put(toKernel, DeviceOf[r], Header(r))
    /\ UNCHANGED <<toEngine, runVars, memoryVars, bufferVars, expecting>>

\* Mutant of Done: only a read is replied to.
DoneUnanswered(r) ==
    /\ Replying(DeviceOf[r]) = {}
    /\ Move(r, "reply", IF Is(r, NBD_CMD_READ) THEN "data" ELSE "done")
    /\ IF Is(r, NBD_CMD_READ) THEN Put(toKernel, DeviceOf[r], Header(r)) ELSE UNCHANGED toKernel
    /\ UNCHANGED <<toEngine, runVars, memoryVars, bufferVars, expecting>>

\* Done, under m_mutex: the header of the reply, then a read's data.
Done(r) ==
    /\ Replying(DeviceOf[r]) = {}
    /\ Move(r, "reply", IF Is(r, NBD_CMD_READ) THEN "data" ELSE "done")
    /\ Put(toKernel, DeviceOf[r], Header(r))
    /\ UNCHANGED <<toEngine, runVars, memoryVars, bufferVars, expecting>>

DoneData(r) ==
    /\ Move(r, "data", "done")
    /\ Put(toKernel, DeviceOf[r], Data(r))
    /\ UNCHANGED <<toEngine, runVars, memoryVars, bufferVars, expecting>>

--------------------------------------------------------------------------------

Kernel(r) == SendData(r) \/ Receive(r) \/ ReceiveData(r)

Handle(r) == Seek(r) \/ Read(r) \/ Write(r) \/ Done(r) \/ DoneData(r)

Run == Select \/ \E r \in Requests : OnSocketReady(r) \/ ReadPayload(r)

Next == Run \/ \E r \in Requests : Send(r) \/ Kernel(r) \/ Create(r) \/ Handle(r)

Spec == Init /\ [][Next]_vars

\* Run and the threads of the pool are scheduled, a thread that is free takes a
\* task if there is one (Executor), and the kernel completes what it began.
Fairness ==
    /\ WF_vars(Run)
    /\ WF_vars(\E r \in Requests : Create(r))
    /\ \A r \in Requests : WF_vars(Handle(r)) /\ WF_vars(Kernel(r))

FairSpec == Spec /\ Fairness

--------------------------------------------------------------------------------

(***************************************************************************)
(* Run reads a header where one begins, and after the header of a write    *)
(* the data of that write (nbdproxy.cpp:175,195): what the kernel and Run  *)
(* take for the boundary of a request is the same.                         *)
(***************************************************************************)
StreamInSync ==
    \A d \in Devices : toEngine[d] # <<>> =>
        IF payload # NoRequest /\ DeviceOf[payload] = d
        THEN Head(toEngine[d]) = Data(payload)
        ELSE Head(toEngine[d]).kind = "header"

(***************************************************************************)
(* The threads that reply on one socket do not mix their replies: the data *)
(* of a read follows its header (nbdproxy.cpp:156-160).                    *)
(***************************************************************************)
RepliesFramed ==
    \A d \in Devices : toKernel[d] # <<>> =>
        IF expecting[d] # NoRequest
        THEN Head(toKernel[d]) = Data(expecting[d])
        ELSE Head(toKernel[d]).kind = "header"

(***************************************************************************)
(* The program implements a block device: see BlockDevice.  A request      *)
(* takes effect when its handler moves the data, and one that was sent     *)
(* does so and is replied to.  For one thread and one device.              *)
(***************************************************************************)
Reads == {r \in Requests : Is(r, NBD_CMD_READ)}
Writes == {r \in Requests : Is(r, NBD_CMD_WRITE)}

Phase(r) ==
    IF stage[r] = "new" THEN "idle"
    ELSE IF stage[r] \in {"reply", "data", "done"} THEN "applied"
    ELSE IF stage[r] = "answered" THEN "replied"
    ELSE "submitted"

Device == INSTANCE BlockDevice
    WITH Blocks <- 0 .. FileSize - 1, NoData <- NoRequest,
         phase  <- [r \in Reads \union Writes |-> Phase(r)],
         image  <- file,
         result <- [r \in Reads |-> IF got[r] < Size[r] THEN NoRequest ELSE m_data[r]]

ImplementsDevice == Device!FairSpec

\* Its safety alone, for any number of threads: false for more than one.
ImplementsDeviceSafely == Device!Spec

(***************************************************************************)
(* The engine is a proper client of its pool: see Executor.  RequestCB     *)
(* adds every task with the priority LOW (requestengine.hpp:67,113); each  *)
(* is added when its request is read as a whole, once, and its handler     *)
(* comes back once (nbdproxy.cpp:175-207, requestengine.hpp:95-115).       *)
(***************************************************************************)
Queued == {r \in Requests : stage[r] = "queued"}

Pool == INSTANCE Executor
    WITH Tasks <- Requests, Number <- [r \in Requests |-> 0],
         pending <- Queued, running <- Running

UsesExecutorSafely == Pool!Spec
================================================================================
