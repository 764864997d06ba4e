------------------------------- MODULE BuseProofs -------------------------------
(***************************************************************************)
(* Theorems about Buse for any requests, device and room in the socket.    *)
(***************************************************************************)
EXTENDS Buse, SequenceTheorems, TLAPS

(***************************************************************************)
(* What an element that is appended, or taken, leaves where.               *)
(***************************************************************************)
LEMMA AppendElements ==
    ASSUME NEW S, NEW q \in Seq(S), NEW x \in S
    PROVE  /\ Append(q, x) \in Seq(S)
           /\ Len(q) \in Nat /\ Len(Append(q, x)) = Len(q) + 1
           /\ \A i \in 1 .. Len(q) : Append(q, x)[i] = q[i] /\ q[i] \in S
           /\ Append(q, x)[Len(q) + 1] = x
  BY AppendProperties, LenProperties, ElementOfSeq

LEMMA TailElements ==
    ASSUME NEW S, NEW q \in Seq(S), q # <<>>
    PROVE  /\ Tail(q) \in Seq(S)
           /\ Len(q) \in Nat /\ 1 \in 1 .. Len(q) /\ Len(Tail(q)) = Len(q) - 1
           /\ \A i \in 1 .. Len(q) - 1 : Tail(q)[i] = q[i + 1]
           /\ Head(q) = q[1] /\ Head(q) \in S
<1>1. Len(q) \in Nat \ {0}
  BY EmptySeq
<1>2. /\ Tail(q) \in Seq(S) /\ Len(Tail(q)) = Len(q) - 1 /\ Head(q) \in S
      /\ \A i \in 1 .. Len(Tail(q)) : Tail(q)[i] = q[i + 1]
  BY HeadTailProperties
<1>3. Head(q) = q[1]
  OBVIOUS
<1> QED
  BY <1>1, <1>2, <1>3

(***************************************************************************)
(* One direction of the socket: each request in it is there once, and in   *)
(* stage p.                                                                *)
(***************************************************************************)
Lined(q, st, p) ==
    /\ \A i \in 1 .. Len(q) : q[i] # Disc => st[q[i]] = p
    /\ \A i, j \in 1 .. Len(q) : q[i] = q[j] /\ q[i] # Disc => i = j

Messages == Requests \union {Disc}
Stages == {"idle", "sent", "served", "answered", "replied"}

LEMMA LinedAppend ==
    ASSUME NEW S, NEW q \in Seq(S), NEW x \in S, NEW st, NEW p,
           Lined(q, st, p), x = Disc
    PROVE  Lined(Append(q, x), st, p)
  BY AppendElements DEF Lined

LEMMA LinedAdd ==
    ASSUME NEW S \in SUBSET Messages, NEW q \in Seq(S), NEW r \in S \ {Disc},
           NEW st \in [Requests -> Stages], NEW p \in Stages,
           Lined(q, st, p), st[r] # p
    PROVE  Lined(Append(q, r), [st EXCEPT ![r] = p], p)
<1> DEFINE l == Append(q, r)
           st2 == [st EXCEPT ![r] = p]
<1>1. /\ Len(q) \in Nat /\ Len(l) = Len(q) + 1 /\ l[Len(q) + 1] = r
      /\ \A i \in 1 .. Len(q) : l[i] = q[i] /\ q[i] \in S
  BY AppendElements
<1>2. \A i \in 1 .. Len(q) : q[i] # r
  BY <1>1 DEF Lined
<1>3. st2[r] = p /\ \A x \in Requests \ {r} : st2[x] = st[x]
  <2>1. r \in Requests
    BY DEF Messages
  <2> QED
    BY <2>1
<1> HIDE DEF l, st2
<1>4. ASSUME NEW i \in 1 .. Len(l), l[i] # Disc PROVE st2[l[i]] = p
  <2>1. CASE i = Len(q) + 1
    BY <1>1, <1>3, <2>1
  <2>2. CASE i # Len(q) + 1
    <3>1. i \in 1 .. Len(q) /\ l[i] = q[i] /\ q[i] \in Requests \ {r}
      BY <1>1, <1>2, <1>4, <2>2 DEF Messages
    <3> QED
      BY <1>3, <1>4, <3>1 DEF Lined
  <2> QED
    BY <2>1, <2>2
<1>5. ASSUME NEW i \in 1 .. Len(l), NEW j \in 1 .. Len(l), l[i] = l[j], l[i] # Disc
      PROVE  i = j
  BY <1>1, <1>2, <1>5 DEF Lined
<1>6. Lined(l, st2, p)
  BY <1>4, <1>5 DEF Lined
<1> QED
  BY <1>6 DEF l, st2

LEMMA LinedTail ==
    ASSUME NEW S \in SUBSET Messages, NEW q \in Seq(S), q # <<>>,
           NEW st \in [Requests -> Stages], NEW p \in Stages, NEW y \in Stages,
           Lined(q, st, p)
    PROVE  /\ Lined(Tail(q), st, p)
           /\ Head(q) # Disc =>
                /\ st[Head(q)] = p
                /\ Lined(Tail(q), [st EXCEPT ![Head(q)] = y], p)
<1> DEFINE l == Tail(q)
           h == Head(q)
           st2 == [st EXCEPT ![h] = y]
<1>1. /\ Len(q) \in Nat /\ 1 \in 1 .. Len(q) /\ Len(l) = Len(q) - 1 /\ h = q[1]
      /\ \A i \in 1 .. Len(q) - 1 : l[i] = q[i + 1]
  BY TailElements
<1>2. \A i \in 1 .. Len(q) : q[i] \in S
  BY ElementOfSeq
<1>3. \A x \in Requests \ {h} : st2[x] = st[x]
  OBVIOUS
<1> HIDE DEF l, h, st2
<1>4. \A i \in 1 .. Len(l) : l[i] = q[i + 1] /\ i + 1 \in 1 .. Len(q) /\ l[i] \in S
  BY <1>1, <1>2
<1>5. ASSUME NEW i \in 1 .. Len(l), NEW j \in 1 .. Len(l), l[i] = l[j], l[i] # Disc
      PROVE  i = j
  <2>1. /\ i + 1 \in 1 .. Len(q) /\ j + 1 \in 1 .. Len(q)
        /\ q[i + 1] = q[j + 1] /\ q[i + 1] # Disc
    BY <1>4, <1>5
  <2>2. i + 1 = j + 1
    BY <2>1 DEF Lined
  <2> QED
    BY <2>2
<1>6. ASSUME NEW i \in 1 .. Len(l), l[i] # Disc PROVE st[l[i]] = p /\ l[i] # h
  <2>1. /\ i + 1 # 1 /\ i + 1 \in 1 .. Len(q) /\ 1 \in 1 .. Len(q)
        /\ l[i] = q[i + 1] /\ q[i + 1] # Disc
    BY <1>1, <1>4, <1>6
  <2>2. st[q[i + 1]] = p /\ q[i + 1] # q[1]
    BY <2>1 DEF Lined
  <2> QED
    BY <1>1, <2>1, <2>2
<1>7. ASSUME NEW i \in 1 .. Len(l), l[i] # Disc PROVE st2[l[i]] = p
  BY <1>3, <1>4, <1>6, <1>7 DEF Messages
<1>8. Lined(l, st, p) /\ Lined(l, st2, p)
  BY <1>5, <1>6, <1>7 DEF Lined
<1>9. h # Disc => st[h] = p
  BY <1>1 DEF Lined
<1> QED
  BY <1>8, <1>9 DEF l, h, st2

LEMMA LinedKept ==
    ASSUME NEW S \in SUBSET Messages, NEW q \in Seq(S), NEW r \in Requests,
           NEW st \in [Requests -> Stages], NEW p \in Stages, NEW y \in Stages,
           Lined(q, st, p), st[r] # p
    PROVE  Lined(q, [st EXCEPT ![r] = y], p)
<1>1. \A i \in 1 .. Len(q) : q[i] \in S
  BY ElementOfSeq
<1> QED
  BY <1>1 DEF Lined, Messages

--------------------------------------------------------------------------------

(***************************************************************************)
(* The inductive invariant: the socket carries each request once, the      *)
(* parent serves one at a time, and the blocks it has transferred hold     *)
(* what the request says.                                                  *)
(***************************************************************************)
Serving ==
    /\ parent \in {"move", "reply"} => cur \in Requests /\ stage[cur] = "served"
    /\ parent = "move" => cur \in Transfers /\ moved < Size[cur]
    /\ parent = "reply" /\ cur \in Transfers => moved = Size[cur]
    /\ parent \notin {"move", "reply"} => cur = NoRequest
    /\ \A r \in Requests : stage[r] = "served" => cur = r

Transferred ==
    /\ cur \in Reads /\ moved > 0 =>
         chunk[cur] = [k \in 0 .. moved - 1 |-> file[Offset[cur] + k]]
    /\ cur \in Writes =>
         \A k \in 0 .. moved - 1 : file[Offset[cur] + k] = <<cur, k>>

Typed ==
    /\ parent \in {"setup", "fork", "sigint", "sigterm", "serve", "move", "reply", "wait"}
    /\ cur \in Requests \union {NoRequest} /\ moved \in Nat
    /\ DOMAIN chunk = Reads /\ DOMAIN file = Blocks
    /\ toServer \in Seq(Messages) /\ toKernel \in Seq(Requests)
    /\ stage \in [Requests -> Stages]

Inv ==
    /\ Typed
    /\ Lined(toServer, stage, "sent") /\ Lined(toKernel, stage, "answered")
    /\ Serving
    /\ Transferred

LEMMA InvInit == Init => Inv
<1> SUFFICES ASSUME Init PROVE Inv
  OBVIOUS
<1> USE BuseAssumption DEF Init
<1>1. Typed
  BY DEF Typed, Stages
<1>2. Lined(toServer, stage, "sent") /\ Lined(toKernel, stage, "answered")
  BY DEF Lined
<1>3. Serving
  BY DEF Serving
<1>4. Transferred
  BY DEF Transferred, Requests, Transfers
<1> QED
  BY <1>1, <1>2, <1>3, <1>4 DEF Inv

LEMMA InvStep == Inv /\ [Next]_vars => Inv'
<1> SUFFICES ASSUME Inv, [Next]_vars PROVE Inv'
  OBVIOUS
<1>t. /\ stage \in [Requests -> Stages]
      /\ {"idle", "sent", "served", "answered", "replied"} \subseteq Stages
      /\ toServer \in Seq(Messages) /\ toKernel \in Seq(Requests)
      /\ Requests \in SUBSET Messages /\ Messages \in SUBSET Messages
      /\ Requests = Messages \ {Disc}
  BY BuseAssumption DEF Inv, Typed, Messages, Stages
<1>0. ASSUME UNCHANGED <<cur, moved, chunk, file, toServer, toKernel, stage>>, Typed',
             parent' = parent \/ {parent, parent'} \intersect {"move", "reply"} = {}
      PROVE  Inv'
  BY <1>0 DEF Inv, Lined, Serving, Transferred
<1> USE DEF parentVars, serveVars, driverVars, socketVars
<1>1. CASE SetUp \/ Fork \/ SetSigInt \/ SetSigTerm \/ EndOfSocket \/ WaitPid \/ TransferFails
  <2>1. Typed'
    BY <1>1 DEF SetUp, Fork, SetSigInt, SetSigTerm, EndOfSocket, WaitPid, TransferFails,
           Inv, Typed, Runs, Return, Signals
  <2> QED
    BY <1>1, <2>1, <1>0 DEF SetUp, Fork, SetSigInt, SetSigTerm, EndOfSocket, WaitPid,
       TransferFails, Runs
<1>2. CASE Mask \/ SetSock \/ DoIt \/ DoItReturns \/ Clear \/ KillChild \/ \E s \in Signals : Signal(s)
  <2>1. Typed'
    BY <1>2 DEF Mask, SetSock, DoIt, DoItReturns, Clear, KillChild, Signal, Inv, Typed
  <2> QED
    BY <1>2, <2>1, <1>0 DEF Mask, SetSock, DoIt, DoItReturns, Clear, KillChild, Signal
<1>3. ASSUME NEW r \in Messages, Take(r) PROVE Inv'
  <2> USE BuseAssumption DEF Take, Runs
  <2>1. /\ toServer # <<>> /\ r = Head(toServer) /\ toServer' = Tail(toServer)
        /\ Tail(toServer) \in Seq(Messages) /\ cur = NoRequest
    BY <1>3, <1>t, TailElements DEF Inv, Serving
  <2>2. Typed'
    <3>1. toServer' \in Seq(Messages) /\ UNCHANGED <<chunk, file, toKernel>>
      BY <1>3, <2>1
    <3>2. CASE r = Disc
      BY <1>3, <3>1, <3>2 DEF Inv, Typed
    <3>3. CASE r # Disc
      <4>1. r \in Requests /\ stage' = [stage EXCEPT ![r] = "served"] /\ cur' = r /\ moved' = 0
            /\ parent' \in {"move", "reply"}
        BY <1>3, <1>t, <3>3
      <4>2. stage' \in [Requests -> Stages]
        BY <1>t, <4>1
      <4> QED
        BY <3>1, <4>1, <4>2 DEF Inv, Typed
    <3> QED
      BY <3>2, <3>3
  <2>3. CASE r = Disc
    <3>1. Lined(Tail(toServer), stage, "sent")
      BY <1>t, <2>1, LinedTail DEF Inv
    <3> QED
      BY <1>3, <2>1, <2>2, <2>3, <3>1 DEF Inv, Serving, Transferred
  <2>4. CASE r # Disc
    <3>1. r \in Requests /\ stage[r] = "sent" /\ stage' = [stage EXCEPT ![r] = "served"]
      BY <1>3, <1>t, <2>1, <2>4, LinedTail DEF Inv
    <3>2. Lined(toServer', stage', "sent")
      BY <1>t, <2>1, <2>4, <3>1, LinedTail DEF Inv
    <3>3. Lined(toKernel', stage', "answered")
      BY <1>3, <1>t, <3>1, LinedKept DEF Inv
    <3>4. Serving'
      BY <1>3, <1>t, <2>1, <2>4, <3>1 DEF Inv, Serving, Requests
    <3>5. Transferred'
      BY <1>3, <2>4 DEF Transferred
    <3> QED
      BY <2>2, <3>2, <3>3, <3>4, <3>5 DEF Inv
  <2> QED
    BY <2>3, <2>4
<1>4. ASSUME NEW n \in BlockCounts, Transfer(n) PROVE Inv'
  <2> USE BuseAssumption DEF Transfer, Runs
  <2>1. /\ cur \in Transfers /\ cur \in Requests /\ moved \in Nat /\ n \in Nat \ {0}
        /\ Size[cur] \in Nat /\ moved < Size[cur] /\ n <= Size[cur] - moved
        /\ Offset[cur] \in Nat
    BY <1>4 DEF Inv, Typed, Serving, BlockCounts
  <2>2. /\ moved' = moved + n /\ cur' = cur
        /\ UNCHANGED <<toServer, toKernel, stage>>
        /\ parent' = IF moved + n = Size[cur] THEN "reply" ELSE "move"
        /\ parent = "move"
    BY <1>4
  <2>3. Typed'
    <3>1. DOMAIN chunk' = Reads /\ DOMAIN file' = Blocks
      BY <1>4 DEF Inv, Typed, ReadBlocks, WriteBlocks
    <3> QED
      BY <1>4, <2>1, <2>2, <3>1 DEF Inv, Typed
  <2>4. Serving'
    BY <2>1, <2>2 DEF Inv, Serving
  <2>5. Transferred'
    <3>1. CASE ReadBlocks(n)
      <4>1. /\ cur \in Reads /\ cur \notin Writes /\ DOMAIN chunk = Reads /\ file' = file
            /\ chunk' = [chunk EXCEPT ![cur] =
                  [k \in 0 .. moved + n - 1 |->
                      IF k \in Step(n) THEN file[Offset[cur] + k] ELSE chunk[cur][k]]]
        BY <3>1 DEF ReadBlocks, Inv, Typed
      <4>2. chunk'[cur] = [k \in 0 .. moved + n - 1 |->
                IF k \in Step(n) THEN file[Offset[cur] + k] ELSE chunk[cur][k]]
        BY <4>1
      <4>3. ASSUME NEW k \in 0 .. moved + n - 1, k \notin Step(n)
            PROVE  chunk[cur][k] = file[Offset[cur] + k]
        <5>1. moved > 0 /\ k \in 0 .. moved - 1
          BY <2>1, <4>3 DEF Step
        <5> QED
          BY <4>1, <5>1 DEF Inv, Transferred
      <4>4. chunk'[cur] = [k \in 0 .. moved + n - 1 |-> file[Offset[cur] + k]]
        BY <4>2, <4>3
      <4>5. chunk'[cur'] = [k \in 0 .. moved' - 1 |-> file'[Offset[cur'] + k]]
        <5>1. moved' - 1 = moved + n - 1
          BY <2>1, <2>2
        <5>2. cur' = cur /\ file' = file
          BY <2>2, <4>1
        <5> QED
          BY <4>4, <5>1, <5>2, Zenon
      <4>6. cur' \notin Writes
        BY <2>2, <4>1
      <4> QED
        BY <4>5, <4>6, Zenon DEF Transferred
    <3>2. CASE WriteBlocks(n)
      <4>1. /\ cur \in Writes /\ cur \notin Reads
            /\ file' = [b \in Blocks |-> IF b \in {Offset[cur] + k : k \in Step(n)}
                                         THEN <<cur, b - Offset[cur]>> ELSE file[b]]
        BY <3>2 DEF WriteBlocks
      <4>3. ASSUME NEW b \in Blocks, b \in {Offset[cur] + k : k \in Step(n)}
            PROVE  file'[b] = <<cur, b - Offset[cur]>>
        BY <4>1, <4>3
      <4>4. ASSUME NEW k \in 0 .. moved + n - 1, NEW b \in Blocks, b = Offset[cur] + k
            PROVE  file'[b] = <<cur, k>>
        <5>1. b - Offset[cur] = k
          BY <2>1, <4>4
        <5>2. CASE k \in Step(n)
          <6>1. b \in {Offset[cur] + m : m \in Step(n)}
            BY <4>4, <5>2
          <6> QED
            BY <4>3, <5>1, <6>1, Zenon
        <5>3. CASE k \notin Step(n)
          <6>1. k \in 0 .. moved - 1
            BY <2>1, <5>3 DEF Step
          <6>2. \A m \in Step(n) : b # Offset[cur] + m
            BY <2>1, <4>4, <6>1 DEF Step
          <6>3. file'[b] = file[b]
            BY <4>1, <6>2
          <6> QED
            BY <4>1, <4>4, <6>1, <6>3 DEF Inv, Transferred
        <5> QED
          BY <5>2, <5>3
      <4>2. ASSUME NEW k \in 0 .. moved + n - 1 PROVE file'[Offset[cur] + k] = <<cur, k>>
        <5>1. Offset[cur] + k \in Blocks
          BY <2>1
        <5> QED
          BY <4>4, <5>1, Zenon
      <4> QED
        <5>1. \A k \in 0 .. moved' - 1 : file'[Offset[cur'] + k] = <<cur', k>>
          <6>1. moved' - 1 = moved + n - 1 /\ cur' = cur
            BY <2>1, <2>2
          <6> QED
            BY <4>2, <6>1, Zenon
        <5>2. cur' \notin Reads
          BY <2>2, <4>1
        <5> QED
          BY <5>1, <5>2, Zenon DEF Transferred
    <3> QED
      BY <1>4, <3>1, <3>2
  <2> QED
    BY <2>2, <2>3, <2>4, <2>5 DEF Inv
<1>5. CASE Reply
  <2> USE BuseAssumption DEF Reply, Runs
  <2>1. cur \in Requests /\ stage[cur] = "served" /\ parent = "reply" /\ cur # NoRequest
    BY <1>5 DEF Inv, Serving
  <2>2. CASE ClientOpen
    <3>1. /\ toKernel' = Append(toKernel, cur)
          /\ stage' = [stage EXCEPT ![cur] = "answered"]
          /\ parent' = "serve" /\ cur' = NoRequest /\ toServer' = toServer
          /\ UNCHANGED <<moved, chunk, file>>
      BY <1>5, <2>2
    <3>7. toKernel' \in Seq(Requests)
      BY <1>t, <2>1, <3>1, AppendElements
    <3>2. Typed'
      BY <1>t, <2>1, <3>1, <3>7 DEF Inv, Typed
    <3>3. Lined(toServer', stage', "sent")
      BY <1>t, <2>1, <3>1, LinedKept DEF Inv
    <3>4. Lined(toKernel', stage', "answered")
      BY <1>t, <2>1, <3>1, LinedAdd DEF Inv
    <3>5. Serving'
      BY <1>t, <2>1, <3>1 DEF Inv, Serving
    <3>6. Transferred'
      BY <3>1 DEF Transferred, Requests, Transfers
    <3> QED
      BY <3>2, <3>3, <3>4, <3>5, <3>6 DEF Inv
  <2>3. CASE ~ClientOpen
    <3>1. Typed'
      BY <1>5, <2>3 DEF Inv, Typed
    <3> QED
      BY <1>0, <1>5, <2>3, <3>1
  <2> QED
    BY <2>2, <2>3
<1>6. CASE Disconnect /\ UNCHANGED <<cur, moved, chunk, file, parent>>
  <2> USE DEF Disconnect
  <2>1. stage' = stage /\ toKernel' = toKernel
    BY <1>6
  <2>2. /\ toServer' \in Seq(Messages)
        /\ Lined(toServer', stage', "sent")
    <3>1. CASE ServerOpen
      <4>1. toServer' = Append(toServer, Disc) /\ Disc \in Messages
        BY <1>6, <3>1 DEF Messages
      <4> QED
        BY <1>t, <2>1, <4>1, AppendElements, LinedAppend DEF Inv
    <3>2. CASE ~ServerOpen
      BY <1>6, <1>t, <2>1, <3>2 DEF Inv
    <3> QED
      BY <3>1, <3>2
  <2>3. Typed'
    BY <1>6, <2>1, <2>2 DEF Inv, Typed, Messages
  <2> QED
    BY <1>6, <2>1, <2>2, <2>3 DEF Inv, Serving, Transferred
<1>7. CASE DisconnectNbd
  <2>1. CASE HandlerAsks
    BY <1>6, <1>7, <2>1 DEF DisconnectNbd, HandlerAsks
  <2>2. CASE ~HandlerAsks
    <3>1. Typed'
      BY <1>7, <2>2 DEF DisconnectNbd, Inv, Typed
    <3> QED
      BY <1>0, <1>7, <2>2, <3>1 DEF DisconnectNbd
  <2> QED
    BY <2>1, <2>2
<1>8. CASE NbdClient
  BY <1>6, <1>8 DEF NbdClient
<1>9. ASSUME NEW r \in Requests, Submit(r) PROVE Inv'
  <2> USE BuseAssumption DEF Submit
  <2>1. /\ stage[r] = "idle" /\ stage' = [stage EXCEPT ![r] = "sent"]
        /\ toServer' = Append(toServer, r) /\ r \in Messages \ {Disc}
        /\ UNCHANGED <<toKernel, parent, serveVars>>
    BY <1>9, <1>t
  <2>2. Lined(toServer', stage', "sent")
    BY <1>t, <2>1, LinedAdd DEF Inv
  <2>3. Lined(toKernel', stage', "answered")
    BY <1>t, <2>1, LinedKept DEF Inv
  <2>4. Typed'
    <3>1. toServer' \in Seq(Messages)
      BY <1>t, <2>1, AppendElements
    <3> QED
      BY <1>9, <1>t, <3>1 DEF Inv, Typed
  <2>5. Serving' /\ Transferred'
    BY <1>t, <2>1 DEF Inv, Serving, Transferred
  <2> QED
    BY <2>2, <2>3, <2>4, <2>5 DEF Inv
<1>10. ASSUME NEW r \in Requests, Receive(r) PROVE Inv'
  <2> USE BuseAssumption DEF Receive
  <2>1. /\ toKernel # <<>> /\ r = Head(toKernel) /\ r # Disc
        /\ stage' = [stage EXCEPT ![r] = "replied"]
        /\ toKernel' = Tail(toKernel)
        /\ UNCHANGED <<toServer, parent, serveVars>>
    BY <1>10, <1>t
  <2>2. stage[r] = "answered" /\ Lined(toKernel', stage', "answered")
    BY <1>t, <2>1, LinedTail DEF Inv
  <2>3. Lined(toServer', stage', "sent")
    BY <1>t, <2>1, <2>2, LinedKept DEF Inv
  <2>4. Typed'
    <3>1. toKernel' \in Seq(Requests)
      BY <1>t, <2>1, TailElements
    <3> QED
      BY <1>10, <1>t, <3>1 DEF Inv, Typed
  <2>5. Serving' /\ Transferred'
    BY <1>t, <2>1, <2>2 DEF Inv, Serving, Transferred
  <2> QED
    BY <2>2, <2>3, <2>4, <2>5 DEF Inv
<1>11. CASE UNCHANGED vars
  <2>1. Typed'
    BY <1>11 DEF vars, Inv, Typed
  <2> QED
    BY <1>0, <1>11, <2>1 DEF vars
<1> QED
  BY <1>1, <1>2, <1>3, <1>4, <1>5, <1>7, <1>8, <1>9, <1>10, <1>11
     DEF Next, Parent, Child, Messages

--------------------------------------------------------------------------------

(***************************************************************************)
(* Every step is one of a block device, or is not seen by the kernel: a    *)
(* write takes effect with its first block, a read with its last.          *)
(***************************************************************************)
LEMMA InitImplementsDevice == Init => D!Init
<1> SUFFICES ASSUME Init PROVE D!Init
  OBVIOUS
<1> USE BuseAssumption DEF Init
<1>1. Phase = [r \in Transfers |-> "idle"]
  BY DEF Phase, Requests
<1>2. Image = [b \in Blocks |-> Blank]
  BY DEF Image
<1>3. Result = [r \in Reads |-> NoData]
  BY DEF Result, Applied, Requests, Transfers
<1> QED
  BY <1>1, <1>2, <1>3 DEF D!Init, D!All, Transfers

LEMMA StepImplementsDevice == Inv /\ [Next]_vars => [D!Next]_(D!vars)
<1> SUFFICES ASSUME Inv, [Next]_vars PROVE [D!Next]_(D!vars)
  OBVIOUS
<1> USE DEF parentVars, serveVars, driverVars, socketVars
<1> DEFINE Unseen == UNCHANGED <<Phase, Image, Result>>
<1>t. /\ stage \in [Requests -> Stages] /\ moved \in Nat
      /\ DOMAIN chunk = Reads /\ DOMAIN file = Blocks
      /\ Reads \subseteq Transfers /\ Writes \subseteq Transfers /\ Transfers \subseteq Requests
      /\ Reads \intersect Writes = {}
      /\ NoRequest \notin Requests /\ Disc \notin Requests
      /\ \A r \in Transfers : Size[r] \in Nat \ {0} /\ Offset[r] \in Nat
      /\ \A r \in Transfers : \A k \in 0 .. Size[r] - 1 : Offset[r] + k \in Blocks
      /\ Blocks \subseteq Nat
  BY BuseAssumption DEF Inv, Typed, Requests, Transfers
<1>u. Unseen => [D!Next]_(D!vars)
  BY DEF D!vars
<1>0. UNCHANGED <<stage, cur, moved, chunk, file>> => Unseen
  BY DEF Phase, Image, Result, Applied
<1>1. CASE \/ SetUp \/ Fork \/ SetSigInt \/ SetSigTerm \/ EndOfSocket \/ WaitPid
           \/ TransferFails \/ DisconnectNbd \/ NbdClient \/ Child \/ KillChild
           \/ \E s \in Signals : Signal(s)
  <2>1. UNCHANGED <<stage, cur, moved, chunk, file>>
    BY <1>1 DEF SetUp, Fork, SetSigInt, SetSigTerm, EndOfSocket, WaitPid, TransferFails,
       DisconnectNbd, HandlerAsks, NbdClient, Disconnect, Child, Mask, SetSock, DoIt,
       DoItReturns, Clear, KillChild, Signal
  <2> QED
    BY <2>1, <1>0, <1>u
<1>2. ASSUME NEW r \in Messages, Take(r) PROVE Unseen
  <2> USE DEF Take, Runs
  <2>1. CASE r = Disc
    BY <1>2, <1>0, <2>1
  <2>2. CASE r # Disc
    <3>1. /\ r \in Requests /\ stage[r] = "sent" /\ stage' = [stage EXCEPT ![r] = "served"]
          /\ cur = NoRequest /\ cur' = r /\ moved' = 0 /\ UNCHANGED <<chunk, file>>
      <4>1. /\ toServer # <<>> /\ r = Head(toServer) /\ toServer \in Seq(Messages)
            /\ Lined(toServer, stage, "sent") /\ Messages \in SUBSET Messages
            /\ {"sent", "served"} \subseteq Stages
        BY <1>2 DEF Inv, Typed, Stages
      <4>2. stage[r] = "sent"
        BY <1>t, <2>2, <4>1, LinedTail
      <4> QED
        BY <1>2, <2>2, <4>2 DEF Messages, Inv, Serving
    <3>2. \A q \in Requests : stage[q] # "served"
      BY <1>t, <3>1 DEF Inv, Serving
    <3>3. \A q \in Transfers : q # r => stage'[q] = stage[q]
      BY <1>t, <3>1
    <3>4. \A q \in Transfers : Applied(q)' = Applied(q)
      BY <1>t, <3>1, <3>2, <3>3 DEF Applied
    <3>5. Phase' = Phase
      BY <1>t, <3>1, <3>3, <3>4 DEF Phase
    <3>6. Image' = Image
      BY <1>t, <3>1 DEF Image
    <3>7. Result' = Result
      BY <1>t, <3>1, <3>3, <3>4 DEF Result
    <3> QED
      BY <3>5, <3>6, <3>7
  <2> QED
    BY <2>1, <2>2
<1>3. ASSUME NEW n \in BlockCounts, Transfer(n) PROVE Unseen \/ D!Read(cur) \/ D!Write(cur)
  <2> USE DEF Transfer, Runs
  <2>1. /\ cur \in Transfers /\ stage[cur] = "served" /\ moved < Size[cur]
        /\ n \in Nat \ {0} /\ n <= Size[cur] - moved
        /\ moved' = moved + n /\ cur' = cur /\ stage' = stage
        /\ \A q \in Requests : q # cur => stage[q] # "served"
    BY <1>3, <1>t DEF Inv, Serving, BlockCounts
  <2>2. \A q \in Transfers : q # cur => Applied(q)' = Applied(q)
    BY <1>t, <2>1 DEF Applied
  <2>3. moved' > 0
    BY <1>t, <2>1
  <2>4. CASE ReadBlocks(n)
    <3>1. /\ cur \in Reads /\ cur \notin Writes /\ file' = file
          /\ chunk' = [chunk EXCEPT ![cur] =
                [k \in 0 .. moved + n - 1 |->
                    IF k \in Step(n) THEN file[Offset[cur] + k] ELSE chunk[cur][k]]]
      BY <2>4, <1>t DEF ReadBlocks
    <3>2. Image' = Image /\ Image = [b \in Blocks |-> file[b]]
      BY <2>1, <3>1 DEF Image
    <3>3. ~Applied(cur)
      BY <1>t, <2>1, <3>1 DEF Applied
    <3>4. CASE moved + n < Size[cur]
      <4>1. ~Applied(cur)'
        BY <1>t, <2>1, <3>1, <3>4 DEF Applied
      <4>2. \A q \in Transfers : Applied(q)' = Applied(q)
        BY <1>t, <2>1, <3>1, <3>4 DEF Applied
      <4>3. Phase' = Phase
        BY <2>1, <4>2 DEF Phase
      <4>4. Result' = Result
        <5>1. \A q \in Reads : (stage'[q] = "replied" \/ Applied(q)') => chunk'[q] = chunk[q]
          BY <1>t, <2>1, <3>1, <4>1
        <5> QED
          BY <1>t, <2>1, <4>2, <5>1 DEF Result
      <4> QED
        BY <3>2, <4>3, <4>4
    <3>5. CASE moved + n = Size[cur]
      <4>1. Applied(cur)'
        BY <1>t, <2>1, <3>1, <3>5 DEF Applied
      <4>2. Phase[cur] = "submitted" /\ Phase' = [Phase EXCEPT ![cur] = "applied"]
        BY <1>t, <2>1, <2>2, <3>3, <4>1 DEF Phase
      <4>3. chunk'[cur] = [k \in 0 .. Size[cur] - 1 |-> file[Offset[cur] + k]]
        <5>1. Transferred'
          BY <1>3, InvStep DEF Inv
        <5>2. chunk'[cur'] = [k \in 0 .. moved' - 1 |-> file'[Offset[cur'] + k]]
          BY <2>1, <2>3, <3>1, <5>1 DEF Transferred
        <5>3. cur' = cur /\ moved' = Size[cur] /\ file' = file
          BY <2>1, <3>1, <3>5
        <5> QED
          BY <5>2, <5>3, Zenon
      <4>4. \A k \in 0 .. Size[cur] - 1 : Image[Offset[cur] + k] = file[Offset[cur] + k]
        BY <1>t, <2>1, <3>2
      <4>5. [k \in 0 .. Size[cur] - 1 |-> Image[Offset[cur] + k]]
              = [k \in 0 .. Size[cur] - 1 |-> file[Offset[cur] + k]]
        BY <4>4, Zenon
      <4>6. Result' = [Result EXCEPT ![cur] = chunk'[cur]]
        <5>1. \A q \in Reads : q # cur => chunk'[q] = chunk[q]
          BY <1>t, <3>1
        <5> QED
          BY <1>t, <2>1, <2>2, <3>1, <4>1, <5>1 DEF Result
      <4>7. Result' = [Result EXCEPT ![cur] =
                [k \in 0 .. Size[cur] - 1 |-> Image[Offset[cur] + k]]]
        BY <4>3, <4>5, <4>6, Zenon
      <4> QED
        BY <3>1, <3>2, <4>2, <4>7, Zenon DEF D!Read, D!Advance
    <3> QED
      BY <1>t, <2>1, <3>4, <3>5
  <2>5. CASE WriteBlocks(n)
    <3>1. /\ cur \in Writes /\ cur \notin Reads /\ chunk' = chunk
          /\ file' = [b \in Blocks |-> IF b \in {Offset[cur] + k : k \in Step(n)}
                                       THEN <<cur, b - Offset[cur]>> ELSE file[b]]
      BY <2>5, <1>t DEF WriteBlocks
    <3>2. Result' = Result
      BY <1>t, <2>1, <2>2, <3>1 DEF Result
    <3>3. ASSUME NEW b \in Blocks, b - Offset[cur] \notin 0 .. Size[cur] - 1
          PROVE  file'[b] = file[b]
      <4>1. ASSUME NEW k \in Step(n) PROVE b # Offset[cur] + k
        BY <1>t, <2>1, <3>3, <4>1 DEF Step
      <4> QED
        BY <3>1, <4>1
    <3>4. Image' = [b \in Blocks |-> IF b - Offset[cur] \in 0 .. Size[cur] - 1
                                    THEN <<cur, b - Offset[cur]>> ELSE file[b]]
      BY <2>1, <2>3, <3>1, <3>3 DEF Image
    <3>5. Applied(cur)' /\ (Applied(cur) <=> moved > 0)
      BY <2>1, <2>3, <3>1 DEF Applied
    <3>6. CASE moved > 0
      <4>1. \A q \in Transfers : Applied(q)' = Applied(q)
        BY <1>t, <2>1, <2>3, <3>1, <3>6 DEF Applied
      <4>2. Phase' = Phase
        BY <2>1, <4>1 DEF Phase
      <4>3. Image' = Image
        BY <3>1, <3>4, <3>6 DEF Image
      <4> QED
        BY <3>2, <4>2, <4>3
    <3>7. CASE moved = 0
      <4>1. Phase[cur] = "submitted" /\ Phase' = [Phase EXCEPT ![cur] = "applied"]
        <5>1. ~Applied(cur) /\ Applied(cur)'
          BY <1>t, <2>1, <2>3, <3>1, <3>7 DEF Applied
        <5> QED
          BY <1>t, <2>1, <2>2, <5>1 DEF Phase
      <4>2. \A b \in Blocks : Image[b] = file[b]
        BY <3>7 DEF Image
      <4>3. Image' = [b \in Blocks |-> IF b - Offset[cur] \in 0 .. Size[cur] - 1
                                      THEN <<cur, b - Offset[cur]>> ELSE Image[b]]
        BY <3>4, <4>2
      <4> QED
        BY <3>1, <3>2, <4>1, <4>3, Zenon DEF D!Write, D!Advance
    <3> QED
      BY <1>t, <3>6, <3>7
  <2> QED
    BY <1>3, <2>4, <2>5
<1>4. CASE Reply
  <2> USE DEF Reply, Runs
  <2>1. CASE ~ClientOpen
    BY <1>4, <1>0, <1>u, <2>1
  <2>2. CASE ClientOpen
    <3>1. /\ cur \in Requests /\ stage[cur] = "served"
          /\ cur \in Transfers => moved = Size[cur]
          /\ stage' = [stage EXCEPT ![cur] = "answered"]
          /\ cur' = NoRequest /\ UNCHANGED <<moved, chunk, file>>
          /\ \A q \in Requests : q # cur => stage[q] # "served"
      BY <1>4, <2>2 DEF Inv, Serving
    <3>2. \A q \in Transfers : q = cur => Applied(q) /\ Applied(q)'
      BY <1>t, <3>1 DEF Applied
    <3>3. \A q \in Transfers : q # cur => stage'[q] = stage[q] /\ Applied(q)' = Applied(q)
      BY <1>t, <3>1 DEF Applied
    <3>4. Phase' = Phase
      BY <1>t, <3>1, <3>2, <3>3 DEF Phase
    <3>5. Result' = Result
      BY <1>t, <3>1, <3>2, <3>3 DEF Result
    <3>6. ASSUME NEW b \in Blocks, cur \in Writes, b - Offset[cur] \in 0 .. Size[cur] - 1
          PROVE  file[b] = <<cur, b - Offset[cur]>>
      <4>1. \A k \in 0 .. Size[cur] - 1 : file[Offset[cur] + k] = <<cur, k>>
        BY <1>t, <3>1, <3>6 DEF Inv, Transferred
      <4>2. b = Offset[cur] + (b - Offset[cur])
        BY <1>t, <3>6
      <4> QED
        BY <3>6, <4>1, <4>2
    <3>7. Image' = Image
      BY <1>t, <3>1, <3>6 DEF Image
    <3> QED
      BY <1>u, <3>4, <3>5, <3>7
  <2> QED
    BY <2>1, <2>2
<1>5. ASSUME NEW r \in Requests, Submit(r) PROVE Unseen \/ (r \in Transfers /\ D!Submit(r))
  <2>1. /\ stage[r] = "idle" /\ stage' = [stage EXCEPT ![r] = "sent"]
        /\ UNCHANGED <<cur, moved, chunk, file>>
    BY <1>5 DEF Submit
  <2>2. \A q \in Transfers : q # r => stage'[q] = stage[q] /\ Applied(q)' = Applied(q)
    BY <1>t, <2>1 DEF Applied
  <2>3. r \in Transfers => ~Applied(r) /\ ~Applied(r)'
    BY <1>t, <2>1 DEF Applied
  <2>4. Image' = Image
    BY <2>1 DEF Image
  <2>5. Result' = Result
    BY <1>t, <2>1, <2>2, <2>3 DEF Result
  <2>6. r \notin Transfers => Phase' = Phase
    BY <1>t, <2>1, <2>2 DEF Phase
  <2>7. r \in Transfers => Phase[r] = "idle" /\ Phase' = [Phase EXCEPT ![r] = "submitted"]
    BY <1>t, <2>1, <2>2, <2>3 DEF Phase
  <2> QED
    BY <2>4, <2>5, <2>6, <2>7 DEF D!Submit, D!Advance
<1>6. ASSUME NEW r \in Requests, Receive(r) PROVE Unseen \/ (r \in Transfers /\ D!Reply(r))
  <2>1. /\ toKernel # <<>> /\ r = Head(toKernel)
        /\ stage' = [stage EXCEPT ![r] = "replied"]
        /\ UNCHANGED <<cur, moved, chunk, file>>
    BY <1>6 DEF Receive
  <2>2. stage[r] = "answered"
    <3>1. /\ toKernel \in Seq(Requests) /\ Requests \in SUBSET Messages
          /\ Lined(toKernel, stage, "answered") /\ {"answered", "replied"} \subseteq Stages
      BY DEF Inv, Typed, Stages, Messages
    <3> QED
      BY <1>t, <2>1, <3>1, LinedTail
  <2>3. \A q \in Transfers : q # r => stage'[q] = stage[q] /\ Applied(q)' = Applied(q)
    BY <1>t, <2>1 DEF Applied
  <2>4. r \in Transfers => Applied(r)
    BY <2>2 DEF Applied
  <2>5. Image' = Image
    BY <2>1 DEF Image
  <2>6. Result' = Result
    BY <1>t, <2>1, <2>3, <2>4 DEF Result
  <2>7. r \notin Transfers => Phase' = Phase
    BY <1>t, <2>1, <2>3 DEF Phase
  <2>8. r \in Transfers => Phase[r] = "applied" /\ Phase' = [Phase EXCEPT ![r] = "replied"]
    BY <1>t, <2>1, <2>2, <2>3, <2>4 DEF Phase
  <2> QED
    BY <2>5, <2>6, <2>7, <2>8 DEF D!Reply, D!Advance
<1>7. CASE UNCHANGED vars
  BY <1>7, <1>0, <1>u DEF vars
<1>8. ASSUME NEW r \in Transfers, D!Submit(r) \/ D!Read(r) \/ D!Write(r) \/ D!Reply(r)
      PROVE  D!Next
  BY <1>8 DEF D!Next, D!All, Transfers
<1>9. \A n \in BlockCounts : Transfer(n) => cur \in Transfers
  BY DEF Transfer, Runs, Inv, Serving
<1> HIDE DEF Unseen
<1> QED
  BY <1>1, <1>2, <1>3, <1>4, <1>5, <1>6, <1>7, <1>8, <1>9, <1>u
     DEF Next, Parent, Messages

(***************************************************************************)
(* busexmp and loopback are block devices to the kernel: a read answers    *)
(* what the blocks held at one moment between its submission and its       *)
(* reply, whatever signal, failure or kill cuts the service short.         *)
(***************************************************************************)
THEOREM BuseIsBlockDevice == Spec => ImplementsDevice
  BY InitImplementsDevice, InvInit, InvStep, StepImplementsDevice, PTL
     DEF Spec, ImplementsDevice, D!Spec

--------------------------------------------------------------------------------

(***************************************************************************)
(* Every request of stage p is in the queue, and those of b stand before   *)
(* every Disc.                                                             *)
(***************************************************************************)
Held(q, st, p) == \A r \in Requests : st[r] = p => \E i \in 1 .. Len(q) : q[i] = r

Ahead(q, b) == \A i, j \in 1 .. Len(q) : q[i] \in b /\ q[j] = Disc => i < j

LEMMA HeldAppend ==
    ASSUME NEW S, NEW q \in Seq(S), NEW x \in S, NEW st, NEW p, Held(q, st, p)
    PROVE  Held(Append(q, x), st, p)
<1> SUFFICES ASSUME NEW r \in Requests, st[r] = p
             PROVE  \E i \in 1 .. Len(Append(q, x)) : Append(q, x)[i] = r
  BY DEF Held
<1>1. PICK i \in 1 .. Len(q) : q[i] = r
  BY DEF Held
<1>2. i \in 1 .. Len(Append(q, x)) /\ Append(q, x)[i] = r
  BY <1>1, AppendElements
<1> QED
  BY <1>2

LEMMA HeldAdd ==
    ASSUME NEW S, NEW q \in Seq(S), NEW r \in S,
           NEW st \in [Requests -> Stages], NEW p \in Stages, Held(q, st, p)
    PROVE  Held(Append(q, r), [st EXCEPT ![r] = p], p)
<1> SUFFICES ASSUME NEW x \in Requests, [st EXCEPT ![r] = p][x] = p
             PROVE  \E i \in 1 .. Len(Append(q, r)) : Append(q, r)[i] = x
  BY DEF Held
<1>1. CASE x = r
  <2>1. Len(q) + 1 \in 1 .. Len(Append(q, r)) /\ Append(q, r)[Len(q) + 1] = x
    BY <1>1, AppendElements
  <2> QED
    BY <2>1
<1>2. CASE x # r
  <2>1. PICK i \in 1 .. Len(q) : q[i] = x
    BY <1>2 DEF Held
  <2>2. i \in 1 .. Len(Append(q, r)) /\ Append(q, r)[i] = x
    BY <2>1, AppendElements
  <2> QED
    BY <2>2
<1> QED
  BY <1>1, <1>2

LEMMA HeldTail ==
    ASSUME NEW S, NEW q \in Seq(S), q # <<>>, NEW st \in [Requests -> Stages],
           NEW p, Held(q, st, p), Head(q) \in Requests => st[Head(q)] # p
    PROVE  Held(Tail(q), st, p)
<1> SUFFICES ASSUME NEW r \in Requests, st[r] = p
             PROVE  \E i \in 1 .. Len(Tail(q)) : Tail(q)[i] = r
  BY DEF Held
<1>1. PICK i \in 1 .. Len(q) : q[i] = r
  BY DEF Held
<1>2. i # 1
  BY <1>1, TailElements
<1>3. i - 1 \in 1 .. Len(Tail(q)) /\ Tail(q)[i - 1] = r
  BY <1>1, <1>2, TailElements
<1> QED
  BY <1>3

LEMMA HeldKept ==
    ASSUME NEW q, NEW r, NEW st \in [Requests -> Stages], NEW p, NEW y, y # p, Held(q, st, p)
    PROVE  Held(q, [st EXCEPT ![r] = y], p)
  BY DEF Held

LEMMA AheadAppend ==
    ASSUME NEW S, NEW q \in Seq(S), NEW x \in S, NEW b, Ahead(q, b), x \notin b
    PROVE  Ahead(Append(q, x), b)
<1> SUFFICES ASSUME NEW i \in 1 .. Len(Append(q, x)), NEW j \in 1 .. Len(Append(q, x)),
                    Append(q, x)[i] \in b, Append(q, x)[j] = Disc
             PROVE  i < j
  BY DEF Ahead
<1>1. i \in 1 .. Len(q) /\ q[i] \in b
  BY AppendElements
<1>2. CASE j \in 1 .. Len(q)
  <2>1. q[j] = Disc
    BY <1>2, AppendElements
  <2> QED
    BY <1>1, <1>2, <2>1 DEF Ahead
<1>3. CASE j \notin 1 .. Len(q)
  BY <1>1, <1>3, AppendElements
<1> QED
  BY <1>2, <1>3

LEMMA AheadTail ==
    ASSUME NEW S, NEW q \in Seq(S), q # <<>>, NEW b, Ahead(q, b)
    PROVE  Ahead(Tail(q), b)
<1> SUFFICES ASSUME NEW i \in 1 .. Len(Tail(q)), NEW j \in 1 .. Len(Tail(q)),
                    Tail(q)[i] \in b, Tail(q)[j] = Disc
             PROVE  i < j
  BY DEF Ahead
<1>1. /\ i + 1 \in 1 .. Len(q) /\ j + 1 \in 1 .. Len(q)
      /\ q[i + 1] \in b /\ q[j + 1] = Disc
  BY TailElements
<1>2. i + 1 < j + 1
  BY <1>1 DEF Ahead
<1> QED
  BY <1>2

--------------------------------------------------------------------------------

(***************************************************************************)
(* What makes SuccessIsClean inductive.  The disconnect is behind all that *)
(* was sent before it, so whoever has taken it has answered them; the      *)
(* child's place fixes the device's; and the child is past NBD_DO_IT only  *)
(* when the parent has closed its end and the replies were read.           *)
(***************************************************************************)
Queued == Held(toServer, stage, "sent") /\ Held(toKernel, stage, "answered")

Behind ==
    /\ ~asked => before = {} /\ \A i \in 1 .. Len(toServer) : toServer[i] # Disc
    /\ before \in SUBSET Requests
    /\ \A r \in before : stage[r] # "idle"
    /\ Ahead(toServer, before)

Bound ==
    /\ child = "do_it" => nbd = "running"
    /\ child = "clear" => nbd = "shut"
    /\ child = "success" => nbd = "free"
    /\ child \in {"clear", "success"} => ~ServerOpen

Answered ==
    /\ parent = "wait" /\ child \notin {"failure", "killed"} =>
          asked /\ \A r \in before : stage[r] \in {"answered", "replied"}
    /\ parent = "wait" /\ child \in {"clear", "success"} =>
          \A r \in before : stage[r] = "replied"
    /\ backend = "busexmp" /\ status = "success" =>
          parent = "wait" /\ child \in {"success", "killed"}

Clean == Queued /\ Behind /\ Bound /\ Answered

LEMMA CleanInit == Init => Clean
  BY BuseAssumption DEF Init, Clean, Queued, Behind, Bound, Answered, Held, Ahead, ServerOpen

LEMMA CleanQueued == Inv /\ Clean /\ [Next]_vars => Queued'
<1> SUFFICES ASSUME Inv, Clean, [Next]_vars PROVE Queued'
  OBVIOUS
<1>t. /\ stage \in [Requests -> Stages]
      /\ {"idle", "sent", "served", "answered", "replied"} \subseteq Stages
      /\ toServer \in Seq(Messages) /\ toKernel \in Seq(Requests)
      /\ Requests = Messages \ {Disc}
      /\ Held(toServer, stage, "sent") /\ Held(toKernel, stage, "answered")
  BY BuseAssumption DEF Inv, Typed, Messages, Stages, Clean, Queued
<1>0. ASSUME UNCHANGED socketVars PROVE Queued'
  BY <1>0, <1>t DEF socketVars, Queued, Held
<1> USE DEF parentVars, serveVars, driverVars, socketVars
<1>1. CASE SetUp \/ Fork \/ SetSigInt \/ SetSigTerm \/ EndOfSocket \/ WaitPid \/ TransferFails
  BY <1>0, <1>1 DEF SetUp, Fork, SetSigInt, SetSigTerm, EndOfSocket, WaitPid, TransferFails
<1>2. CASE Mask \/ SetSock \/ DoIt \/ DoItReturns \/ Clear \/ KillChild \/ \E s \in Signals : Signal(s)
  BY <1>0, <1>2 DEF Mask, SetSock, DoIt, DoItReturns, Clear, KillChild, Signal
<1>3. ASSUME NEW r \in Messages, Take(r) PROVE Queued'
  <2>1. toServer # <<>> /\ r = Head(toServer) /\ toServer' = Tail(toServer) /\ toKernel' = toKernel
    BY <1>3 DEF Take
  <2>2. CASE r = Disc
    <3>1. stage' = stage
      BY <1>3, <2>2 DEF Take
    <3>2. Held(Tail(toServer), stage, "sent")
      BY <1>t, <2>1, <2>2, HeldTail
    <3> QED
      BY <1>t, <2>1, <3>1, <3>2 DEF Queued
  <2>3. CASE r # Disc
    <3> DEFINE st == [stage EXCEPT ![r] = "served"]
    <3>1. stage' = st /\ r \in Requests
      BY <1>3, <1>t, <2>3 DEF Take
    <3>2. st \in [Requests -> Stages] /\ st[r] # "sent"
      BY <1>t, <3>1
    <3>3. Held(toServer, st, "sent") /\ Held(toKernel, st, "answered")
      BY <1>t, HeldKept
    <3> HIDE DEF st
    <3>4. Held(Tail(toServer), st, "sent")
      BY <1>t, <2>1, <3>2, <3>3, HeldTail
    <3> QED
      BY <2>1, <3>1, <3>3, <3>4 DEF Queued
  <2> QED
    BY <2>2, <2>3
<1>4. ASSUME NEW n \in BlockCounts, Transfer(n) PROVE Queued'
  BY <1>0, <1>4 DEF Transfer
<1>5. CASE Reply
  <2>1. CASE ClientOpen
    <3>1. /\ toKernel' = Append(toKernel, cur) /\ toServer' = toServer
          /\ stage' = [stage EXCEPT ![cur] = "answered"] /\ cur \in Requests
      BY <1>5, <2>1 DEF Reply, Runs, Inv, Serving
    <3>2. Held(Append(toKernel, cur), [stage EXCEPT ![cur] = "answered"], "answered")
      BY <1>t, <3>1, HeldAdd
    <3>3. Held(toServer, [stage EXCEPT ![cur] = "answered"], "sent")
      BY <1>t, HeldKept
    <3> QED
      BY <3>1, <3>2, <3>3 DEF Queued
  <2>2. CASE ~ClientOpen
    BY <1>0, <1>5, <2>2 DEF Reply
  <2> QED
    BY <2>1, <2>2
<1>6. CASE Disconnect
  <2>1. stage' = stage /\ toKernel' = toKernel
    BY <1>6 DEF Disconnect
  <2>2. Held(toServer', stage, "sent")
    <3>1. CASE ServerOpen
      <4>1. toServer' = Append(toServer, Disc) /\ Disc \in Messages
        BY <1>6, <3>1 DEF Disconnect, Messages
      <4> QED
        BY <1>t, <4>1, HeldAppend
    <3>2. CASE ~ServerOpen
      BY <1>6, <1>t, <3>2 DEF Disconnect
    <3> QED
      BY <3>1, <3>2
  <2> QED
    BY <1>t, <2>1, <2>2 DEF Queued
<1>7. CASE DisconnectNbd
  <2>1. CASE HandlerAsks
    BY <1>6, <2>1 DEF HandlerAsks
  <2>2. CASE ~HandlerAsks
    BY <1>0, <1>7, <2>2 DEF DisconnectNbd
  <2> QED
    BY <2>1, <2>2
<1>8. CASE NbdClient
  BY <1>6, <1>8 DEF NbdClient
<1>9. ASSUME NEW r \in Requests, Submit(r) PROVE Queued'
  <2>1. /\ stage' = [stage EXCEPT ![r] = "sent"] /\ toKernel' = toKernel
        /\ toServer' = Append(toServer, r) /\ r \in Messages
    BY <1>9 DEF Submit, Messages
  <2>2. Held(Append(toServer, r), [stage EXCEPT ![r] = "sent"], "sent")
    BY <1>t, <2>1, HeldAdd
  <2>3. Held(toKernel, [stage EXCEPT ![r] = "sent"], "answered")
    BY <1>t, HeldKept
  <2> QED
    BY <2>1, <2>2, <2>3 DEF Queued
<1>10. ASSUME NEW r \in Requests, Receive(r) PROVE Queued'
  <2> DEFINE st == [stage EXCEPT ![r] = "replied"]
  <2>1. /\ toKernel # <<>> /\ r = Head(toKernel) /\ toServer' = toServer
        /\ stage' = st /\ toKernel' = Tail(toKernel)
    BY <1>10 DEF Receive
  <2>2. st \in [Requests -> Stages] /\ st[r] # "answered"
    BY <1>t
  <2>3. Held(toServer, st, "sent") /\ Held(toKernel, st, "answered")
    BY <1>t, HeldKept
  <2> HIDE DEF st
  <2>4. Held(Tail(toKernel), st, "answered")
    BY <1>t, <2>1, <2>2, <2>3, HeldTail
  <2> QED
    BY <2>1, <2>3, <2>4 DEF Queued
<1>11. CASE UNCHANGED vars
  BY <1>0, <1>11 DEF vars
<1> QED
  BY <1>1, <1>2, <1>3, <1>4, <1>5, <1>7, <1>8, <1>9, <1>10, <1>11
     DEF Next, Parent, Child, Messages

LEMMA CleanBehind == Inv /\ Clean /\ [Next]_vars => Behind'
<1> SUFFICES ASSUME Inv, Clean, [Next]_vars PROVE Behind'
  OBVIOUS
<1>t. /\ stage \in [Requests -> Stages]
      /\ toServer \in Seq(Messages) /\ toKernel \in Seq(Requests)
      /\ Requests = Messages \ {Disc} /\ before \in SUBSET Requests
      /\ \A r \in before : stage[r] # "idle"
      /\ Ahead(toServer, before)
      /\ ~asked => before = {} /\ \A i \in 1 .. Len(toServer) : toServer[i] # Disc
  BY BuseAssumption DEF Inv, Typed, Messages, Clean, Behind
<1>0. ASSUME UNCHANGED <<toServer, asked, before>>, \A r \in before : stage'[r] # "idle"
      PROVE  Behind'
  BY <1>0, <1>t DEF Behind, Ahead
<1>01. ASSUME UNCHANGED <<toServer, asked, before, stage>> PROVE Behind'
  BY <1>0, <1>01, <1>t
<1> USE DEF parentVars, serveVars, driverVars, socketVars
<1>1. CASE SetUp \/ Fork \/ SetSigInt \/ SetSigTerm \/ EndOfSocket \/ WaitPid \/ TransferFails
  BY <1>01, <1>1 DEF SetUp, Fork, SetSigInt, SetSigTerm, EndOfSocket, WaitPid, TransferFails
<1>2. CASE Mask \/ SetSock \/ DoIt \/ DoItReturns \/ Clear \/ KillChild \/ \E s \in Signals : Signal(s)
  BY <1>01, <1>2 DEF Mask, SetSock, DoIt, DoItReturns, Clear, KillChild, Signal
<1>3. ASSUME NEW r \in Messages, Take(r) PROVE Behind'
  <2>1. toServer # <<>> /\ toServer' = Tail(toServer) /\ UNCHANGED <<asked, before>>
    BY <1>3 DEF Take
  <2>2. \A x \in before : stage'[x] # "idle"
    BY <1>3, <1>t DEF Take
  <2>3. Ahead(Tail(toServer), before)
    BY <1>t, <2>1, AheadTail
  <2>4. ~asked => \A i \in 1 .. Len(Tail(toServer)) : Tail(toServer)[i] # Disc
    <3> SUFFICES ASSUME ~asked, NEW i \in 1 .. Len(Tail(toServer)) PROVE Tail(toServer)[i] # Disc
      OBVIOUS
    <3>1. i + 1 \in 1 .. Len(toServer) /\ Tail(toServer)[i] = toServer[i + 1]
      BY <1>t, <2>1, TailElements
    <3> QED
      BY <1>t, <3>1
  <2> QED
    BY <1>t, <2>1, <2>2, <2>3, <2>4 DEF Behind
<1>4. ASSUME NEW n \in BlockCounts, Transfer(n) PROVE Behind'
  BY <1>01, <1>4 DEF Transfer
<1>5. CASE Reply
  <2>1. UNCHANGED <<toServer, asked, before>>
    BY <1>5 DEF Reply
  <2>2. \A r \in before : stage'[r] # "idle"
    BY <1>5, <1>t DEF Reply
  <2> QED
    BY <1>0, <2>1, <2>2
<1>6. CASE Disconnect
  <2> DEFINE b == IF asked THEN before ELSE {r \in Requests : stage[r] # "idle"}
  <2>1. asked' = TRUE /\ before' = b /\ stage' = stage
    BY <1>6 DEF Disconnect
  <2>2. b \in SUBSET Requests /\ \A r \in b : stage[r] # "idle"
    BY <1>t
  <2>3. Ahead(toServer, b)
    <3>1. CASE asked
      BY <1>t, <3>1
    <3>2. CASE ~asked
      BY <1>t, <3>2 DEF Ahead
    <3> QED
      BY <3>1, <3>2
  <2> HIDE DEF b
  <2>4. Ahead(toServer', b)
    <3>1. CASE ServerOpen
      <4>1. toServer' = Append(toServer, Disc) /\ Disc \in Messages /\ Disc \notin b
        BY <1>6, <1>t, <2>2, <3>1 DEF Disconnect, Messages
      <4> QED
        BY <1>t, <2>3, <4>1, AheadAppend
    <3>2. CASE ~ServerOpen
      BY <1>6, <2>3, <3>2 DEF Disconnect
    <3> QED
      BY <3>1, <3>2
  <2> QED
    BY <2>1, <2>2, <2>4 DEF Behind
<1>7. CASE DisconnectNbd
  <2>1. CASE HandlerAsks
    BY <1>6, <2>1 DEF HandlerAsks
  <2>2. CASE ~HandlerAsks
    BY <1>01, <1>7, <2>2 DEF DisconnectNbd
  <2> QED
    BY <2>1, <2>2
<1>8. CASE NbdClient
  BY <1>6, <1>8 DEF NbdClient
<1>9. ASSUME NEW r \in Requests, Submit(r) PROVE Behind'
  <2>1. /\ stage[r] = "idle" /\ stage' = [stage EXCEPT ![r] = "sent"]
        /\ toServer' = Append(toServer, r) /\ r \in Messages \ {Disc}
        /\ UNCHANGED <<asked, before>>
    BY <1>9, <1>t DEF Submit
  <2>2. Ahead(Append(toServer, r), before)
    BY <1>t, <2>1, AheadAppend
  <2>3. \A x \in before : stage'[x] # "idle"
    BY <1>t, <2>1
  <2>4. ~asked => \A i \in 1 .. Len(Append(toServer, r)) : Append(toServer, r)[i] # Disc
    <3> SUFFICES ASSUME ~asked, NEW i \in 1 .. Len(Append(toServer, r))
                 PROVE  Append(toServer, r)[i] # Disc
      OBVIOUS
    <3>1. /\ Len(toServer) \in Nat /\ Len(Append(toServer, r)) = Len(toServer) + 1
          /\ \A j \in 1 .. Len(toServer) : Append(toServer, r)[j] = toServer[j]
          /\ Append(toServer, r)[Len(toServer) + 1] = r
      BY <1>t, <2>1, AppendElements
    <3>2. i \in 1 .. Len(toServer) \/ i = Len(toServer) + 1
      BY <3>1
    <3> QED
      BY <1>t, <2>1, <3>1, <3>2
  <2> QED
    BY <1>t, <2>1, <2>2, <2>3, <2>4 DEF Behind
<1>10. ASSUME NEW r \in Requests, Receive(r) PROVE Behind'
  <2>1. UNCHANGED <<toServer, asked, before>> /\ stage' = [stage EXCEPT ![r] = "replied"]
    BY <1>10 DEF Receive
  <2>2. \A x \in before : stage'[x] # "idle"
    BY <1>t, <2>1
  <2> QED
    BY <1>0, <2>1, <2>2
<1>11. CASE UNCHANGED vars
  BY <1>01, <1>11 DEF vars
<1> QED
  BY <1>1, <1>2, <1>3, <1>4, <1>5, <1>7, <1>8, <1>9, <1>10, <1>11
     DEF Next, Parent, Child, Messages

\* No step of the parent opens its end again.
LEMMA StaysClosed == Inv /\ [Next]_vars /\ ~ServerOpen => ~ServerOpen'
<1> SUFFICES ASSUME Inv, [Next]_vars, ~ServerOpen PROVE ~ServerOpen'
  OBVIOUS
<1> USE DEF parentVars, serveVars, driverVars, socketVars, ServerOpen, Runs
<1>1. CASE SetUp \/ Fork \/ SetSigInt \/ SetSigTerm \/ EndOfSocket \/ TransferFails \/ Reply
  BY <1>1 DEF SetUp, Fork, SetSigInt, SetSigTerm, EndOfSocket, TransferFails, Reply
<1>2. CASE Mask \/ SetSock \/ DoIt \/ DoItReturns \/ Clear \/ KillChild \/ \E s \in Signals : Signal(s)
  BY <1>2 DEF Mask, SetSock, DoIt, DoItReturns, Clear, KillChild, Signal
<1>3. CASE WaitPid
  BY <1>3 DEF WaitPid, Return
<1>4. CASE (\E r \in Messages : Take(r)) \/ (\E n \in BlockCounts : Transfer(n))
  BY <1>4 DEF Take, Transfer
<1>5. CASE DisconnectNbd
  BY <1>5 DEF DisconnectNbd, HandlerAsks
<1>6. CASE NbdClient \/ (\E r \in Requests : Submit(r) \/ Receive(r)) \/ UNCHANGED vars
  BY <1>6 DEF NbdClient, Submit, Receive, vars
<1> QED
  BY <1>1, <1>2, <1>3, <1>4, <1>5, <1>6 DEF Next, Parent, Child, Messages

LEMMA CleanBound == Inv /\ Clean /\ [Next]_vars => Bound'
<1> SUFFICES ASSUME Inv, Clean, [Next]_vars PROVE Bound'
  OBVIOUS
<1>0. Bound
  BY DEF Clean
<1>1. ~ServerOpen => ~ServerOpen'
  BY StaysClosed
<1> USE DEF parentVars, serveVars, driverVars, socketVars
<1>2. CASE UNCHANGED <<child, nbd>>
  BY <1>0, <1>1, <1>2 DEF Bound
<1>3. CASE Mask \/ SetSock \/ DoIt \/ Clear \/ KillChild
  BY <1>0, <1>1, <1>3 DEF Mask, SetSock, DoIt, Clear, KillChild, Bound, Ended
<1>4. CASE DoItReturns
  <2>1. ~ServerOpen'
    BY <1>1, <1>4 DEF DoItReturns
  <2> QED
    BY <1>4, <2>1 DEF DoItReturns, Bound
<1>5. CASE Fork
  BY <1>5 DEF Fork, Bound
<1>6. CASE SetUp \/ SetSigInt \/ SetSigTerm \/ EndOfSocket \/ WaitPid \/ TransferFails \/ Reply
  BY <1>2, <1>6 DEF SetUp, SetSigInt, SetSigTerm, EndOfSocket, WaitPid, TransferFails, Reply
<1>7. CASE (\E r \in Messages : Take(r)) \/ (\E n \in BlockCounts : Transfer(n))
  BY <1>2, <1>7 DEF Take, Transfer
<1>8. CASE DisconnectNbd \/ NbdClient \/ \E s \in Signals : Signal(s)
  BY <1>2, <1>8 DEF DisconnectNbd, HandlerAsks, Disconnect, NbdClient, Signal
<1>9. CASE (\E r \in Requests : Submit(r) \/ Receive(r)) \/ UNCHANGED vars
  BY <1>2, <1>9 DEF Submit, Receive, vars
<1> QED
  BY <1>3, <1>4, <1>5, <1>6, <1>7, <1>8, <1>9 DEF Next, Parent, Child, Messages

LEMMA CleanAnswered == Inv /\ Clean /\ [Next]_vars => Answered'
<1> SUFFICES ASSUME Inv, Clean, [Next]_vars PROVE Answered'
  OBVIOUS
<1>t. /\ stage \in [Requests -> Stages] /\ before \in SUBSET Requests
      /\ Answered /\ Bound /\ Behind
  BY DEF Inv, Typed, Clean, Behind
<1> USE DEF parentVars, serveVars, driverVars, socketVars, Runs, ServerOpen
<1>0. ASSUME UNCHANGED <<backend, parent, child, asked, before, stage>>,
             status' = status \/ status' # "success"
      PROVE  Answered'
  BY <1>0, <1>t DEF Answered
<1>1. CASE SetUp \/ TransferFails
  BY <1>1, <1>0, <1>t DEF SetUp, TransferFails, Answered, Return
<1>2. CASE Fork \/ SetSigInt \/ SetSigTerm
  BY <1>2, <1>t DEF Fork, SetSigInt, SetSigTerm, Answered, Return
<1>3. CASE EndOfSocket
  <2>1. child \in {"failure", "killed"}
    BY <1>3, <1>t DEF EndOfSocket, ClientOpen, Ended, Bound
  <2> QED
    BY <1>3, <1>t, <2>1 DEF EndOfSocket, Answered, Return
<1>4. CASE WaitPid
  BY <1>4, <1>t DEF WaitPid, Answered, Return, Ended
<1>5. ASSUME NEW s \in Signals, Signal(s) PROVE Answered'
  BY <1>0, <1>5 DEF Signal
<1>6. CASE Mask \/ SetSock \/ DoIt
  BY <1>6, <1>t DEF Mask, SetSock, DoIt, Answered
<1>7. CASE DoItReturns
  <2>1. toKernel = <<>> /\ Held(toKernel, stage, "answered")
    BY <1>7 DEF DoItReturns, Clean, Queued
  <2>2. \A r \in Requests : stage[r] # "answered"
    BY <2>1 DEF Held
  <2>3. parent = "wait" => \A r \in before : stage[r] = "replied"
    BY <1>7, <1>t, <2>2 DEF DoItReturns, Answered
  <2> QED
    BY <1>7, <1>t, <2>3 DEF DoItReturns, Answered
<1>8. CASE Clear \/ KillChild
  BY <1>8, <1>t DEF Clear, KillChild, Answered, Ended
<1>9. ASSUME NEW r \in Messages, Take(r) PROVE Answered'
  <2>0. /\ toServer \in Seq(Messages) /\ toServer # <<>> /\ r = Head(toServer)
        /\ status = "none" /\ parent = "serve" /\ UNCHANGED <<backend, status, child, asked, before>>
    BY <1>9 DEF Take, Inv, Typed
  <2>1. CASE r # Disc
    BY <1>9, <2>0, <2>1 DEF Take, Answered
  <2>2. CASE r = Disc
    <3>1. 1 \in 1 .. Len(toServer) /\ toServer[1] = Disc
      BY <2>0, <2>2, TailElements
    <3>2. asked
      BY <1>t, <3>1 DEF Behind
    <3>3. ASSUME NEW x \in before PROVE stage[x] \in {"answered", "replied"}
      <4>1. stage[x] # "idle" /\ x \in Requests
        BY <1>t DEF Behind
      <4>2. stage[x] # "served"
        <5>1. cur = NoRequest
          BY <2>0 DEF Inv, Serving
        <5> QED
          BY <4>1, <5>1, BuseAssumption DEF Inv, Serving
      <4>3. stage[x] # "sent"
        <5> SUFFICES ASSUME stage[x] = "sent" PROVE FALSE
          OBVIOUS
        <5>1. PICK i \in 1 .. Len(toServer) : toServer[i] = x
          BY <4>1 DEF Clean, Queued, Held
        <5>2. i < 1
          BY <1>t, <3>1, <5>1 DEF Behind, Ahead
        <5> QED
          BY <5>2
      <4> QED
        BY <1>t, <4>1, <4>2, <4>3 DEF Stages
    <3>4. child \notin {"clear", "success"}
      BY <1>t, <2>0 DEF Bound
    <3>5. stage' = stage
      BY <1>9, <2>2 DEF Take
    <3> QED
      BY <2>0, <3>2, <3>3, <3>4, <3>5 DEF Answered
  <2> QED
    BY <2>1, <2>2
<1>10. ASSUME NEW n \in BlockCounts, Transfer(n) PROVE Answered'
  BY <1>10, <1>t DEF Transfer, Answered
<1>11. CASE Reply
  BY <1>11, <1>t DEF Reply, Answered
<1>12. CASE Disconnect /\ UNCHANGED <<backend, parent, status, child>>
  BY <1>12, <1>t DEF Disconnect, Connected, Answered, Bound
<1>13. CASE DisconnectNbd
  <2>1. CASE HandlerAsks
    BY <1>12, <1>13, <2>1 DEF DisconnectNbd, HandlerAsks
  <2>2. CASE ~HandlerAsks
    BY <1>0, <1>13, <2>2 DEF DisconnectNbd
  <2> QED
    BY <2>1, <2>2
<1>14. CASE NbdClient
  BY <1>12, <1>14 DEF NbdClient
<1>15. ASSUME NEW r \in Requests, Submit(r) PROVE Answered'
  BY <1>15, <1>t DEF Submit, Answered
<1>16. ASSUME NEW r \in Requests, Receive(r) PROVE Answered'
  BY <1>16, <1>t DEF Receive, Answered
<1>17. CASE UNCHANGED vars
  BY <1>0, <1>17 DEF vars
<1> QED
  BY <1>1, <1>2, <1>3, <1>4, <1>5, <1>6, <1>7, <1>8, <1>9, <1>10, <1>11, <1>13, <1>14, <1>15,
     <1>16, <1>17 DEF Next, Parent, Child, Messages

(***************************************************************************)
(* An exit code 0 of busexmp can be trusted: unless the child was killed,  *)
(* everything sent before the disconnect was answered and the device is    *)
(* free, for any requests, room in the socket, signals and failures.       *)
(***************************************************************************)
THEOREM ExitCodeIsRight == Spec => []SuccessIsClean
<1>1. Clean => SuccessIsClean
  BY DEF Clean, Bound, Answered, SuccessIsClean
<1>2. Inv /\ Clean /\ [Next]_vars => Clean'
  BY CleanQueued, CleanBehind, CleanBound, CleanAnswered DEF Clean
<1> QED
  BY <1>1, <1>2, CleanInit, InvInit, InvStep, PTL DEF Spec
================================================================================
