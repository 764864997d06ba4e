--------------------------- MODULE RequestEngineProofs ---------------------------
(***************************************************************************)
(* Theorems about RequestEngine for any requests, devices and threads.     *)
(***************************************************************************)
EXTENDS RequestEngine, FiniteSetTheorems, SequenceTheorems, TLAPS

LEMMA MessageOfSeq ==
    ASSUME NEW q \in Seq(Message)
    PROVE  \A n \in 1 .. Len(q) : q[n].req \in Requests
<1> SUFFICES ASSUME NEW n \in 1 .. Len(q) PROVE q[n].req \in Requests
  OBVIOUS
<1>1. q[n] \in Message
  BY ElementOfSeq
<1> QED
  BY <1>1 DEF Message

(***************************************************************************)
(* The two directions of a socket obey one discipline.  The messages of    *)
(* q carry whole requests: the data of a request in S directly follows its *)
(* header.  The reader may have taken a header and be waiting for its data *)
(* (taken), the writer may have put a header and not yet the data (open).  *)
(***************************************************************************)
HasData(m, S) == m.kind = "header" /\ m.req \in S

Framed(q, taken, open, S) ==
    /\ q = <<>> => open = taken
    /\ q # <<>> =>
         /\ IF taken # NoRequest THEN q[1] = Data(taken) ELSE q[1].kind = "header"
         /\ open = IF HasData(q[Len(q)], S) THEN q[Len(q)].req ELSE NoRequest
    /\ \A n \in 1 .. Len(q) - 1 :
         IF HasData(q[n], S) THEN q[n + 1] = Data(q[n].req) ELSE q[n + 1].kind = "header"
    /\ \A n, m \in 1 .. Len(q) : n < m /\ q[n].req = q[m].req =>
         HasData(q[n], S) /\ q[m].kind = "data"
    /\ \A n \in 1 .. Len(q) : q[n].req = taken => q[n].kind = "data"

Apart(q, taken, r) == taken # r /\ \A n \in 1 .. Len(q) : q[n].req # r

LEMMA PutHeader ==
    ASSUME NEW q \in Seq(Message), NEW taken, NEW S \in SUBSET Requests, NEW r \in Requests,
           Framed(q, taken, NoRequest, S), Apart(q, taken, r)
    PROVE  Framed(Append(q, Header(r)), taken, IF r \in S THEN r ELSE NoRequest, S)
<1> DEFINE p == Append(q, Header(r))
<1>1. /\ p # <<>> /\ Len(p) = Len(q) + 1 /\ Len(q) \in Nat
      /\ \A n \in 1 .. Len(q) : p[n] = q[n]
      /\ p[Len(q) + 1] = Header(r)
  BY AppendProperties, LenProperties DEF Message, Header
<1>2. Header(r).kind = "header" /\ Header(r).req = r
  BY DEF Header
<1>3. q = <<>> => Len(q) = 0
  OBVIOUS
<1>4. q # <<>> => Len(q) >= 1
  BY EmptySeq, LenProperties
<1> HIDE DEF p
<1>5. IF taken # NoRequest THEN p[1] = Data(taken) ELSE p[1].kind = "header"
  BY <1>1, <1>2, <1>3, <1>4 DEF Framed
<1>6. (IF r \in S THEN r ELSE NoRequest) = IF HasData(p[Len(p)], S) THEN p[Len(p)].req ELSE NoRequest
  BY <1>1, <1>2 DEF HasData
<1>7. ASSUME NEW n \in 1 .. Len(p) - 1
      PROVE  IF HasData(p[n], S) THEN p[n + 1] = Data(p[n].req) ELSE p[n + 1].kind = "header"
  <2>1. CASE n < Len(q)
    BY <1>1, <2>1 DEF Framed
  <2>2. CASE n = Len(q)
    <3>1. ~HasData(q[Len(q)], S)
      BY <2>2, <1>1, <1>3, EngineAssumption DEF Framed, HasData, EngineAssumption
    <3> QED
      BY <1>1, <1>2, <2>2, <3>1
  <2> QED
    BY <1>1, <2>1, <2>2
<1>8. ASSUME NEW n \in 1 .. Len(p), NEW m \in 1 .. Len(p), n < m, p[n].req = p[m].req
      PROVE  HasData(p[n], S) /\ p[m].kind = "data"
  BY <1>1, <1>2, <1>8 DEF Framed, Apart
<1>9. ASSUME NEW n \in 1 .. Len(p), p[n].req = taken PROVE p[n].kind = "data"
  BY <1>1, <1>2, <1>9 DEF Framed, Apart
<1> QED
  BY <1>1, <1>5, <1>6, <1>7, <1>8, <1>9 DEF Framed, p

LEMMA PutData ==
    ASSUME NEW q \in Seq(Message), NEW taken, NEW S \in SUBSET Requests, NEW r \in S,
           Framed(q, taken, r, S)
    PROVE  Framed(Append(q, Data(r)), taken, NoRequest, S)
<1> DEFINE p == Append(q, Data(r))
<1>1. /\ p # <<>> /\ Len(p) = Len(q) + 1 /\ Len(q) \in Nat
      /\ \A n \in 1 .. Len(q) : p[n] = q[n]
      /\ p[Len(q) + 1] = Data(r)
  BY AppendProperties, LenProperties DEF Message, Data
<1>2. Data(r).kind = "data" /\ Data(r).req = r /\ r # NoRequest
  BY EngineAssumption DEF Data, EngineAssumption
<1>3. q = <<>> => Len(q) = 0
  OBVIOUS
<1>4. q # <<>> => Len(q) >= 1
  BY EmptySeq, LenProperties
<1>5. q # <<>> => HasData(q[Len(q)], S) /\ q[Len(q)].req = r
  BY <1>2 DEF Framed
<1> HIDE DEF p
<1>6. IF taken # NoRequest THEN p[1] = Data(taken) ELSE p[1].kind = "header"
  BY <1>1, <1>2, <1>3, <1>4 DEF Framed
<1>7. NoRequest = IF HasData(p[Len(p)], S) THEN p[Len(p)].req ELSE NoRequest
  BY <1>1, <1>2 DEF HasData
<1>8. ASSUME NEW n \in 1 .. Len(p) - 1
      PROVE  IF HasData(p[n], S) THEN p[n + 1] = Data(p[n].req) ELSE p[n + 1].kind = "header"
  <2>1. CASE n < Len(q)
    BY <1>1, <2>1 DEF Framed
  <2>2. CASE n = Len(q)
    BY <1>1, <1>3, <1>5, <2>2
  <2> QED
    BY <1>1, <2>1, <2>2
<1>9. ASSUME NEW n \in 1 .. Len(p), NEW m \in 1 .. Len(p), n < m, p[n].req = p[m].req
      PROVE  HasData(p[n], S) /\ p[m].kind = "data"
  <2>1. CASE m <= Len(q)
    BY <1>1, <1>9, <2>1 DEF Framed
  <2>2. CASE m = Len(q) + 1
    <3>1. n \in 1 .. Len(q) /\ q[n].req = r /\ q # <<>>
      BY <1>1, <1>2, <1>3, <1>9, <2>2
    <3>2. CASE n = Len(q)
      BY <1>1, <1>2, <1>5, <2>2, <3>1, <3>2
    <3>3. CASE n < Len(q)
      BY <1>1, <1>4, <1>5, <3>1, <3>3 DEF Framed, HasData
    <3> QED
      BY <3>1, <3>2, <3>3, <1>1
  <2> QED
    BY <1>1, <2>1, <2>2
<1>10. ASSUME NEW n \in 1 .. Len(p), p[n].req = taken PROVE p[n].kind = "data"
  BY <1>1, <1>2, <1>10 DEF Framed
<1> QED
  BY <1>1, <1>6, <1>7, <1>8, <1>9, <1>10 DEF Framed, p

LEMMA TakeHeader ==
    ASSUME NEW q \in Seq(Message), NEW open, NEW S \in SUBSET Requests, NEW r \in Requests,
           Framed(q, NoRequest, open, S), q # <<>>, Head(q) = Header(r)
    PROVE  /\ Framed(Tail(q), IF r \in S THEN r ELSE NoRequest, open, S)
           /\ r \notin S => Apart(Tail(q), NoRequest, r) /\ open # r
<1> DEFINE p == Tail(q)
<1>1. /\ p \in Seq(Message) /\ Len(p) = Len(q) - 1 /\ Len(p) \in Nat
      /\ \A n \in 1 .. Len(p) : p[n] = q[n + 1]
  BY HeadTailProperties, LenProperties
<1>2. q[1] = Header(r) /\ Header(r).kind = "header" /\ Header(r).req = r /\ r # NoRequest
  BY EngineAssumption DEF Header, EngineAssumption
<1>3. p # <<>> => Len(p) >= 1
  BY <1>1, EmptySeq
<1> HIDE DEF p
<1>4. p = <<>> => Len(q) = 1
  BY <1>1, EmptySeq
<1>5. \A n \in 1 .. Len(p) : p[n].req = r => r \in S /\ p[n].kind = "data"
  BY <1>1, <1>2 DEF Framed, HasData
<1>6. p = <<>> => open = IF r \in S THEN r ELSE NoRequest
  BY <1>2, <1>4 DEF Framed, HasData
<1>7. p # <<>> => /\ IF r \in S THEN p[1] = Data(r) ELSE p[1].kind = "header"
                  /\ open = IF HasData(p[Len(p)], S) THEN p[Len(p)].req ELSE NoRequest
  BY <1>1, <1>2, <1>3 DEF Framed, HasData
<1>8. ASSUME NEW n \in 1 .. Len(p) - 1
      PROVE  IF HasData(p[n], S) THEN p[n + 1] = Data(p[n].req) ELSE p[n + 1].kind = "header"
  <2>1. n + 1 \in 1 .. Len(q) - 1 /\ p[n] = q[n + 1] /\ p[n + 1] = q[(n + 1) + 1]
    BY <1>1
  <2> QED
    BY <2>1 DEF Framed
<1>9. \A n, m \in 1 .. Len(p) : n < m /\ p[n].req = p[m].req =>
         HasData(p[n], S) /\ p[m].kind = "data"
  BY <1>1 DEF Framed
<1>10. \A n \in 1 .. Len(p) : p[n].req # NoRequest
  BY <1>1, MessageOfSeq, EngineAssumption DEF EngineAssumption
<1>11. r \notin S => open # r
  BY <1>2, <1>6, <1>7 DEF HasData
<1> QED
  BY <1>2, <1>5, <1>6, <1>7, <1>8, <1>9, <1>10, <1>11 DEF Framed, Apart, p

LEMMA TakeData ==
    ASSUME NEW q \in Seq(Message), NEW open, NEW S \in SUBSET Requests, NEW r \in Requests,
           Framed(q, r, open, S), q # <<>>, Head(q) = Data(r)
    PROVE  /\ Framed(Tail(q), NoRequest, open, S)
           /\ Apart(Tail(q), NoRequest, r)
           /\ open # r
<1> DEFINE p == Tail(q)
<1>1. /\ p \in Seq(Message) /\ Len(p) = Len(q) - 1 /\ Len(p) \in Nat
      /\ \A n \in 1 .. Len(p) : p[n] = q[n + 1]
  BY HeadTailProperties, LenProperties
<1>2. q[1] = Data(r) /\ Data(r).kind = "data" /\ Data(r).req = r /\ r # NoRequest
  BY EngineAssumption DEF Data, EngineAssumption
<1>3. p # <<>> => Len(p) >= 1
  BY <1>1, EmptySeq
<1> HIDE DEF p
<1>4. p = <<>> => Len(q) = 1
  BY <1>1, EmptySeq
<1>5. \A n \in 1 .. Len(p) : p[n].req # r
  BY <1>1, <1>2 DEF Framed, HasData
<1>6. p = <<>> => open = NoRequest
  BY <1>2, <1>4 DEF Framed, HasData
<1>7. p # <<>> => /\ p[1].kind = "header"
                  /\ open = IF HasData(p[Len(p)], S) THEN p[Len(p)].req ELSE NoRequest
  BY <1>1, <1>2, <1>3 DEF Framed, HasData
<1>8. ASSUME NEW n \in 1 .. Len(p) - 1
      PROVE  IF HasData(p[n], S) THEN p[n + 1] = Data(p[n].req) ELSE p[n + 1].kind = "header"
  <2>1. n + 1 \in 1 .. Len(q) - 1 /\ p[n] = q[n + 1] /\ p[n + 1] = q[(n + 1) + 1]
    BY <1>1
  <2> QED
    BY <2>1 DEF Framed
<1>9. \A n, m \in 1 .. Len(p) : n < m /\ p[n].req = p[m].req =>
         HasData(p[n], S) /\ p[m].kind = "data"
  BY <1>1 DEF Framed
<1>10. \A n \in 1 .. Len(p) : p[n].req # NoRequest
  BY <1>1, MessageOfSeq, EngineAssumption DEF EngineAssumption
<1>11. open # r
  BY <1>1, <1>2, <1>3, <1>5, <1>6, <1>7
<1> QED
  BY <1>2, <1>5, <1>6, <1>7, <1>8, <1>9, <1>10, <1>11 DEF Framed, Apart, p

--------------------------------------------------------------------------------
(***************************************************************************)
(* One direction of the socket of device d.  A request that is in it is in *)
(* stage `partial` until its writer has put the data, then in `whole`.     *)
(***************************************************************************)
Carries(q, taken, st, d, partial, whole, S) ==
    /\ \E open \in Requests \union {NoRequest} :
         /\ Framed(q, taken, open, S)
         /\ \A r \in Requests : DeviceOf[r] = d /\ st[r] = partial <=> r = open
    /\ \A n \in 1 .. Len(q) : DeviceOf[q[n].req] = d /\ st[q[n].req] \in {partial, whole}
    /\ taken # NoRequest =>
         taken \in S /\ DeviceOf[taken] = d /\ st[taken] \in {partial, whole}

Complete(st, d, partial) ==
    \A r \in Requests : DeviceOf[r] = d => st[r] # partial

LEMMA CarriesHeader ==
    ASSUME NEW q \in Seq(Message), NEW taken, NEW S \in SUBSET Requests, NEW r \in Requests,
           NEW st \in [Requests -> Stages], NEW partial \in Stages, NEW whole \in Stages,
           Carries(q, taken, st, DeviceOf[r], partial, whole, S), partial # whole,
           st[r] \notin {partial, whole}, Complete(st, DeviceOf[r], partial),
           NEW x, x = (IF r \in S THEN partial ELSE whole)
    PROVE  Carries(Append(q, Header(r)), taken, [st EXCEPT ![r] = x],
                   DeviceOf[r], partial, whole, S)
<1> DEFINE p == Append(q, Header(r))
           new == [st EXCEPT ![r] = x]
           d == DeviceOf[r]
<1>1. /\ Len(p) = Len(q) + 1 /\ Len(q) \in Nat
      /\ \A n \in 1 .. Len(q) : p[n] = q[n]
      /\ p[Len(q) + 1] = Header(r)
  BY AppendProperties, LenProperties DEF Message, Header
<1>2. r # NoRequest /\ Header(r).req = r
  BY EngineAssumption DEF EngineAssumption, Header
<1>3. Apart(q, taken, r)
  BY <1>2 DEF Carries, Apart
<1>4. Framed(q, taken, NoRequest, S)
  BY DEF Carries, Complete
<1>5. Framed(p, taken, IF r \in S THEN r ELSE NoRequest, S)
  BY <1>3, <1>4, PutHeader
<1>6. \A u \in Requests : DeviceOf[u] = d /\ new[u] = partial <=>
                            u = IF r \in S THEN r ELSE NoRequest
  BY EngineAssumption DEF EngineAssumption, Complete
<1>7. ASSUME NEW n \in 1 .. Len(p)
      PROVE  DeviceOf[p[n].req] = d /\ new[p[n].req] \in {partial, whole}
  <2>1. CASE n \in 1 .. Len(q)
    <3>1. q[n].req \in Requests /\ p[n] = q[n]
      BY <1>1, <2>1, MessageOfSeq
    <3> QED
      BY <2>1, <3>1 DEF Carries
  <2>2. CASE n = Len(q) + 1
    BY <1>1, <1>2, <2>2
  <2> QED
    BY <1>1, <2>1, <2>2
<1>8. taken # NoRequest => taken \in S /\ DeviceOf[taken] = d /\ new[taken] \in {partial, whole}
  BY DEF Carries
<1> HIDE DEF p, new
<1>9. Carries(p, taken, new, d, partial, whole, S)
  BY <1>5, <1>6, <1>7, <1>8 DEF Carries
<1> QED
  BY <1>9 DEF p, new

LEMMA CarriesData ==
    ASSUME NEW q \in Seq(Message), NEW taken, NEW S \in SUBSET Requests, NEW r \in S,
           NEW st \in [Requests -> Stages], NEW partial \in Stages, NEW whole \in Stages,
           Carries(q, taken, st, DeviceOf[r], partial, whole, S), partial # whole,
           st[r] = partial
    PROVE  Carries(Append(q, Data(r)), taken, [st EXCEPT ![r] = whole],
                   DeviceOf[r], partial, whole, S)
<1> DEFINE p == Append(q, Data(r))
           new == [st EXCEPT ![r] = whole]
           d == DeviceOf[r]
<1>1. /\ Len(p) = Len(q) + 1 /\ Len(q) \in Nat
      /\ \A n \in 1 .. Len(q) : p[n] = q[n]
      /\ p[Len(q) + 1] = Data(r)
  BY AppendProperties, LenProperties DEF Message, Data
<1>2. r # NoRequest /\ Data(r).req = r
  BY EngineAssumption DEF EngineAssumption, Data
<1>3. /\ Framed(q, taken, r, S)
      /\ \A u \in Requests : DeviceOf[u] = d /\ st[u] = partial <=> u = r
  BY DEF Carries
<1>4. Framed(p, taken, NoRequest, S)
  BY <1>3, PutData
<1>5. \A u \in Requests : DeviceOf[u] = d /\ new[u] = partial <=> u = NoRequest
  BY <1>3, EngineAssumption DEF EngineAssumption
<1>6. ASSUME NEW n \in 1 .. Len(p)
      PROVE  DeviceOf[p[n].req] = d /\ new[p[n].req] \in {partial, whole}
  <2>1. CASE n \in 1 .. Len(q)
    <3>1. q[n].req \in Requests /\ p[n] = q[n]
      BY <1>1, <2>1, MessageOfSeq
    <3> QED
      BY <2>1, <3>1 DEF Carries
  <2>2. CASE n = Len(q) + 1
    BY <1>1, <1>2, <2>2
  <2> QED
    BY <1>1, <2>1, <2>2
<1>7. taken # NoRequest => taken \in S /\ DeviceOf[taken] = d /\ new[taken] \in {partial, whole}
  BY DEF Carries
<1> HIDE DEF p, new
<1>8. Carries(p, taken, new, d, partial, whole, S)
  BY <1>4, <1>5, <1>6, <1>7 DEF Carries
<1> QED
  BY <1>8 DEF p, new

LEMMA DropHeader ==
    ASSUME NEW q \in Seq(Message), NEW S \in SUBSET Requests, NEW r \in Requests,
           NEW st \in [Requests -> Stages], NEW partial \in Stages, NEW whole \in Stages,
           Carries(q, NoRequest, st, DeviceOf[r], partial, whole, S),
           q # <<>>, Head(q) = Header(r), NEW x \in Stages \ {partial, whole}
    PROVE  /\ r \in S => Carries(Tail(q), r, st, DeviceOf[r], partial, whole, S)
           /\ r \notin S =>
                Carries(Tail(q), NoRequest, [st EXCEPT ![r] = x], DeviceOf[r], partial, whole, S)
<1> DEFINE p == Tail(q)
           d == DeviceOf[r]
<1>1. /\ p \in Seq(Message) /\ Len(p) = Len(q) - 1 /\ Len(p) \in Nat
      /\ \A n \in 1 .. Len(p) : p[n] = q[n + 1]
  BY HeadTailProperties, LenProperties
<1>2. 1 \in 1 .. Len(q) /\ q[1] = Header(r) /\ Header(r).req = r
  BY EmptySeq, LenProperties DEF Header
<1>3. PICK open \in Requests \union {NoRequest} :
         /\ Framed(q, NoRequest, open, S)
         /\ \A u \in Requests : DeviceOf[u] = d /\ st[u] = partial <=> u = open
  BY DEF Carries
<1>4. /\ Framed(p, IF r \in S THEN r ELSE NoRequest, open, S)
      /\ r \notin S => Apart(p, NoRequest, r) /\ open # r
  BY <1>3, TakeHeader
<1>5. \A n \in 1 .. Len(p) : DeviceOf[p[n].req] = d /\ st[p[n].req] \in {partial, whole}
  BY <1>1 DEF Carries
<1>6. \A n \in 1 .. Len(p) : p[n].req \in Requests
  BY <1>1, MessageOfSeq
<1>7. st[r] \in {partial, whole}
  BY <1>2 DEF Carries
<1> HIDE DEF p
<1>8. CASE r \in S
  BY <1>3, <1>4, <1>5, <1>7, <1>8 DEF Carries, p
<1>9. ASSUME r \notin S
      PROVE  Carries(p, NoRequest, [st EXCEPT ![r] = x], d, partial, whole, S)
  <2> DEFINE new == [st EXCEPT ![r] = x]
  <2>1. \A u \in Requests : DeviceOf[u] = d /\ new[u] = partial <=> u = open
    BY <1>3, <1>4, <1>9
  <2>2. \A n \in 1 .. Len(p) : DeviceOf[p[n].req] = d /\ new[p[n].req] \in {partial, whole}
    BY <1>4, <1>5, <1>6, <1>9 DEF Apart
  <2> HIDE DEF new
  <2>3. Carries(p, NoRequest, new, d, partial, whole, S)
    BY <1>3, <1>4, <1>9, <2>1, <2>2 DEF Carries
  <2> QED
    BY <2>3 DEF new
<1> QED
  BY <1>8, <1>9 DEF p

LEMMA DropData ==
    ASSUME NEW q \in Seq(Message), NEW S \in SUBSET Requests, NEW r \in Requests,
           NEW st \in [Requests -> Stages], NEW partial \in Stages, NEW whole \in Stages,
           Carries(q, r, st, DeviceOf[r], partial, whole, S),
           q # <<>>, Head(q) = Data(r), NEW x \in Stages \ {partial, whole}
    PROVE  Carries(Tail(q), NoRequest, [st EXCEPT ![r] = x], DeviceOf[r], partial, whole, S)
<1> DEFINE p == Tail(q)
           d == DeviceOf[r]
           new == [st EXCEPT ![r] = x]
<1>1. /\ p \in Seq(Message) /\ Len(p) = Len(q) - 1 /\ Len(p) \in Nat
      /\ \A n \in 1 .. Len(p) : p[n] = q[n + 1]
  BY HeadTailProperties, LenProperties
<1>2. PICK open \in Requests \union {NoRequest} :
         /\ Framed(q, r, open, S)
         /\ \A u \in Requests : DeviceOf[u] = d /\ st[u] = partial <=> u = open
  BY DEF Carries
<1>3. Framed(p, NoRequest, open, S) /\ Apart(p, NoRequest, r) /\ open # r
  BY <1>2, TakeData
<1>4. \A n \in 1 .. Len(p) : p[n].req \in Requests
  BY <1>1, MessageOfSeq
<1>5. \A u \in Requests : DeviceOf[u] = d /\ new[u] = partial <=> u = open
  BY <1>2, <1>3
<1>6. \A n \in 1 .. Len(p) : DeviceOf[p[n].req] = d /\ st[p[n].req] \in {partial, whole}
  BY <1>1 DEF Carries
<1> HIDE DEF p
<1>7. \A n \in 1 .. Len(p) : DeviceOf[p[n].req] = d /\ new[p[n].req] \in {partial, whole}
  BY <1>3, <1>4, <1>6 DEF Apart
<1> HIDE DEF new
<1>8. Carries(p, NoRequest, new, d, partial, whole, S)
  BY <1>2, <1>3, <1>5, <1>7 DEF Carries
<1> QED
  BY <1>8 DEF p, new

\* The requests on d that move are not on the way, nor do they begin it.
Unmoved(st, new, d, partial, whole) ==
    \A r \in Requests : DeviceOf[r] = d =>
       st[r] = new[r] \/ (st[r] \notin {partial, whole} /\ new[r] # partial)

LEMMA MovedElsewhere ==
    ASSUME NEW st \in [Requests -> Stages], NEW r \in Requests, NEW x \in Stages,
           NEW d, NEW partial, NEW whole,
           d # DeviceOf[r] \/ (st[r] \notin {partial, whole} /\ x # partial)
    PROVE  Unmoved(st, [st EXCEPT ![r] = x], d, partial, whole)
<1> SUFFICES ASSUME NEW u \in Requests, DeviceOf[u] = d
             PROVE  \/ st[u] = [st EXCEPT ![r] = x][u]
                    \/ st[u] \notin {partial, whole} /\ [st EXCEPT ![r] = x][u] # partial
  BY DEF Unmoved
<1>1. CASE u = r
  BY <1>1
<1>2. CASE u # r
  BY <1>2
<1> QED
  BY <1>1, <1>2

\* A step that does not touch this direction of the socket.
LEMMA CarriesStill ==
    ASSUME NEW q \in Seq(Message), NEW taken, NEW S \in SUBSET Requests, NEW d,
           NEW st, NEW new, NEW partial, NEW whole,
           Carries(q, taken, st, d, partial, whole, S), Unmoved(st, new, d, partial, whole)
    PROVE  Carries(q, taken, new, d, partial, whole, S)
<1>1. \A n \in 1 .. Len(q) : q[n].req \in Requests
  BY MessageOfSeq
<1>2. PICK open \in Requests \union {NoRequest} :
         /\ Framed(q, taken, open, S)
         /\ \A u \in Requests : DeviceOf[u] = d /\ st[u] = partial <=> u = open
  BY DEF Carries
<1>3. \A u \in Requests : DeviceOf[u] = d /\ new[u] = partial <=> u = open
  BY <1>2 DEF Unmoved
<1>4. \A n \in 1 .. Len(q) : DeviceOf[q[n].req] = d /\ new[q[n].req] \in {partial, whole}
  BY <1>1 DEF Carries, Unmoved
<1>5. taken # NoRequest => taken \in S /\ DeviceOf[taken] = d /\ new[taken] \in {partial, whole}
  BY DEF Carries, Unmoved
<1> QED
  BY <1>2, <1>3, <1>4, <1>5 DEF Carries

--------------------------------------------------------------------------------
(***************************************************************************)
(* The inductive invariant: both directions of every socket are in order.  *)
(***************************************************************************)
Taken(d) == IF payload # NoRequest /\ DeviceOf[payload] = d THEN payload ELSE NoRequest

EngineInOrder ==
    \A d \in Devices : Carries(toEngine[d], Taken(d), stage, d, "sending", "sent", Writes)

KernelInOrder ==
    \A d \in Devices : Carries(toKernel[d], expecting[d], stage, d, "data", "done", Reads)

InOrder == TypeOK /\ EngineInOrder /\ KernelInOrder

USE DEF Stages

LEMMA TypeStep ==
    ASSUME TypeOK, [Next]_vars PROVE TypeOK'
<1> USE EngineAssumption DEF EngineAssumption, socketVars, runVars, memoryVars, bufferVars
<1>h. \A r \in Requests : Header(r) \in Message /\ Data(r) \in Message
  BY DEF Header, Data, Message
<1>p. ASSUME NEW d \in Devices, NEW m \in Message, NEW f \in [Devices -> Seq(Message)]
      PROVE  [f EXCEPT ![d] = Append(@, m)] \in [Devices -> Seq(Message)]
  BY AppendProperties
<1>t. ASSUME NEW d \in Devices, NEW f \in [Devices -> Seq(Message)], f[d] # <<>>
      PROVE  [f EXCEPT ![d] = Tail(@)] \in [Devices -> Seq(Message)]
  <2>1. Tail(f[d]) \in Seq(Message)
    BY <1>t, HeadTailProperties
  <2> QED
    BY <2>1
<1>1. ASSUME NEW r \in Requests, Send(r) PROVE TypeOK'
  BY <1>1, <1>h, <1>p DEF TypeOK, Send, Move, Put
<1>2. ASSUME NEW r \in Requests, SendData(r) PROVE TypeOK'
  BY <1>2, <1>h, <1>p DEF TypeOK, SendData, Move, Put
<1>3. ASSUME NEW r \in Requests, Receive(r) PROVE TypeOK'
  <2>1. toKernel' \in [Devices -> Seq(Message)]
    BY <1>3, <1>t DEF TypeOK, Receive, Take
  <2>2. CASE Is(r, NBD_CMD_READ)
    <3>1. /\ expecting' = [expecting EXCEPT ![DeviceOf[r]] = r]
          /\ stage' = stage /\ toEngine' = toEngine /\ master' = master /\ todo' = todo
          /\ payload' = payload /\ position' = position /\ m_data' = m_data /\ got' = got
      BY <1>3, <2>2 DEF Receive
    <3>2. expecting' \in [Devices -> Requests \union {NoRequest}]
      BY <3>1 DEF TypeOK
    <3> QED
      BY <2>1, <3>1, <3>2 DEF TypeOK
  <2>3. CASE ~Is(r, NBD_CMD_READ)
    BY <1>3, <2>1, <2>3 DEF TypeOK, Receive, Take
  <2> QED
    BY <2>2, <2>3
<1>4. ASSUME NEW r \in Requests, ReceiveData(r) PROVE TypeOK'
  <2>1. toKernel' \in [Devices -> Seq(Message)]
    BY <1>4, <1>t DEF TypeOK, ReceiveData, Take
  <2>2. stage' \in [Requests -> Stages] /\ expecting' \in [Devices -> Requests \union {NoRequest}]
    BY <1>4 DEF TypeOK, ReceiveData
  <2>3. /\ toEngine' = toEngine /\ master' = master /\ todo' = todo /\ payload' = payload
        /\ position' = position /\ m_data' = m_data /\ got' = got
    BY <1>4 DEF ReceiveData
  <2> QED
    BY <2>1, <2>2, <2>3 DEF TypeOK
<1>5. CASE Select
  BY <1>5 DEF TypeOK, Select
<1>6. ASSUME NEW r \in Requests, OnSocketReady(r) PROVE TypeOK'
  <2>1. toEngine' \in [Devices -> Seq(Message)]
    BY <1>6, <1>t DEF TypeOK, OnSocketReady, Take
  <2>2. /\ stage' = stage \/ stage' = [stage EXCEPT ![r] = "queued"]
        /\ todo' = todo \/ todo' = todo \ {DeviceOf[r]}
        /\ payload' \in {payload, r}
    BY <1>6 DEF OnSocketReady
  <2>3. stage' \in [Requests -> Stages]
    BY <2>2 DEF TypeOK
  <2>4. /\ toKernel' = toKernel /\ master' = master /\ position' = position
        /\ m_data' = m_data /\ got' = got /\ expecting' = expecting
    BY <1>6 DEF OnSocketReady
  <2> QED
    BY <2>1, <2>2, <2>3, <2>4 DEF TypeOK
<1>7. ASSUME NEW r \in Requests, ReadPayload(r) PROVE TypeOK'
  <2>1. toEngine' \in [Devices -> Seq(Message)]
    BY <1>7, <1>t DEF TypeOK, ReadPayload, Take
  <2>2. stage' \in [Requests -> Stages]
    BY <1>7 DEF TypeOK, ReadPayload
  <2>3. /\ todo' = todo \ {DeviceOf[r]} /\ payload' = NoRequest
        /\ toKernel' = toKernel /\ master' = master /\ position' = position
        /\ m_data' = m_data /\ got' = got /\ expecting' = expecting
    BY <1>7 DEF ReadPayload
  <2> QED
    BY <2>1, <2>2, <2>3 DEF TypeOK
<1>8. ASSUME NEW r \in Requests, Create(r) PROVE TypeOK'
  BY <1>8 DEF TypeOK, Create, Move
<1>9. ASSUME NEW r \in Requests, Seek(r) PROVE TypeOK'
  <2>1. m_offset(r) \in Int
    BY DEF m_offset
  <2> QED
    BY <1>9, <2>1 DEF TypeOK, Seek, Move
<1>10. ASSUME NEW r \in Requests, Read(r) PROVE TypeOK'
  <2>1. PICK n \in 1 .. Size[r] - got[r] :
           /\ got' = [got EXCEPT ![r] = @ + n]
           /\ position' = position + n
           /\ stage' = [stage EXCEPT ![r] = IF n = Size[r] - got[r] THEN "reply" ELSE "move"]
           /\ DOMAIN m_data' = DOMAIN m_data
    BY <1>10 DEF Read, Move
  <2>2. n \in Nat
    BY DEF TypeOK
  <2>3. got' \in [Requests -> Nat] /\ position' \in Nat /\ stage' \in [Requests -> Stages]
    BY <2>1, <2>2 DEF TypeOK
  <2>4. /\ toEngine' = toEngine /\ toKernel' = toKernel /\ master' = master /\ todo' = todo
        /\ payload' = payload /\ expecting' = expecting
    BY <1>10 DEF Read
  <2> QED
    BY <2>1, <2>3, <2>4 DEF TypeOK
<1>11. ASSUME NEW r \in Requests, Write(r) PROVE TypeOK'
  BY <1>11 DEF TypeOK, Write, Move
<1>12. ASSUME NEW r \in Requests, Done(r) PROVE TypeOK'
  BY <1>12, <1>h, <1>p DEF TypeOK, Done, Move, Put
<1>13. ASSUME NEW r \in Requests, DoneData(r) PROVE TypeOK'
  BY <1>13, <1>h, <1>p DEF TypeOK, DoneData, Move, Put
<1>14. CASE UNCHANGED vars
  BY <1>14 DEF TypeOK, vars
<1> QED
  BY <1>1, <1>2, <1>3, <1>4, <1>5, <1>6, <1>7, <1>8, <1>9, <1>10, <1>11, <1>12, <1>13, <1>14
  DEF Next, Run, Kernel, Handle

(***************************************************************************)
(* A step that leaves the socket of d, and the requests on it, alone.      *)
(***************************************************************************)
LEMMA EngineStill ==
    ASSUME InOrder, NEW d \in Devices, toEngine'[d] = toEngine[d], Taken(d)' = Taken(d),
           Unmoved(stage, stage', d, "sending", "sent")
    PROVE  Carries(toEngine'[d], Taken(d)', stage', d, "sending", "sent", Writes)
<1>1. toEngine[d] \in Seq(Message) /\ Writes \in SUBSET Requests
  BY DEF InOrder, TypeOK, Writes
<1>2. Carries(toEngine[d], Taken(d), stage, d, "sending", "sent", Writes)
  BY DEF InOrder, EngineInOrder
<1>3. Carries(toEngine[d], Taken(d), stage', d, "sending", "sent", Writes)
  BY <1>1, <1>2, CarriesStill
<1> QED
  BY <1>3

(***************************************************************************)
(* From the kernel to Run: only Send, SendData, OnSocketReady and          *)
(* ReadPayload touch what is on this way.                                  *)
(***************************************************************************)
LEMMA EngineStep ==
    ASSUME InOrder, [Next]_vars PROVE EngineInOrder'
<1> USE EngineAssumption DEF EngineAssumption
<1>0. /\ toEngine \in [Devices -> Seq(Message)]
      /\ \A d \in Devices : toEngine[d] \in Seq(Message)
      /\ stage \in [Requests -> Stages]
      /\ Writes \in SUBSET Requests
      /\ payload \in Requests \union {NoRequest}
  BY DEF InOrder, TypeOK, Writes
<1>1. ASSUME NEW r \in Requests, Send(r) PROVE EngineInOrder'
  <2> DEFINE e == DeviceOf[r]
             x == IF r \in Writes THEN "sending" ELSE "sent"
  <2>1. /\ stage[r] = "new" /\ x \in Stages
        /\ stage' = [stage EXCEPT ![r] = x]
        /\ toEngine' = [toEngine EXCEPT ![e] = Append(@, Header(r))]
        /\ payload' = payload
    BY <1>1 DEF Send, Move, Put, Writes, runVars
  <2>2. Complete(stage, e, "sending")
    BY <1>1 DEF Send, MaySend, Complete
  <2>3. Carries(toEngine[e], Taken(e), stage, e, "sending", "sent", Writes)
    BY DEF InOrder, EngineInOrder
  <2>4. stage[r] \notin {"sending", "sent"} /\ "sending" \in Stages /\ "sent" \in Stages
    BY <2>1
  <2>5. Carries(Append(toEngine[e], Header(r)), Taken(e), [stage EXCEPT ![r] = x], e,
                "sending", "sent", Writes)
    <3> HIDE DEF Stages
    <3> QED
      BY <1>0, <2>2, <2>3, <2>4, CarriesHeader
  <2> HIDE DEF x
  <2>6. Carries(toEngine'[e], Taken(e)', stage', e, "sending", "sent", Writes)
    BY <1>0, <2>1, <2>5 DEF Taken
  <2>7. ASSUME NEW d \in Devices, d # e
        PROVE  Carries(toEngine'[d], Taken(d)', stage', d, "sending", "sent", Writes)
    <3>1. Unmoved(stage, stage', d, "sending", "sent")
      BY <1>0, <2>1, <2>7, MovedElsewhere
    <3>2. toEngine'[d] = toEngine[d] /\ Taken(d)' = Taken(d)
      BY <1>0, <2>1, <2>7 DEF Taken
    <3> QED
      BY <3>1, <3>2, EngineStill
  <2> QED
    BY <2>6, <2>7 DEF EngineInOrder
<1>2. ASSUME NEW r \in Requests, SendData(r) PROVE EngineInOrder'
  <2> DEFINE e == DeviceOf[r]
  <2>1. /\ stage[r] = "sending"
        /\ stage' = [stage EXCEPT ![r] = "sent"]
        /\ toEngine' = [toEngine EXCEPT ![e] = Append(@, Data(r))]
        /\ payload' = payload
    BY <1>2 DEF SendData, Move, Put, runVars
  <2>2. Carries(toEngine[e], Taken(e), stage, e, "sending", "sent", Writes)
    BY DEF InOrder, EngineInOrder
  <2>3. r \in Writes
    <3>1. Framed(toEngine[e], Taken(e), r, Writes)
      BY <2>1, <2>2 DEF Carries
    <3> QED
      BY <2>2, <3>1 DEF Framed, Carries, HasData
  <2>4. Carries(Append(toEngine[e], Data(r)), Taken(e), [stage EXCEPT ![r] = "sent"], e,
                "sending", "sent", Writes)
    BY <1>0, <2>1, <2>2, <2>3, CarriesData
  <2>5. Carries(toEngine'[e], Taken(e)', stage', e, "sending", "sent", Writes)
    BY <1>0, <2>1, <2>4 DEF Taken
  <2>6. ASSUME NEW d \in Devices, d # e
        PROVE  Carries(toEngine'[d], Taken(d)', stage', d, "sending", "sent", Writes)
    <3>1. Unmoved(stage, stage', d, "sending", "sent")
      BY <1>0, <2>1, <2>6, MovedElsewhere
    <3>2. toEngine'[d] = toEngine[d] /\ Taken(d)' = Taken(d)
      BY <1>0, <2>1, <2>6 DEF Taken
    <3> QED
      BY <3>1, <3>2, EngineStill
  <2> QED
    BY <2>5, <2>6 DEF EngineInOrder
<1>3. ASSUME NEW r \in Requests, OnSocketReady(r) PROVE EngineInOrder'
  <2> DEFINE e == DeviceOf[r]
  <2>1. /\ payload = NoRequest
        /\ toEngine[e] # <<>> /\ Head(toEngine[e]) = Header(r)
        /\ toEngine' = [toEngine EXCEPT ![e] = Tail(@)]
        /\ r \in Writes => payload' = r /\ stage' = stage
        /\ r \notin Writes => payload' = payload /\ stage' = [stage EXCEPT ![r] = "queued"]
    BY <1>3 DEF OnSocketReady, Take, Writes
  <2>2. e \in Devices /\ Taken(e) = NoRequest
    BY <2>1 DEF Taken
  <2>3. Carries(toEngine[e], NoRequest, stage, e, "sending", "sent", Writes)
    <3>1. Carries(toEngine[e], Taken(e), stage, e, "sending", "sent", Writes)
      BY DEF InOrder, EngineInOrder
    <3> QED
      BY <3>1, <2>2
  <2>4. /\ r \in Writes => Carries(Tail(toEngine[e]), r, stage, e, "sending", "sent", Writes)
        /\ r \notin Writes => Carries(Tail(toEngine[e]), NoRequest, [stage EXCEPT ![r] = "queued"],
                                      e, "sending", "sent", Writes)
    <3>1. "queued" \in Stages \ {"sending", "sent"} /\ "sending" \in Stages /\ "sent" \in Stages
      OBVIOUS
    <3> HIDE DEF Stages
    <3> QED
      BY <1>0, <2>1, <2>3, <3>1, DropHeader
  <2>5. Carries(toEngine'[e], Taken(e)', stage', e, "sending", "sent", Writes)
    <3>1. CASE r \in Writes
      BY <1>0, <2>1, <2>4, <3>1 DEF Taken
    <3>2. CASE r \notin Writes
      BY <1>0, <2>1, <2>4, <3>2 DEF Taken
    <3> QED
      BY <3>1, <3>2
  <2>6. ASSUME NEW d \in Devices, d # e
        PROVE  Carries(toEngine'[d], Taken(d)', stage', d, "sending", "sent", Writes)
    <3>1. Unmoved(stage, [stage EXCEPT ![r] = "queued"], d, "sending", "sent")
      BY <1>0, <2>6, MovedElsewhere
    <3>2. Unmoved(stage, stage', d, "sending", "sent")
      BY <2>1, <3>1 DEF Unmoved
    <3>3. toEngine'[d] = toEngine[d] /\ Taken(d)' = Taken(d)
      BY <1>0, <2>1, <2>6 DEF Taken
    <3> QED
      BY <3>2, <3>3, EngineStill
  <2> QED
    BY <2>5, <2>6 DEF EngineInOrder
<1>4. ASSUME NEW r \in Requests, ReadPayload(r) PROVE EngineInOrder'
  <2> DEFINE e == DeviceOf[r]
  <2>1. /\ payload = r /\ payload' = NoRequest
        /\ toEngine[e] # <<>> /\ Head(toEngine[e]) = Data(r)
        /\ toEngine' = [toEngine EXCEPT ![e] = Tail(@)]
        /\ stage' = [stage EXCEPT ![r] = "queued"]
    BY <1>4 DEF ReadPayload, Take
  <2>2. Taken(e) = r /\ r # NoRequest
    BY <2>1 DEF Taken
  <2>3. Carries(toEngine[e], r, stage, e, "sending", "sent", Writes)
    <3>1. Carries(toEngine[e], Taken(e), stage, e, "sending", "sent", Writes)
      BY DEF InOrder, EngineInOrder
    <3> QED
      BY <3>1, <2>2
  <2>4. Carries(Tail(toEngine[e]), NoRequest, [stage EXCEPT ![r] = "queued"], e,
                "sending", "sent", Writes)
    <3>1. "queued" \in Stages \ {"sending", "sent"} /\ "sending" \in Stages /\ "sent" \in Stages
      OBVIOUS
    <3> HIDE DEF Stages
    <3> QED
      BY <1>0, <2>1, <2>3, <3>1, DropData
  <2>5. Carries(toEngine'[e], Taken(e)', stage', e, "sending", "sent", Writes)
    BY <1>0, <2>1, <2>4 DEF Taken
  <2>6. ASSUME NEW d \in Devices, d # e
        PROVE  Carries(toEngine'[d], Taken(d)', stage', d, "sending", "sent", Writes)
    <3>1. Unmoved(stage, stage', d, "sending", "sent")
      BY <1>0, <2>1, <2>6, MovedElsewhere
    <3>2. toEngine'[d] = toEngine[d] /\ Taken(d)' = Taken(d)
      BY <1>0, <2>1, <2>6 DEF Taken
    <3> QED
      BY <3>1, <3>2, EngineStill
  <2> QED
    BY <2>5, <2>6 DEF EngineInOrder
<1>5. ASSUME NEW r \in Requests, NEW x \in Stages \ {"sending", "sent"},
             toEngine' = toEngine, payload' = payload, stage[r] \notin {"sending", "sent"},
             stage' = stage \/ stage' = [stage EXCEPT ![r] = x]
      PROVE  EngineInOrder'
  <2> SUFFICES ASSUME NEW d \in Devices
               PROVE  Carries(toEngine'[d], Taken(d)', stage', d, "sending", "sent", Writes)
    BY DEF EngineInOrder
  <2>1. Unmoved(stage, [stage EXCEPT ![r] = x], d, "sending", "sent")
    BY <1>0, <1>5, MovedElsewhere
  <2>2. Unmoved(stage, stage', d, "sending", "sent")
    BY <1>5, <2>1 DEF Unmoved
  <2>3. toEngine'[d] = toEngine[d] /\ Taken(d)' = Taken(d)
    BY <1>5 DEF Taken
  <2> QED
    BY <2>2, <2>3, EngineStill
<1> USE DEF socketVars, runVars, memoryVars, bufferVars
<1>6. ASSUME NEW r \in Requests, Receive(r) \/ ReceiveData(r) PROVE EngineInOrder'
  <2>1. stage[r] \in {"data", "done"}
    <3>1. Carries(toKernel[DeviceOf[r]], expecting[DeviceOf[r]], stage, DeviceOf[r], "data", "done", Reads)
      BY DEF InOrder, KernelInOrder
    <3>2. 1 \in 1 .. Len(toKernel[DeviceOf[r]]) /\ toKernel[DeviceOf[r]][1].req = r
      BY <1>6, EmptySeq, LenProperties DEF Receive, ReceiveData, Take, Header, Data, InOrder, TypeOK
    <3> QED
      BY <3>1, <3>2 DEF Carries
  <2>2. /\ toEngine' = toEngine /\ payload' = payload
        /\ stage' = stage \/ stage' = [stage EXCEPT ![r] = "answered"]
    BY <1>6 DEF Receive, ReceiveData
  <2> QED
    BY <1>5, <2>1, <2>2
<1>7. ASSUME NEW r \in Requests, Create(r) \/ Handle(r) PROVE EngineInOrder'
  <2>1. /\ toEngine' = toEngine /\ payload' = payload
        /\ stage[r] \notin {"sending", "sent"}
        /\ \E x \in Stages \ {"sending", "sent"} : stage' = [stage EXCEPT ![r] = x]
    BY <1>7 DEF Create, Handle, Seek, Read, Write, Done, DoneData, Move
  <2> QED
    BY <1>5, <2>1
<1>8. CASE Select \/ UNCHANGED vars
  <2> SUFFICES ASSUME NEW d \in Devices
               PROVE  Carries(toEngine'[d], Taken(d)', stage', d, "sending", "sent", Writes)
    BY DEF EngineInOrder
  <2>1. toEngine' = toEngine /\ payload' = payload /\ stage' = stage
    BY <1>8 DEF Select, vars
  <2> QED
    BY <2>1 DEF InOrder, EngineInOrder, Taken
<1> QED
  BY <1>1, <1>2, <1>3, <1>4, <1>6, <1>7, <1>8 DEF Next, Run, Kernel

(***************************************************************************)
(* From Done to the kernel: only Done, DoneData, Receive and ReceiveData   *)
(* touch what is on this way.                                              *)
(***************************************************************************)
LEMMA KernelStill ==
    ASSUME InOrder, NEW d \in Devices, toKernel'[d] = toKernel[d], expecting'[d] = expecting[d],
           Unmoved(stage, stage', d, "data", "done")
    PROVE  Carries(toKernel'[d], expecting'[d], stage', d, "data", "done", Reads)
<1>1. toKernel[d] \in Seq(Message) /\ Reads \in SUBSET Requests
  BY DEF InOrder, TypeOK, Reads
<1>2. Carries(toKernel[d], expecting[d], stage, d, "data", "done", Reads)
  BY DEF InOrder, KernelInOrder
<1>3. Carries(toKernel[d], expecting[d], stage', d, "data", "done", Reads)
  BY <1>1, <1>2, CarriesStill
<1> QED
  BY <1>3

LEMMA KernelStep ==
    ASSUME InOrder, [Next]_vars PROVE KernelInOrder'
<1> USE EngineAssumption DEF EngineAssumption
<1>0. /\ toKernel \in [Devices -> Seq(Message)]
      /\ \A d \in Devices : toKernel[d] \in Seq(Message)
      /\ stage \in [Requests -> Stages]
      /\ Reads \in SUBSET Requests
      /\ expecting \in [Devices -> Requests \union {NoRequest}]
  BY DEF InOrder, TypeOK, Reads
<1>1. ASSUME NEW r \in Requests, Done(r) PROVE KernelInOrder'
  <2> DEFINE e == DeviceOf[r]
             x == IF r \in Reads THEN "data" ELSE "done"
  <2>1. /\ stage[r] = "reply" /\ x \in Stages
        /\ stage' = [stage EXCEPT ![r] = x]
        /\ toKernel' = [toKernel EXCEPT ![e] = Append(@, Header(r))]
        /\ expecting' = expecting
    BY <1>1 DEF Done, Move, Put, Reads
  <2>2. Complete(stage, e, "data")
    BY <1>1 DEF Done, Replying, Complete
  <2>3. Carries(toKernel[e], expecting[e], stage, e, "data", "done", Reads)
    BY DEF InOrder, KernelInOrder
  <2>4. stage[r] \notin {"data", "done"} /\ "data" \in Stages /\ "done" \in Stages
    BY <2>1
  <2>5. Carries(Append(toKernel[e], Header(r)), expecting[e], [stage EXCEPT ![r] = x], e,
                "data", "done", Reads)
    <3> HIDE DEF Stages
    <3> QED
      BY <1>0, <2>2, <2>3, <2>4, CarriesHeader
  <2> HIDE DEF x
  <2>6. Carries(toKernel'[e], expecting'[e], stage', e, "data", "done", Reads)
    BY <1>0, <2>1, <2>5
  <2>7. ASSUME NEW d \in Devices, d # e
        PROVE  Carries(toKernel'[d], expecting'[d], stage', d, "data", "done", Reads)
    <3>1. Unmoved(stage, stage', d, "data", "done")
      BY <1>0, <2>1, <2>7, MovedElsewhere
    <3>2. toKernel'[d] = toKernel[d] /\ expecting'[d] = expecting[d]
      BY <1>0, <2>1, <2>7
    <3> QED
      BY <3>1, <3>2, KernelStill
  <2> QED
    BY <2>6, <2>7 DEF KernelInOrder
<1>2. ASSUME NEW r \in Requests, DoneData(r) PROVE KernelInOrder'
  <2> DEFINE e == DeviceOf[r]
  <2>1. /\ stage[r] = "data"
        /\ stage' = [stage EXCEPT ![r] = "done"]
        /\ toKernel' = [toKernel EXCEPT ![e] = Append(@, Data(r))]
        /\ expecting' = expecting
    BY <1>2 DEF DoneData, Move, Put
  <2>2. Carries(toKernel[e], expecting[e], stage, e, "data", "done", Reads)
    BY DEF InOrder, KernelInOrder
  <2>3. r \in Reads
    <3>1. Framed(toKernel[e], expecting[e], r, Reads)
      BY <2>1, <2>2 DEF Carries
    <3> QED
      BY <2>2, <3>1 DEF Framed, Carries, HasData
  <2>4. Carries(Append(toKernel[e], Data(r)), expecting[e], [stage EXCEPT ![r] = "done"], e,
                "data", "done", Reads)
    BY <1>0, <2>1, <2>2, <2>3, CarriesData
  <2>5. Carries(toKernel'[e], expecting'[e], stage', e, "data", "done", Reads)
    BY <1>0, <2>1, <2>4
  <2>6. ASSUME NEW d \in Devices, d # e
        PROVE  Carries(toKernel'[d], expecting'[d], stage', d, "data", "done", Reads)
    <3>1. Unmoved(stage, stage', d, "data", "done")
      BY <1>0, <2>1, <2>6, MovedElsewhere
    <3>2. toKernel'[d] = toKernel[d] /\ expecting'[d] = expecting[d]
      BY <1>0, <2>1, <2>6
    <3> QED
      BY <3>1, <3>2, KernelStill
  <2> QED
    BY <2>5, <2>6 DEF KernelInOrder
<1>3. ASSUME NEW r \in Requests, Receive(r) PROVE KernelInOrder'
  <2> DEFINE e == DeviceOf[r]
  <2>1. /\ expecting[e] = NoRequest
        /\ toKernel[e] # <<>> /\ Head(toKernel[e]) = Header(r)
        /\ toKernel' = [toKernel EXCEPT ![e] = Tail(@)]
        /\ r \in Reads => expecting' = [expecting EXCEPT ![e] = r] /\ stage' = stage
        /\ r \notin Reads => expecting' = expecting /\ stage' = [stage EXCEPT ![r] = "answered"]
    BY <1>3 DEF Receive, Take, Reads
  <2>2. Carries(toKernel[e], NoRequest, stage, e, "data", "done", Reads)
    <3>1. Carries(toKernel[e], expecting[e], stage, e, "data", "done", Reads)
      BY DEF InOrder, KernelInOrder
    <3> QED
      BY <3>1, <2>1
  <2>3. /\ r \in Reads => Carries(Tail(toKernel[e]), r, stage, e, "data", "done", Reads)
        /\ r \notin Reads => Carries(Tail(toKernel[e]), NoRequest, [stage EXCEPT ![r] = "answered"],
                                     e, "data", "done", Reads)
    <3>1. "answered" \in Stages \ {"data", "done"} /\ "data" \in Stages /\ "done" \in Stages
      OBVIOUS
    <3> HIDE DEF Stages
    <3> QED
      BY <1>0, <2>1, <2>2, <3>1, DropHeader
  <2>4. Carries(toKernel'[e], expecting'[e], stage', e, "data", "done", Reads)
    <3>1. CASE r \in Reads
      BY <1>0, <2>1, <2>3, <3>1
    <3>2. CASE r \notin Reads
      BY <1>0, <2>1, <2>3, <3>2
    <3> QED
      BY <3>1, <3>2
  <2>5. ASSUME NEW d \in Devices, d # e
        PROVE  Carries(toKernel'[d], expecting'[d], stage', d, "data", "done", Reads)
    <3>1. Unmoved(stage, [stage EXCEPT ![r] = "answered"], d, "data", "done")
      BY <1>0, <2>5, MovedElsewhere
    <3>2. Unmoved(stage, stage', d, "data", "done")
      BY <2>1, <3>1 DEF Unmoved
    <3>3. toKernel'[d] = toKernel[d] /\ expecting'[d] = expecting[d]
      BY <1>0, <2>1, <2>5
    <3> QED
      BY <3>2, <3>3, KernelStill
  <2> QED
    BY <2>4, <2>5 DEF KernelInOrder
<1>4. ASSUME NEW r \in Requests, ReceiveData(r) PROVE KernelInOrder'
  <2> DEFINE e == DeviceOf[r]
  <2>1. /\ expecting[e] = r /\ expecting' = [expecting EXCEPT ![e] = NoRequest]
        /\ toKernel[e] # <<>> /\ Head(toKernel[e]) = Data(r)
        /\ toKernel' = [toKernel EXCEPT ![e] = Tail(@)]
        /\ stage' = [stage EXCEPT ![r] = "answered"]
    BY <1>4 DEF ReceiveData, Take
  <2>2. Carries(toKernel[e], r, stage, e, "data", "done", Reads)
    <3>1. Carries(toKernel[e], expecting[e], stage, e, "data", "done", Reads)
      BY DEF InOrder, KernelInOrder
    <3> QED
      BY <3>1, <2>1
  <2>3. Carries(Tail(toKernel[e]), NoRequest, [stage EXCEPT ![r] = "answered"], e,
                "data", "done", Reads)
    <3>1. "answered" \in Stages \ {"data", "done"} /\ "data" \in Stages /\ "done" \in Stages
      OBVIOUS
    <3> HIDE DEF Stages
    <3> QED
      BY <1>0, <2>1, <2>2, <3>1, DropData
  <2>4. Carries(toKernel'[e], expecting'[e], stage', e, "data", "done", Reads)
    BY <1>0, <2>1, <2>3
  <2>5. ASSUME NEW d \in Devices, d # e
        PROVE  Carries(toKernel'[d], expecting'[d], stage', d, "data", "done", Reads)
    <3>1. Unmoved(stage, stage', d, "data", "done")
      BY <1>0, <2>1, <2>5, MovedElsewhere
    <3>2. toKernel'[d] = toKernel[d] /\ expecting'[d] = expecting[d]
      BY <1>0, <2>1, <2>5
    <3> QED
      BY <3>1, <3>2, KernelStill
  <2> QED
    BY <2>4, <2>5 DEF KernelInOrder
<1>5. ASSUME NEW r \in Requests, NEW x \in Stages \ {"data"},
             toKernel' = toKernel, expecting' = expecting, stage[r] \notin {"data", "done"},
             stage' = stage \/ stage' = [stage EXCEPT ![r] = x]
      PROVE  KernelInOrder'
  <2> SUFFICES ASSUME NEW d \in Devices
               PROVE  Carries(toKernel'[d], expecting'[d], stage', d, "data", "done", Reads)
    BY DEF KernelInOrder
  <2>1. Unmoved(stage, [stage EXCEPT ![r] = x], d, "data", "done")
    BY <1>0, <1>5, MovedElsewhere
  <2>2. Unmoved(stage, stage', d, "data", "done")
    BY <1>5, <2>1 DEF Unmoved
  <2>3. toKernel'[d] = toKernel[d] /\ expecting'[d] = expecting[d]
    BY <1>5
  <2> QED
    BY <2>2, <2>3, KernelStill
<1> USE DEF socketVars, runVars, memoryVars, bufferVars
<1>6. ASSUME NEW r \in Requests, OnSocketReady(r) \/ ReadPayload(r) PROVE KernelInOrder'
  <2>1. stage[r] \in {"sending", "sent"}
    <3>1. Carries(toEngine[DeviceOf[r]], Taken(DeviceOf[r]), stage, DeviceOf[r], "sending", "sent", Writes)
      BY DEF InOrder, EngineInOrder
    <3>2. 1 \in 1 .. Len(toEngine[DeviceOf[r]]) /\ toEngine[DeviceOf[r]][1].req = r
      BY <1>6, EmptySeq, LenProperties DEF OnSocketReady, ReadPayload, Take, Header, Data, InOrder, TypeOK
    <3> QED
      BY <3>1, <3>2 DEF Carries
  <2>2. /\ toKernel' = toKernel /\ expecting' = expecting
        /\ stage' = stage \/ stage' = [stage EXCEPT ![r] = "queued"]
    BY <1>6 DEF OnSocketReady, ReadPayload
  <2> QED
    BY <1>5, <2>1, <2>2
<1>7. ASSUME NEW r \in Requests,
             Send(r) \/ SendData(r) \/ Create(r) \/ Seek(r) \/ Read(r) \/ Write(r)
      PROVE  KernelInOrder'
  <2>1. /\ toKernel' = toKernel /\ expecting' = expecting
        /\ stage[r] \notin {"data", "done"}
        /\ \E x \in Stages \ {"data"} : stage' = [stage EXCEPT ![r] = x]
    BY <1>7 DEF Send, SendData, Create, Seek, Read, Write, Move
  <2> QED
    BY <1>5, <2>1
<1>8. CASE Select \/ UNCHANGED vars
  <2> SUFFICES ASSUME NEW d \in Devices
               PROVE  Carries(toKernel'[d], expecting'[d], stage', d, "data", "done", Reads)
    BY DEF KernelInOrder
  <2>1. toKernel' = toKernel /\ expecting' = expecting /\ stage' = stage
    BY <1>8 DEF Select, vars
  <2> QED
    BY <2>1 DEF InOrder, KernelInOrder
<1> QED
  BY <1>1, <1>2, <1>3, <1>4, <1>6, <1>7, <1>8 DEF Next, Run, Kernel, Handle

--------------------------------------------------------------------------------
LEMMA InOrderInit ==
    ASSUME Init PROVE InOrder
<1> USE EngineAssumption DEF EngineAssumption
<1>1. TypeOK
  <2>1. <<>> \in Seq(Message)
    BY EmptySeq
  <2>2. DOMAIN m_data = Requests
    BY DEF Init
  <2> QED
    BY <2>1, <2>2 DEF Init, TypeOK
<1>2. ASSUME NEW st, NEW d, NEW partial, NEW whole, NEW S,
             \A r \in Requests : st[r] # partial
      PROVE  Carries(<<>>, NoRequest, st, d, partial, whole, S)
  <2>1. Framed(<<>>, NoRequest, NoRequest, S)
    BY DEF Framed
  <2> QED
    BY <1>2, <2>1 DEF Carries
<1>3. \A d \in Devices : toEngine[d] = <<>> /\ toKernel[d] = <<>>
                        /\ Taken(d) = NoRequest /\ expecting[d] = NoRequest
  BY DEF Init, Taken
<1>4. \A r \in Requests : stage[r] # "sending" /\ stage[r] # "data"
  BY DEF Init
<1>5. EngineInOrder
  <2> SUFFICES ASSUME NEW d \in Devices
               PROVE  Carries(toEngine[d], Taken(d), stage, d, "sending", "sent", Writes)
    BY DEF EngineInOrder
  <2>1. Carries(<<>>, NoRequest, stage, d, "sending", "sent", Writes)
    BY <1>2, <1>4
  <2> QED
    BY <1>3, <2>1
<1>6. KernelInOrder
  <2> SUFFICES ASSUME NEW d \in Devices
               PROVE  Carries(toKernel[d], expecting[d], stage, d, "data", "done", Reads)
    BY DEF KernelInOrder
  <2>1. Carries(<<>>, NoRequest, stage, d, "data", "done", Reads)
    BY <1>2, <1>4
  <2> QED
    BY <1>3, <2>1
<1> QED
  BY <1>1, <1>5, <1>6 DEF InOrder

(***************************************************************************)
(* The sockets carry whole requests and whole replies, in the order in     *)
(* which they were written, whatever the interleaving.                     *)
(***************************************************************************)
THEOREM InOrderAlways == Spec => []InOrder
<1>1. Init => InOrder
  BY InOrderInit
<1>2. InOrder /\ [Next]_vars => InOrder'
  BY TypeStep, EngineStep, KernelStep DEF InOrder
<1> QED
  BY <1>1, <1>2, PTL DEF Spec

(***************************************************************************)
(* Run and the kernel agree on where a request begins and which data is a  *)
(* write's (nbdproxy.cpp:175,195), for any number of devices and requests. *)
(***************************************************************************)
THEOREM StreamAlwaysInSync == Spec => []StreamInSync
<1>1. InOrder => StreamInSync
  <2> SUFFICES ASSUME InOrder, NEW d \in Devices, toEngine[d] # <<>>
               PROVE  IF payload # NoRequest /\ DeviceOf[payload] = d
                      THEN Head(toEngine[d]) = Data(payload)
                      ELSE Head(toEngine[d]).kind = "header"
    BY DEF StreamInSync
  <2>1. PICK open \in Requests \union {NoRequest} : Framed(toEngine[d], Taken(d), open, Writes)
    BY DEF InOrder, EngineInOrder, Carries
  <2>2. Head(toEngine[d]) = toEngine[d][1]
    BY HeadTailProperties DEF InOrder, TypeOK
  <2> QED
    BY <2>1, <2>2 DEF Framed, Taken
<1> QED
  BY <1>1, InOrderAlways, PTL

(***************************************************************************)
(* However many threads reply on a socket, the data of a read follows its  *)
(* header there and nothing comes between (nbdproxy.cpp:155-160).          *)
(***************************************************************************)
THEOREM RepliesAlwaysFramed == Spec => []RepliesFramed
<1>1. InOrder => RepliesFramed
  <2> SUFFICES ASSUME InOrder, NEW d \in Devices, toKernel[d] # <<>>
               PROVE  IF expecting[d] # NoRequest
                      THEN Head(toKernel[d]) = Data(expecting[d])
                      ELSE Head(toKernel[d]).kind = "header"
    BY DEF RepliesFramed
  <2>1. PICK open \in Requests \union {NoRequest} : Framed(toKernel[d], expecting[d], open, Reads)
    BY DEF InOrder, KernelInOrder, Carries
  <2>2. Head(toKernel[d]) = toKernel[d][1]
    BY HeadTailProperties DEF InOrder, TypeOK
  <2> QED
    BY <2>1, <2>2 DEF Framed
<1> QED
  BY <1>1, InOrderAlways, PTL

--------------------------------------------------------------------------------

(***************************************************************************)
(* With one thread, and a file whose offsets an int can hold, the program  *)
(* is a block device.                                                      *)
(***************************************************************************)
OneThread == Threads = 1 /\ FileSize <= OffsetLimit

LEMMA OffsetKept ==
    ASSUME OneThread, NEW r \in Requests
    PROVE  m_offset(r) = Offset[r] /\ Offset[r] \in Nat /\ Size[r] \in Nat \ {0}
<1> USE EngineAssumption DEF EngineAssumption
<1>1. Offset[r] \in Nat /\ Offset[r] < OffsetLimit /\ Size[r] \in Nat \ {0} /\ OffsetLimit \in Nat
  BY DEF OneThread
<1>2. ASSUME NEW x \in Nat, NEW m \in Nat, x < m PROVE x % m = x
  BY <1>2, Z3
<1>3. (Offset[r] + OffsetLimit) % (2 * OffsetLimit) = Offset[r] + OffsetLimit
  <2>1. /\ Offset[r] + OffsetLimit \in Nat /\ 2 * OffsetLimit \in Nat
        /\ Offset[r] + OffsetLimit < 2 * OffsetLimit
    BY <1>1
  <2> QED
    BY <1>2, <2>1, Zenon
<1>4. m_offset(r) = (Offset[r] + OffsetLimit) - OffsetLimit
  BY <1>3, Zenon DEF m_offset
<1> QED
  BY <1>1, <1>4

(***************************************************************************)
(* The inductive invariant: at most one handler runs; between its lseek    *)
(* and its transfer the position is where it put it; a read has all of its *)
(* data once it has moved any.                                             *)
(***************************************************************************)
Busy == {"seek", "move", "reply", "data"}

OneRuns == \A r, q \in Requests : stage[r] \in Busy /\ stage[q] \in Busy => r = q

Positioned == \A r \in Requests : stage[r] = "move" => position = Offset[r]

Moved == {"reply", "data", "done", "answered"}

ReadsWhole == \A r \in Reads : got[r] = IF stage[r] \in Moved THEN Size[r] ELSE 0

Serial == InOrder /\ DOMAIN file = 0 .. FileSize - 1 /\ OneRuns /\ Positioned /\ ReadsWhole

\* What is on its way was sent and has not been answered.
LEMMA OnTheWay ==
    ASSUME InOrder, NEW r \in Requests
    PROVE  /\ OnSocketReady(r) \/ ReadPayload(r) => stage[r] \in {"sending", "sent"}
           /\ Receive(r) \/ ReceiveData(r) => stage[r] \in {"data", "done"}
<1> USE EngineAssumption DEF EngineAssumption
<1> DEFINE e == DeviceOf[r]
<1>1. ASSUME OnSocketReady(r) \/ ReadPayload(r) PROVE stage[r] \in {"sending", "sent"}
  <2>1. Carries(toEngine[e], Taken(e), stage, e, "sending", "sent", Writes)
    BY DEF InOrder, EngineInOrder
  <2>2. 1 \in 1 .. Len(toEngine[e]) /\ toEngine[e][1].req = r
    BY <1>1, EmptySeq, LenProperties DEF OnSocketReady, ReadPayload, Take, Header, Data, InOrder, TypeOK
  <2> QED
    BY <2>1, <2>2 DEF Carries
<1>2. ASSUME Receive(r) \/ ReceiveData(r) PROVE stage[r] \in {"data", "done"}
  <2>1. Carries(toKernel[e], expecting[e], stage, e, "data", "done", Reads)
    BY DEF InOrder, KernelInOrder
  <2>2. 1 \in 1 .. Len(toKernel[e]) /\ toKernel[e][1].req = r
    BY <1>2, EmptySeq, LenProperties DEF Receive, ReceiveData, Take, Header, Data, InOrder, TypeOK
  <2> QED
    BY <2>1, <2>2 DEF Carries
<1> QED
  BY <1>1, <1>2

\* Where a read begins at its offset, it reads everything at once.
LEMMA ReadStep ==
    ASSUME OneThread, Serial, NEW r \in Requests, Read(r)
    PROVE  /\ r \in Reads /\ stage[r] = "move"
           /\ stage' = [stage EXCEPT ![r] = "reply"]
           /\ got' = [got EXCEPT ![r] = Size[r]]
           /\ m_data' = [m_data EXCEPT ![r] = [k \in 0 .. Size[r] - 1 |-> file[Offset[r] + k]]]
           /\ file' = file
<1> USE EngineAssumption DEF EngineAssumption
<1>1. r \in Reads /\ stage[r] = "move" /\ got[r] = 0 /\ position = Offset[r] /\ file' = file
  BY DEF Read, Move, Reads, Serial, ReadsWhole, Moved, Positioned, memoryVars
<1>2. DOMAIN file = 0 .. FileSize - 1 /\ DOMAIN m_data = Requests
  BY DEF Serial, InOrder, TypeOK
<1>3. /\ Offset[r] \in Nat /\ Size[r] \in Nat \ {0} /\ FileSize \in Nat
      /\ Offset[r] + Size[r] <= FileSize
  OBVIOUS
<1>4. PICK n \in 1 .. Size[r] - got[r] :
         /\ n = Size[r] - got[r] \/ position + n \notin DOMAIN file
         /\ m_data' = [m_data EXCEPT ![r] =
                         [k \in 0 .. Size[r] - 1 |->
                            IF k \in got[r] .. got[r] + n - 1
                            THEN file[position + (k - got[r])] ELSE @[k]]]
         /\ got' = [got EXCEPT ![r] = @ + n]
         /\ stage' = [stage EXCEPT ![r] = IF n = Size[r] - got[r] THEN "reply" ELSE "move"]
  BY DEF Read, Move
<1>5. n = Size[r]
  BY <1>1, <1>2, <1>3, <1>4
<1>6. got' = [got EXCEPT ![r] = Size[r]] /\ stage' = [stage EXCEPT ![r] = "reply"]
  <2>1. n = Size[r] - got[r] /\ got[r] + n = Size[r]
    BY <1>1, <1>3, <1>5
  <2>2. got' = [got EXCEPT ![r] = got[r] + n]
    BY <1>4 DEF Serial, InOrder, TypeOK
  <2> QED
    BY <1>4, <2>1, <2>2
<1>7. m_data' = [m_data EXCEPT ![r] = [k \in 0 .. Size[r] - 1 |->
                   IF k \in 0 .. 0 + Size[r] - 1 THEN file[Offset[r] + (k - 0)] ELSE m_data[r][k]]]
  <2>1. m_data' = [m_data EXCEPT ![r] =
                     [k \in 0 .. Size[r] - 1 |->
                        IF k \in got[r] .. got[r] + n - 1
                        THEN file[position + (k - got[r])] ELSE m_data[r][k]]]
    BY <1>2, <1>4
  <2> QED
    BY <1>1, <1>5, <2>1
<1>8. [k \in 0 .. Size[r] - 1 |->
         IF k \in 0 .. 0 + Size[r] - 1 THEN file[Offset[r] + (k - 0)] ELSE m_data[r][k]]
      = [k \in 0 .. Size[r] - 1 |-> file[Offset[r] + k]]
  BY <1>3
<1> QED
  BY <1>1, <1>6, <1>7, <1>8

\* Where a write begins at its offset, it covers its own blocks.
LEMMA WriteStep ==
    ASSUME OneThread, Serial, NEW r \in Requests, Write(r)
    PROVE  /\ r \in Writes /\ stage[r] = "move"
           /\ stage' = [stage EXCEPT ![r] = "reply"]
           /\ file' = [b \in 0 .. FileSize - 1 |->
                         IF b - Offset[r] \in 0 .. Size[r] - 1
                         THEN <<r, b - Offset[r]>> ELSE file[b]]
           /\ got' = got /\ m_data' = m_data
<1> USE EngineAssumption DEF EngineAssumption
<1>1. /\ r \in Writes /\ stage[r] = "move" /\ position = Offset[r]
      /\ stage' = [stage EXCEPT ![r] = "reply"] /\ got' = got /\ m_data' = m_data
  BY DEF Write, Move, Writes, Serial, Positioned, bufferVars
<1>2. /\ Offset[r] \in Nat /\ Size[r] \in Nat \ {0} /\ FileSize \in Nat
      /\ Offset[r] + Size[r] <= FileSize
  OBVIOUS
<1> DEFINE written == Offset[r] .. Offset[r] + Size[r] - 1
<1>3. file' = [b \in DOMAIN file \union written |->
                 IF b \in written THEN <<r, b - Offset[r]>> ELSE file[b]]
  BY <1>1 DEF Write
<1>4. DOMAIN file \union written = 0 .. FileSize - 1
  BY <1>2 DEF Serial
<1>5. \A b \in 0 .. FileSize - 1 : b \in written <=> b - Offset[r] \in 0 .. Size[r] - 1
  BY <1>2
<1> QED
  BY <1>1, <1>3, <1>4, <1>5

--------------------------------------------------------------------------------
\* A request that moves outside the handlers.
LEMMA SerialMove ==
    ASSUME Serial, InOrder', NEW r \in Requests, NEW x,
           stage' = stage \/ stage' = [stage EXCEPT ![r] = x],
           x \notin Busy, x \in Moved <=> stage[r] \in Moved,
           position' = position, got' = got, file' = file
    PROVE  Serial'
<1> USE DEF Busy
<1>1. stage \in [Requests -> Stages]
  BY DEF Serial, InOrder, TypeOK
<1>2. OneRuns'
  BY <1>1 DEF Serial, OneRuns
<1>3. Positioned'
  BY <1>1 DEF Serial, Positioned
<1>4. ReadsWhole'
  BY <1>1 DEF Serial, ReadsWhole, Reads
<1> QED
  BY <1>2, <1>3, <1>4 DEF Serial

LEMMA SerialStep ==
    ASSUME OneThread, Serial, [Next]_vars PROVE Serial'
<1> USE EngineAssumption DEF EngineAssumption, Busy, Moved, socketVars, runVars, memoryVars, bufferVars
<1>0. InOrder /\ InOrder' /\ stage \in [Requests -> Stages] /\ got \in [Requests -> Nat]
  BY TypeStep, EngineStep, KernelStep DEF Serial, InOrder, TypeOK
<1>1. ASSUME NEW r \in Requests, Send(r) \/ SendData(r) PROVE Serial'
  <2>1. /\ stage[r] \in {"new", "sending"}
        /\ \E x \in {"sending", "sent"} : stage' = [stage EXCEPT ![r] = x]
        /\ position' = position /\ got' = got /\ file' = file
    BY <1>1 DEF Send, SendData, Move
  <2> QED
    BY <1>0, <2>1, SerialMove
<1>2. ASSUME NEW r \in Requests, OnSocketReady(r) \/ ReadPayload(r) PROVE Serial'
  <2>1. /\ stage' = stage \/ stage' = [stage EXCEPT ![r] = "queued"]
        /\ position' = position /\ got' = got /\ file' = file
    BY <1>2 DEF OnSocketReady, ReadPayload
  <2>2. stage[r] \in {"sending", "sent"}
    BY <1>0, <1>2, OnTheWay
  <2> QED
    BY <1>0, <2>1, <2>2, SerialMove
<1>3. ASSUME NEW r \in Requests, Receive(r) \/ ReceiveData(r) PROVE Serial'
  <2>1. /\ stage' = stage \/ stage' = [stage EXCEPT ![r] = "answered"]
        /\ position' = position /\ got' = got /\ file' = file
    BY <1>3 DEF Receive, ReceiveData
  <2>2. stage[r] \in {"data", "done"}
    BY <1>0, <1>3, OnTheWay
  <2> QED
    BY <1>0, <2>1, <2>2, SerialMove
<1>4. ASSUME NEW r \in Requests, Create(r) PROVE Serial'
  <2>1. /\ stage[r] = "queued"
        /\ stage' = [stage EXCEPT ![r] = IF m_type(r) = NBD_CMD_DISC THEN "done" ELSE "seek"]
        /\ position' = position /\ got' = got /\ file' = file
    BY <1>4 DEF Create, Move
  <2>2. \A q \in Requests : stage[q] \notin Busy
    <3>1. IsFiniteSet(Running) /\ Cardinality(Running) < 1
      BY <1>4, FS_Subset DEF Create, Running, OneThread
    <3>2. Running = {}
      BY <3>1, FS_CardinalityType, FS_EmptySet
    <3> QED
      BY <3>2 DEF Running
  <2>3. r \in Reads => m_type(r) # NBD_CMD_DISC
    BY DEF Reads, Is, m_type, NBD_CMD_READ, NBD_CMD_DISC
  <2>4. OneRuns' /\ Positioned'
    BY <1>0, <2>1, <2>2 DEF Serial, OneRuns, Positioned
  <2>5. ReadsWhole'
    BY <1>0, <2>1, <2>3 DEF Serial, ReadsWhole, Reads
  <2> QED
    BY <1>0, <2>1, <2>4, <2>5 DEF Serial
<1>5. ASSUME NEW r \in Requests, Seek(r) PROVE Serial'
  <2>1. /\ stage[r] = "seek" /\ stage' = [stage EXCEPT ![r] = "move"]
        /\ position' = Offset[r] /\ got' = got /\ file' = file
    BY <1>5, OffsetKept DEF Seek, Move
  <2>2. OneRuns' /\ Positioned'
    BY <1>0, <2>1 DEF Serial, OneRuns, Positioned
  <2>3. ReadsWhole'
    BY <1>0, <2>1 DEF Serial, ReadsWhole, Reads
  <2> QED
    BY <1>0, <2>1, <2>2, <2>3 DEF Serial
<1>6. ASSUME NEW r \in Requests, Read(r) PROVE Serial'
  <2>1. /\ r \in Reads /\ stage[r] = "move" /\ stage' = [stage EXCEPT ![r] = "reply"]
        /\ got' = [got EXCEPT ![r] = Size[r]] /\ file' = file
    BY <1>6, ReadStep
  <2>2. OneRuns' /\ Positioned'
    BY <1>0, <2>1 DEF Serial, OneRuns, Positioned
  <2>3. ReadsWhole'
    BY <1>0, <2>1 DEF Serial, ReadsWhole, Reads
  <2> QED
    BY <1>0, <2>1, <2>2, <2>3 DEF Serial
<1>7. ASSUME NEW r \in Requests, Write(r) PROVE Serial'
  <2>1. /\ r \in Writes /\ stage[r] = "move" /\ stage' = [stage EXCEPT ![r] = "reply"]
        /\ got' = got /\ DOMAIN file' = 0 .. FileSize - 1
    BY <1>7, WriteStep
  <2>2. OneRuns' /\ Positioned'
    BY <1>0, <2>1 DEF Serial, OneRuns, Positioned
  <2>3. r \notin Reads
    BY <2>1 DEF Reads, Writes, Is, NBD_CMD_READ, NBD_CMD_WRITE
  <2>4. ReadsWhole'
    BY <1>0, <2>1, <2>3 DEF Serial, ReadsWhole, Reads
  <2> QED
    BY <1>0, <2>1, <2>2, <2>4 DEF Serial
<1>8. ASSUME NEW r \in Requests, Done(r) \/ DoneData(r) PROVE Serial'
  <2>1. /\ stage[r] \in {"reply", "data"}
        /\ \E x \in {"data", "done"} : stage' = [stage EXCEPT ![r] = x]
        /\ position' = position /\ got' = got /\ file' = file
    BY <1>8 DEF Done, DoneData, Move
  <2>2. OneRuns' /\ Positioned'
    BY <1>0, <2>1 DEF Serial, OneRuns, Positioned
  <2>3. ReadsWhole'
    BY <1>0, <2>1 DEF Serial, ReadsWhole, Reads
  <2> QED
    BY <1>0, <2>1, <2>2, <2>3 DEF Serial
<1>9. CASE Select \/ UNCHANGED vars
  <2>1. stage' = stage /\ position' = position /\ got' = got /\ file' = file
    BY <1>9 DEF Select, vars
  <2> QED
    BY <1>0, <2>1 DEF Serial, OneRuns, Positioned, ReadsWhole
<1> QED
  BY <1>1, <1>2, <1>3, <1>4, <1>5, <1>6, <1>7, <1>8, <1>9 DEF Next, Run, Kernel, Handle

--------------------------------------------------------------------------------
(***************************************************************************)
(* The steps, as the block device sees them.                               *)
(***************************************************************************)
LEMMA DeviceStutters ==
    ASSUME file' = file, got' = got, m_data' = m_data,
           \A r \in Reads \union Writes : Phase(r)' = Phase(r)
    PROVE  UNCHANGED Device!vars
BY DEF Device!vars

LEMMA PhaseMoves ==
    ASSUME stage \in [Requests -> Stages], NEW r \in Reads \union Writes, NEW x \in Stages,
           stage' = [stage EXCEPT ![r] = x], NEW p, NEW y, Phase(r) = p, Phase(r)' = y
    PROVE  Device!Advance(r, p, y)
<1>1. r \in Requests /\ \A q \in Reads \union Writes : q \in Requests
  BY DEF Reads, Writes
<1>2. ASSUME NEW q \in Reads \union Writes, q # r PROVE Phase(q)' = Phase(q)
  <2>1. stage'[q] = stage[q]
    BY <1>1, <1>2
  <2> QED
    BY <2>1 DEF Phase
<1>3. [u \in Reads \union Writes |-> Phase(u)']
      = [[u \in Reads \union Writes |-> Phase(u)] EXCEPT ![r] = y]
  BY <1>2
<1> QED
  BY <1>3 DEF Device!Advance

LEMMA DeviceStep ==
    ASSUME OneThread, Serial, [Next]_vars PROVE [Device!Next]_(Device!vars)
<1> USE EngineAssumption DEF EngineAssumption, socketVars, runVars, memoryVars, bufferVars
<1> DEFINE RW == Reads \union Writes
<1>0. InOrder /\ stage \in [Requests -> Stages] /\ RW \in SUBSET Requests
  BY DEF Serial, InOrder, TypeOK, Reads, Writes
\* A step that moves r within a phase, or that is a disconnect's.
<1>a. ASSUME NEW r \in Requests, NEW x \in Stages, stage' = stage \/ stage' = [stage EXCEPT ![r] = x],
             file' = file, got' = got, m_data' = m_data,
             r \in RW => Phase(r)' = Phase(r)
      PROVE  UNCHANGED Device!vars
  <2>1. ASSUME NEW q \in RW PROVE Phase(q)' = Phase(q)
    <3>1. CASE q = r
      BY <1>a, <2>1, <3>1
    <3>2. CASE q # r
      <4>1. stage'[q] = stage[q]
        BY <1>0, <1>a, <2>1, <3>2
      <4> QED
        BY <4>1 DEF Phase
    <3> QED
      BY <3>1, <3>2
  <2> QED
    BY <1>a, <2>1, DeviceStutters
<1>1. ASSUME NEW r \in Requests, Send(r) PROVE [Device!Next]_(Device!vars)
  <2>1. PICK x \in {"sending", "sent"} : stage[r] = "new" /\ stage' = [stage EXCEPT ![r] = x]
    BY <1>1 DEF Send, Move
  <2>2. file' = file /\ got' = got /\ m_data' = m_data
    BY <1>1 DEF Send
  <2>3. CASE r \in RW
    <3>1. Phase(r) = "idle" /\ Phase(r)' = "submitted"
      BY <1>0, <2>1 DEF Phase
    <3>2. Device!Submit(r)
      BY <1>0, <2>1, <2>2, <2>3, <3>1, PhaseMoves DEF Device!Submit
    <3> QED
      BY <2>3, <3>2 DEF Device!Next, Device!All
  <2>4. CASE r \notin RW
    BY <1>a, <2>1, <2>2, <2>4
  <2> QED
    BY <2>3, <2>4
<1>2. ASSUME NEW r \in Requests, SendData(r) PROVE UNCHANGED Device!vars
  <2>1. stage[r] = "sending" /\ stage' = [stage EXCEPT ![r] = "sent"]
        /\ file' = file /\ got' = got /\ m_data' = m_data
    BY <1>2 DEF SendData, Move
  <2>2. Phase(r)' = Phase(r)
    BY <1>0, <2>1 DEF Phase
  <2> QED
    BY <1>a, <2>1, <2>2
<1>3. ASSUME NEW r \in Requests, Receive(r) \/ ReceiveData(r) PROVE [Device!Next]_(Device!vars)
  <2>1. stage' = stage \/ stage' = [stage EXCEPT ![r] = "answered"]
    BY <1>3 DEF Receive, ReceiveData
  <2>2. file' = file /\ got' = got /\ m_data' = m_data /\ stage[r] \in {"data", "done"}
    BY <1>0, <1>3, OnTheWay DEF Receive, ReceiveData
  <2>3. CASE stage' = stage
    BY <2>2, <2>3, DeviceStutters DEF Phase
  <2>4. CASE stage' = [stage EXCEPT ![r] = "answered"] /\ r \in RW
    <3>1. Phase(r) = "applied" /\ Phase(r)' = "replied"
      BY <1>0, <2>2, <2>4 DEF Phase
    <3>2. Device!Reply(r)
      BY <1>0, <2>2, <2>4, <3>1, PhaseMoves DEF Device!Reply
    <3> QED
      BY <2>4, <3>2 DEF Device!Next, Device!All
  <2>5. CASE r \notin RW
    BY <1>a, <2>1, <2>2, <2>5
  <2> QED
    BY <2>1, <2>3, <2>4, <2>5
<1>4. ASSUME NEW r \in Requests, OnSocketReady(r) \/ ReadPayload(r) PROVE UNCHANGED Device!vars
  <2>1. /\ stage' = stage \/ stage' = [stage EXCEPT ![r] = "queued"]
        /\ file' = file /\ got' = got /\ m_data' = m_data
    BY <1>4 DEF OnSocketReady, ReadPayload
  <2>2. stage[r] \in {"sending", "sent"}
    BY <1>0, <1>4, OnTheWay
  <2>3. Phase(r)' = Phase(r)
    BY <1>0, <2>1, <2>2 DEF Phase
  <2> QED
    BY <1>a, <2>1, <2>3
<1>5. ASSUME NEW r \in Requests, Create(r) \/ Seek(r) PROVE UNCHANGED Device!vars
  <2>1. PICK x \in {"seek", "move", "done"} :
           /\ stage[r] \in {"queued", "seek"} /\ stage' = [stage EXCEPT ![r] = x]
           /\ r \in RW => x # "done"
    BY <1>5 DEF Create, Seek, Move, Reads, Writes, Is, m_type, NBD_CMD_READ, NBD_CMD_WRITE, NBD_CMD_DISC
  <2>2. file' = file /\ got' = got /\ m_data' = m_data
    BY <1>5 DEF Create, Seek
  <2>3. r \in RW => Phase(r)' = Phase(r)
    BY <1>0, <2>1 DEF Phase
  <2> QED
    BY <1>a, <2>1, <2>2, <2>3
<1>6. ASSUME NEW r \in Requests, Read(r) PROVE [Device!Next]_(Device!vars)
  <2>1. /\ r \in Reads /\ stage[r] = "move" /\ stage' = [stage EXCEPT ![r] = "reply"]
        /\ got' = [got EXCEPT ![r] = Size[r]]
        /\ m_data' = [m_data EXCEPT ![r] = [k \in 0 .. Size[r] - 1 |-> file[Offset[r] + k]]]
        /\ file' = file
    BY <1>6, ReadStep
  <2>2. Phase(r) = "submitted" /\ Phase(r)' = "applied"
    BY <1>0, <2>1 DEF Phase
  <2> DEFINE Result(u) == IF got[u] < Size[u] THEN NoRequest ELSE m_data[u]
  <2>3. Result(r)' = [k \in 0 .. Size[r] - 1 |-> file[Offset[r] + k]]
    <3>1. got'[r] = Size[r] /\ m_data'[r] = [k \in 0 .. Size[r] - 1 |-> file[Offset[r] + k]]
      BY <1>0, <2>1 DEF InOrder, TypeOK
    <3> QED
      BY <3>1
  <2>4. \A u \in Reads : u # r => Result(u)' = Result(u)
    <3>1. \A u \in Reads : u # r => got'[u] = got[u] /\ m_data'[u] = m_data[u]
      BY <1>0, <2>1 DEF InOrder, TypeOK, Reads
    <3> QED
      BY <3>1
  <2> HIDE DEF Result
  <2>5. [u \in Reads |-> Result(u)'] = [[u \in Reads |-> Result(u)]
           EXCEPT ![r] = [k \in 0 .. Size[r] - 1 |-> file[Offset[r] + k]]]
    BY <2>1, <2>3, <2>4
  <2>6. Device!Advance(r, "submitted", "applied")
    BY <1>0, <2>1, <2>2, PhaseMoves
  <2>7. Device!Read(r)
    BY <2>1, <2>5, <2>6 DEF Device!Read, Result
  <2> QED
    BY <2>1, <2>7 DEF Device!Next, Device!All
<1>7. ASSUME NEW r \in Requests, Write(r) PROVE [Device!Next]_(Device!vars)
  <2>1. /\ r \in Writes /\ stage[r] = "move" /\ stage' = [stage EXCEPT ![r] = "reply"]
        /\ file' = [b \in 0 .. FileSize - 1 |->
                      IF b - Offset[r] \in 0 .. Size[r] - 1
                      THEN <<r, b - Offset[r]>> ELSE file[b]]
        /\ got' = got /\ m_data' = m_data
    BY <1>7, WriteStep
  <2>2. Phase(r) = "submitted" /\ Phase(r)' = "applied"
    BY <1>0, <2>1 DEF Phase
  <2>3. Device!Advance(r, "submitted", "applied")
    BY <1>0, <2>1, <2>2, PhaseMoves
  <2>4. Device!Write(r)
    BY <2>1, <2>3 DEF Device!Write
  <2> QED
    BY <2>1, <2>4 DEF Device!Next, Device!All
<1>8. ASSUME NEW r \in Requests, Done(r) \/ DoneData(r) PROVE UNCHANGED Device!vars
  <2>1. PICK x \in {"data", "done"} :
           stage[r] \in {"reply", "data"} /\ stage' = [stage EXCEPT ![r] = x]
    BY <1>8 DEF Done, DoneData, Move
  <2>2. file' = file /\ got' = got /\ m_data' = m_data
    BY <1>8 DEF Done, DoneData
  <2>3. Phase(r)' = Phase(r)
    BY <1>0, <2>1 DEF Phase
  <2> QED
    BY <1>a, <2>1, <2>2, <2>3
<1>9. CASE Select \/ UNCHANGED vars
  <2>1. stage' = stage /\ file' = file /\ got' = got /\ m_data' = m_data
    BY <1>9 DEF Select, vars
  <2> QED
    BY <2>1, DeviceStutters DEF Phase
<1> QED
  BY <1>1, <1>2, <1>3, <1>4, <1>5, <1>6, <1>7, <1>8, <1>9 DEF Next, Run, Kernel, Handle

(***************************************************************************)
(* With one thread every request takes effect once, between its submission *)
(* and its reply, on its own blocks (nbdproxy.cpp:240-259).  With more     *)
(* threads this is false: lseek and the transfer are separate calls.       *)
(***************************************************************************)
THEOREM OneThreadImplementsDevice ==
    ASSUME OneThread PROVE Spec => ImplementsDeviceSafely
<1> USE EngineAssumption DEF EngineAssumption
<1>1. Init => Serial
  <2> SUFFICES ASSUME Init PROVE Serial
    OBVIOUS
  <2>1. InOrder
    BY InOrderInit
  <2>2. DOMAIN file = 0 .. FileSize - 1
    BY DEF Init
  <2>3. OneRuns /\ Positioned
    BY DEF Init, OneRuns, Positioned, Busy
  <2>4. ReadsWhole
    BY DEF Init, ReadsWhole, Reads, Moved
  <2> QED
    BY <2>1, <2>2, <2>3, <2>4 DEF Serial
<1>2. Serial /\ [Next]_vars => Serial'
  BY SerialStep
<1>3. Init => Device!Init
  <2> SUFFICES ASSUME Init PROVE Device!Init
    OBVIOUS
  <2>1. \A r \in Reads \union Writes : Phase(r) = "idle"
    BY DEF Init, Phase, Reads, Writes
  <2>2. \A r \in Reads : got[r] < Size[r]
    BY DEF Init, Reads
  <2>3. file = [b \in 0 .. FileSize - 1 |-> Blank]
    BY DEF Init
  <2> QED
    BY <2>1, <2>2, <2>3 DEF Device!Init, Device!All
<1>4. Serial /\ [Next]_vars => [Device!Next]_(Device!vars)
  BY DeviceStep
<1> QED
  BY <1>1, <1>2, <1>3, <1>4, PTL DEF Spec, ImplementsDeviceSafely, Device!Spec

--------------------------------------------------------------------------------
\* What a change of one stage is to the pool.
LEMMA StageMoves ==
    ASSUME NEW r \in Requests, NEW q \in Stages,
           stage \in [Requests -> Stages], stage' = [stage EXCEPT ![r] = q]
    PROVE  /\ stage[r] \in {"sending", "sent"} /\ q = "queued" => Pool!Submit(r)
           /\ stage[r] = "queued" /\ q = "seek" => Pool!Start(r)
           /\ stage[r] \in {"seek", "move", "reply", "data"} /\ q \in {"done", "answered"}
                => Pool!Finish(r)
           /\ stage[r] \in {"seek", "move", "reply"} /\ q \in {"move", "reply", "data"}
                => UNCHANGED <<Queued, Running>>
           /\ stage[r] \in {"new", "sending", "done"} /\ q \in {"sending", "sent", "answered"}
                => UNCHANGED <<Queued, Running>>
<1>1. stage'[r] = q /\ \A x \in Requests \ {r} : stage'[x] = stage[x]
  OBVIOUS
<1>2. CASE stage[r] \in {"sending", "sent"} /\ q = "queued"
  <2>1. Queued' = Queued \union {r} /\ Running' = Running /\ r \notin Queued \union Running
    BY <1>1, <1>2 DEF Queued, Running
  <2> QED
    BY <1>2, <2>1 DEF Pool!Submit
<1>3. CASE stage[r] = "queued" /\ q = "seek"
  <2>1. Queued' = Queued \ {r} /\ Running' = Running \union {r} /\ r \in Queued
    BY <1>1, <1>3 DEF Queued, Running
  <2>2. \A y \in Queued : [x \in Requests |-> 0][r] <= [x \in Requests |-> 0][y]
    BY DEF Queued
  <2> QED
    BY <1>3, <2>1, <2>2 DEF Pool!Start
<1>4. CASE stage[r] \in {"seek", "move", "reply", "data"} /\ q \in {"done", "answered"}
  <2>1. Queued' = Queued /\ Running' = Running \ {r} /\ r \in Running
    BY <1>1, <1>4 DEF Queued, Running
  <2> QED
    BY <1>4, <2>1 DEF Pool!Finish
<1>5. CASE \/ stage[r] \in {"seek", "move", "reply"} /\ q \in {"move", "reply", "data"}
           \/ stage[r] \in {"new", "sending", "done"} /\ q \in {"sending", "sent", "answered"}
  <2>1. Queued' = Queued /\ Running' = Running
    BY <1>1, <1>5 DEF Queued, Running
  <2> QED
    BY <1>5, <2>1
<1> QED
  BY <1>2, <1>3, <1>4, <1>5

(***************************************************************************)
(* The composition of the engine with its pool: every step of the engine   *)
(* submits one task, has the pool start or finish one, or is not visible   *)
(* to the pool, for any requests, devices and threads. A disconnect, which *)
(* is looked up under a key that nobody added (nbdproxy.cpp:203), is added *)
(* and not started.                                                        *)
(***************************************************************************)
THEOREM EngineUsesExecutor ==
    ASSUME htonl(NBD_CMD_DISC) \notin Keys PROVE Spec => UsesExecutorSafely
<1> USE EngineAssumption DEF EngineAssumption
<1>1. Init => Pool!Init
  BY DEF Init, Pool!Init, Queued, Running
<1>2. InOrder /\ [Next]_vars => [Pool!Next]_(Pool!vars)
  <2> SUFFICES ASSUME InOrder, [Next]_vars PROVE [Pool!Next]_(Pool!vars)
    OBVIOUS
  <2>0. stage \in [Requests -> Stages]
    BY DEF InOrder, TypeOK
  <2>1. ASSUME NEW r \in Requests, Pool!Submit(r) \/ Pool!Start(r) \/ Pool!Finish(r)
        PROVE  Pool!Next
    BY <2>1 DEF Pool!Next
  <2>2. ASSUME UNCHANGED <<Queued, Running>> PROVE UNCHANGED Pool!vars
    BY <2>2 DEF Pool!vars
  <2>3. ASSUME UNCHANGED stage PROVE UNCHANGED Pool!vars
    BY <2>2, <2>3 DEF Queued, Running
  <2>4. ASSUME NEW r \in Requests, Send(r) \/ SendData(r) PROVE UNCHANGED Pool!vars
    <3>1. PICK q \in {"sending", "sent"} : Move(r, stage[r], q) /\ stage[r] \in {"new", "sending"}
      BY <2>4 DEF Send, SendData, Move
    <3> QED
      BY <2>0, <2>2, <3>1, StageMoves DEF Move, Stages
  <2>5. ASSUME NEW r \in Requests, OnSocketReady(r) \/ ReadPayload(r)
        PROVE  Pool!Next \/ UNCHANGED Pool!vars
    <3>1. stage' = stage \/ stage' = [stage EXCEPT ![r] = "queued"]
      BY <2>5 DEF OnSocketReady, ReadPayload
    <3>2. stage[r] \in {"sending", "sent"}
      BY <2>5, OnTheWay
    <3> QED
      BY <2>0, <2>1, <2>3, <3>1, <3>2, StageMoves DEF Stages
  <2>6. ASSUME NEW r \in Requests, Create(r) PROVE Pool!Next
    <3>1. stage[r] = "queued" /\ stage' = [stage EXCEPT ![r] = "seek"]
      BY <2>6 DEF Create, Move, m_type, Is
    <3> QED
      BY <2>0, <2>1, <3>1, StageMoves DEF Stages
  <2>7. ASSUME NEW r \in Requests, Handle(r) PROVE Pool!Next \/ UNCHANGED Pool!vars
    <3>1. \/ /\ stage[r] \in {"seek", "move", "reply"}
             /\ \E q \in {"move", "reply", "data"} : stage' = [stage EXCEPT ![r] = q]
          \/ stage[r] \in {"reply", "data"} /\ stage' = [stage EXCEPT ![r] = "done"]
      BY <2>7 DEF Handle, Seek, Read, Write, Done, DoneData, Move
    <3> QED
      BY <2>0, <2>1, <2>2, <3>1, StageMoves DEF Stages
  <2>8. ASSUME NEW r \in Requests, Receive(r) \/ ReceiveData(r)
        PROVE  Pool!Next \/ UNCHANGED Pool!vars
    <3>1. stage' = stage \/ stage' = [stage EXCEPT ![r] = "answered"]
      BY <2>8 DEF Receive, ReceiveData
    <3>2. stage[r] \in {"data", "done"}
      BY <2>8, OnTheWay
    <3> QED
      BY <2>0, <2>1, <2>2, <2>3, <3>1, <3>2, StageMoves DEF Stages
  <2>9. CASE Select \/ UNCHANGED vars
    BY <2>3, <2>9 DEF Select, vars
  <2> QED
    BY <2>4, <2>5, <2>6, <2>7, <2>8, <2>9 DEF Next, Run, Kernel
<1> QED
  BY <1>1, <1>2, InOrderAlways, PTL DEF Spec, UsesExecutorSafely, Pool!Spec
================================================================================
