----------------------------- MODULE ObserverProofs -----------------------------
(***************************************************************************)
(* Theorems about Observer for any dispatchers, callbacks and length of    *)
(* the lists.                                                              *)
(***************************************************************************)
EXTENDS Observer, SequenceTheorems, TLAPS

(***************************************************************************)
(* push_front: what the longer list holds, and where.                      *)
(***************************************************************************)
LEMMA PushFront ==
    ASSUME NEW S, NEW s \in Seq(S), NEW x \in S
    PROVE  /\ <<x>> \o s \in Seq(S)
           /\ Len(<<x>> \o s) = Len(s) + 1
           /\ \A i \in 1 .. Len(s) + 1 : (<<x>> \o s)[i] = IF i = 1 THEN x ELSE s[i - 1]
           /\ Range(<<x>> \o s) = Range(s) \union {x}
<1> DEFINE t == <<x>>
<1>1. t \in Seq(S) /\ Len(t) = 1 /\ t[1] = x
  OBVIOUS
<1> HIDE DEF t
<1>2. Range(t) = {x}
  <2>1. Range(t) = {t[i] : i \in 1 .. 1}
    BY <1>1, RangeEquality
  <2> QED
    BY <1>1, <2>1
<1>3. /\ t \o s \in Seq(S)
      /\ Len(t \o s) = 1 + Len(s)
      /\ \A i \in 1 .. 1 + Len(s) : (t \o s)[i] = IF i <= 1 THEN t[1] ELSE s[i - 1]
  <2>1. Len(s) \in Nat
    BY LenProperties
  <2>2. \A i \in 1 .. Len(t) + Len(s) :
           (t \o s)[i] = IF i <= Len(t) THEN t[i] ELSE s[i - Len(t)]
    BY <1>1, ConcatProperties
  <2>3. t \o s \in Seq(S) /\ Len(t \o s) = Len(t) + Len(s)
    BY <1>1, ConcatProperties
  <2>4. ASSUME NEW i \in 1 .. 1 + Len(s)
        PROVE  (t \o s)[i] = IF i <= 1 THEN t[1] ELSE s[i - 1]
    <3>1. i \in 1 .. Len(t) + Len(s)
      BY <1>1, <2>1
    <3>2. (t \o s)[i] = IF i <= Len(t) THEN t[i] ELSE s[i - Len(t)]
      BY <2>2, <3>1
    <3>3. CASE i = 1
      BY <1>1, <3>2, <3>3
    <3>4. CASE i # 1
      BY <1>1, <2>1, <3>2, <3>4
    <3> QED
      BY <3>3, <3>4
  <2> QED
    BY <1>1, <2>3, <2>4
<1>4. Range(t \o s) = Range(s) \union {x}
  BY <1>1, <1>2, RangeConcatenation
<1> QED
  BY <1>1, <1>3, <1>4 DEF t

(***************************************************************************)
(* list::erase: what the shorter list holds, and where.                    *)
(***************************************************************************)
LEMMA EraseNode ==
    ASSUME NEW S, NEW s \in Seq(S), NEW i \in 1 .. Len(s)
    PROVE  /\ RemoveAt(s, i) \in Seq(S)
           /\ Len(RemoveAt(s, i)) = Len(s) - 1
           /\ \A j \in 1 .. Len(s) - 1 :
                RemoveAt(s, i)[j] = IF j < i THEN s[j] ELSE s[j + 1]
           /\ Range(RemoveAt(s, i)) \subseteq Range(s)
           /\ Range(s) \subseteq Range(RemoveAt(s, i)) \union {s[i]}
<1> DEFINE a == SubSeq(s, 1, i - 1)
           b == SubSeq(s, i + 1, Len(s))
<1>1. \A j \in 1 .. Len(s) : s[j] \in S
  BY ElementOfSeq
<1>2. /\ a \in Seq(S) /\ Len(a) = i - 1
      /\ \A j \in 1 .. i - 1 : a[j] = s[j]
  BY <1>1, SubSeqProperties
<1>3. /\ b \in Seq(S) /\ Len(b) = Len(s) - i
      /\ \A j \in 1 .. Len(s) - i : b[j] = s[j + i]
  BY <1>1, SubSeqProperties
<1> HIDE DEF a, b
<1>4. RemoveAt(s, i) = a \o b
  BY DEF RemoveAt, a, b
<1>5. RemoveAt(s, i) \in Seq(S) /\ Len(RemoveAt(s, i)) = Len(s) - 1
  BY <1>2, <1>3, <1>4, ConcatProperties
<1>6. ASSUME NEW j \in 1 .. Len(s) - 1
      PROVE  RemoveAt(s, i)[j] = IF j < i THEN s[j] ELSE s[j + 1]
  <2>1. RemoveAt(s, i)[j] = IF j <= i - 1 THEN a[j] ELSE b[j - (i - 1)]
    BY <1>2, <1>3, <1>4, ConcatProperties
  <2> QED
    BY <2>1, <1>2, <1>3
<1>7. /\ Range(s) = {s[j] : j \in 1 .. Len(s)}
      /\ Range(RemoveAt(s, i)) = {RemoveAt(s, i)[j] : j \in 1 .. Len(s) - 1}
  BY <1>5, RangeEquality
<1>8. Range(RemoveAt(s, i)) \subseteq Range(s)
  BY <1>6, <1>7
<1>9. ASSUME NEW k \in 1 .. Len(s), k # i PROVE s[k] \in Range(RemoveAt(s, i))
  <2>1. CASE k < i
    BY <2>1, <1>6, <1>7
  <2>2. CASE k > i
    <3>1. k - 1 \in 1 .. Len(s) - 1 /\ RemoveAt(s, i)[k - 1] = s[k]
      BY <2>2, <1>6
    <3> QED
      BY <3>1, <1>7
  <2> QED
    BY <1>9, <2>1, <2>2
<1> QED
  BY <1>5, <1>6, <1>7, <1>8, <1>9

--------------------------------------------------------------------------------

(***************************************************************************)
(* The variables keep their types.                                         *)
(***************************************************************************)
LEMMA TypeStep == TypeOK /\ [Next]_vars => TypeOK'
<1> SUFFICES ASSUME TypeOK, [Next]_vars PROVE TypeOK'
  OBVIOUS
<1> USE DEF TypeOK
<1>1. ASSUME NEW d \in Dispatchers, NewDispatcher(d) PROVE TypeOK'
  BY <1>1 DEF NewDispatcher, lists
<1>2. ASSUME NEW c \in Callbacks, NewCallback(c) PROVE TypeOK'
  BY <1>2 DEF NewCallback, lists
<1>3. ASSUME NEW d \in Dispatchers, NEW c \in Callbacks, Attach(d, c) PROVE TypeOK'
  <2>1. <<c>> \o m_subscribers[d] \in Seq(Callbacks)
    BY PushFront
  <2>2. cursor' \in [Dispatchers -> Nat \union {Freed}]
    BY <1>3 DEF Attach, Freed
  <2>3. reattached' \subseteq Callbacks
    BY <1>3 DEF Attach
  <2> QED
    BY <1>3, <2>1, <2>2, <2>3 DEF Attach
<1>4. ASSUME NEW d \in Dispatchers, NEW c \in Callbacks, Erase(d, c)
      PROVE  /\ m_subscribers' \in [Dispatchers -> Seq(Callbacks)]
             /\ m_dispatcher' \in [Callbacks -> Dispatchers \union {NoDispatcher}]
             /\ cursor' \in [Dispatchers -> Nat \union {Freed}]
             /\ owed' \in [Dispatchers -> SUBSET Callbacks]
  <2>1. CASE UNCHANGED lists
    BY <2>1 DEF lists
  <2>2. ASSUME NEW i \in DOMAIN m_subscribers[d], m_subscribers[d][i] = c, EraseAt(d, i)
        PROVE  /\ m_subscribers' \in [Dispatchers -> Seq(Callbacks)]
               /\ m_dispatcher' \in [Callbacks -> Dispatchers \union {NoDispatcher}]
               /\ cursor' \in [Dispatchers -> Nat \union {Freed}]
               /\ owed' \in [Dispatchers -> SUBSET Callbacks]
    <3>1. i \in 1 .. Len(m_subscribers[d]) /\ Len(m_subscribers[d]) \in Nat
      BY LenProperties
    <3>2. RemoveAt(m_subscribers[d], i) \in Seq(Callbacks)
      BY <3>1, EraseNode
    <3>3. Shift(cursor[d], i) \in Nat \union {Freed}
      BY <3>1 DEF Shift, Freed
    <3> QED
      BY <2>2, <3>2, <3>3 DEF EraseAt
  <2> QED
    BY <1>4, <2>1, <2>2 DEF Erase
<1>5. ASSUME NEW d \in Dispatchers, NEW c \in Callbacks, Detach(d, c) PROVE TypeOK'
  BY <1>4, <1>5 DEF Detach
<1>6. ASSUME NEW c \in Callbacks, DestroyCallback(c) PROVE TypeOK'
  <2>1. CASE UNCHANGED <<lists, undefined>>
    BY <2>1, <1>6 DEF DestroyCallback, lists
  <2>2. CASE m_dispatcher[c] # NoDispatcher /\ Erase(m_dispatcher[c], c)
    BY <2>2, <1>4, <1>6 DEF DestroyCallback
  <2> QED
    BY <1>6, <2>1, <2>2 DEF DestroyCallback
<1>7. ASSUME NEW d \in Dispatchers, DestroyDispatcher(d) PROVE TypeOK'
  BY <1>7, EmptySeq DEF DestroyDispatcher, NoLoop, Freed
<1>8. ASSUME NEW d \in Dispatchers, NEW i \in Nat \ {0}, NEW left \in SUBSET Callbacks,
             Visit(d, i, left)
      PROVE  /\ cursor' \in [Dispatchers -> Nat \union {Freed}]
             /\ owed' \in [Dispatchers -> SUBSET Callbacks]
             /\ undefined' \in BOOLEAN
  <2>1. undefined' \in BOOLEAN
    BY <1>8, Zenon DEF Visit
  <2>2. cursor' = [cursor EXCEPT ![d] = NoLoop] \/ cursor' = [cursor EXCEPT ![d] = i]
    BY <1>8 DEF Visit
  <2>3. PICK gone \in SUBSET Callbacks : owed' = [owed EXCEPT ![d] = gone]
    <3>1. owed' = [owed EXCEPT ![d] = left] \/ owed' = [owed EXCEPT ![d] = left \ {m_subscribers[d][i]}]
      BY <1>8 DEF Visit
    <3> QED
      BY <3>1
  <2> QED
    BY <2>1, <2>2, <2>3 DEF NoLoop
<1>9. ASSUME NEW d \in Dispatchers, NotifyAll(d) PROVE TypeOK'
  <2>1. Listed(d) \subseteq Callbacks
    BY RangeOfSeq DEF Listed
  <2> QED
    BY <1>8, <1>9, <2>1 DEF NotifyAll
<1>10. ASSUME NEW d \in Dispatchers, Step(d) PROVE TypeOK'
  <2>1. cursor[d] + 1 \in Nat \ {0}
    BY <1>10 DEF Step, Freed
  <2> QED
    BY <1>8, <1>10, <2>1 DEF Step
<1>11. ASSUME NEW d \in Dispatchers, StepFreed(d) PROVE TypeOK'
  BY <1>11, LenProperties DEF StepFreed
<1>12. CASE UNCHANGED vars
  BY <1>12 DEF vars, lists
<1> QED
  BY <1>1, <1>2, <1>3, <1>5, <1>6, <1>7, <1>9, <1>10, <1>11, <1>12 DEF Next

(***************************************************************************)
(* What makes the three properties inductive: a callback that was never    *)
(* attached while listed has at most one node, in its dispatcher's list.   *)
(***************************************************************************)
OneNode ==
    \A c \in Callbacks \ reattached, d \in Dispatchers :
        \A i \in 1 .. Len(m_subscribers[d]) : m_subscribers[d][i] = c =>
            /\ m_dispatcher[c] = d
            /\ \A j \in 1 .. Len(m_subscribers[d]) : m_subscribers[d][j] = c => j = i

IInv == TypeOK /\ BackPointers /\ NoDangling /\ OneNode

(***************************************************************************)
(* Listed, in terms of positions.                                          *)
(***************************************************************************)
LEMMA ListedAt ==
    ASSUME TypeOK, NEW d \in Dispatchers
    PROVE  /\ m_subscribers[d] \in Seq(Callbacks) /\ Len(m_subscribers[d]) \in Nat
           /\ DOMAIN m_subscribers[d] = 1 .. Len(m_subscribers[d])
           /\ Listed(d) = {m_subscribers[d][i] : i \in 1 .. Len(m_subscribers[d])}
           /\ Listed(d) \subseteq Callbacks
<1>1. m_subscribers[d] \in Seq(Callbacks)
  BY DEF TypeOK
<1> QED
  BY <1>1, LenProperties, RangeEquality, RangeOfSeq DEF Listed

(***************************************************************************)
(* An empty list holds nothing.                                            *)
(***************************************************************************)
LEMMA NothingListed == Len(<<>>) = 0 /\ Range(<<>>) = {}
<1>1. <<>> \in Seq(Callbacks) /\ Len(<<>>) = 0
  BY EmptySeq
<1>2. Range(<<>>) = {<<>>[i] : i \in 1 .. Len(<<>>)}
  BY <1>1, RangeEquality
<1> QED
  BY <1>1, <1>2

(***************************************************************************)
(* The lists other than d's hold what they held.                           *)
(***************************************************************************)
LEMMA OtherLists ==
    ASSUME TypeOK, NEW d \in Dispatchers, NEW s,
           m_subscribers' = [m_subscribers EXCEPT ![d] = s]
    PROVE  /\ m_subscribers'[d] = s /\ Listed(d)' = Range(s)
           /\ \A e \in Dispatchers \ {d} :
                 m_subscribers'[e] = m_subscribers[e] /\ Listed(e)' = Listed(e)
BY DEF TypeOK, Listed

(***************************************************************************)
(* The invariant is kept when lists and pointers stay and nobody is        *)
(* destroyed.                                                              *)
(***************************************************************************)
LEMMA SameLists ==
    ASSUME IInv, UNCHANGED <<m_subscribers, m_dispatcher, reattached>>,
           disp \subseteq disp', cbs \subseteq cbs'
    PROVE  (BackPointers /\ NoDangling /\ OneNode)'
<1>1. \A d \in Dispatchers : Listed(d)' = Listed(d)
  BY DEF Listed
<1>2. BackPointers'
  BY <1>1 DEF IInv, TypeOK, BackPointers
<1>3. NoDangling'
  BY <1>1 DEF IInv, NoDangling
<1>4. OneNode'
  BY DEF IInv, OneNode
<1> QED
  BY <1>2, <1>3, <1>4

(***************************************************************************)
(* Attach keeps the invariant.                                             *)
(***************************************************************************)
LEMMA AttachKeeps ==
    ASSUME IInv, NEW d \in Dispatchers, NEW c \in Callbacks, Attach(d, c)
    PROVE  (BackPointers /\ NoDangling /\ OneNode)'
<1> USE DEF IInv
<1> DEFINE s == m_subscribers[d]
<1>1. /\ <<c>> \o s \in Seq(Callbacks)
      /\ Len(<<c>> \o s) = Len(s) + 1
      /\ \A i \in 1 .. Len(s) + 1 : (<<c>> \o s)[i] = IF i = 1 THEN c ELSE s[i - 1]
      /\ Range(<<c>> \o s) = Listed(d) \union {c}
  BY ListedAt, PushFront DEF Listed
<1>2. /\ m_subscribers'[d] = <<c>> \o s /\ Listed(d)' = Listed(d) \union {c}
      /\ \A e \in Dispatchers \ {d} :
            m_subscribers'[e] = m_subscribers[e] /\ Listed(e)' = Listed(e)
  BY <1>1, OtherLists DEF Attach
<1>3. /\ m_dispatcher'[c] = d
      /\ \A b \in Callbacks \ {c} : m_dispatcher'[b] = m_dispatcher[b]
      /\ disp' = disp /\ cbs' = cbs /\ d \in disp /\ c \in cbs
  BY DEF Attach, TypeOK
<1>4. /\ reattached \subseteq reattached'
      /\ c \notin reattached' => \A e \in Dispatchers : c \notin Listed(e)
  BY DEF Attach
<1>5. BackPointers'
  BY <1>2, <1>3 DEF BackPointers
<1>6. NoDangling'
  BY <1>2, <1>3, <1>4 DEF NoDangling
<1>7. ASSUME NEW b \in Callbacks \ reattached', NEW e \in Dispatchers,
             NEW i \in 1 .. Len(m_subscribers'[e]), m_subscribers'[e][i] = b,
             NEW j \in 1 .. Len(m_subscribers'[e]), m_subscribers'[e][j] = b
      PROVE  m_dispatcher'[b] = e /\ j = i
  <2>1. CASE e # d
    <3>1. m_subscribers'[e] = m_subscribers[e] /\ b \in Listed(e)
      BY <1>2, <1>7, <2>1, ListedAt
    <3>2. b # c
      BY <1>4, <3>1
    <3> QED
      BY <1>3, <1>4, <1>7, <3>1, <3>2 DEF OneNode
  <2>2. CASE e = d /\ b = c
    <3>1. c \notin Listed(d)
      BY <1>4, <2>2
    <3>2. ASSUME NEW k \in 1 .. Len(s) + 1, (<<c>> \o s)[k] = c, k # 1 PROVE FALSE
      <4>1. k - 1 \in 1 .. Len(s) /\ s[k - 1] = c
        BY <1>1, <3>2, ListedAt
      <4> QED
        BY <4>1, <3>1, ListedAt
    <3> QED
      BY <1>1, <1>2, <1>3, <1>7, <2>2, <3>2
  <2>3. CASE e = d /\ b # c
    <3>1. ASSUME NEW k \in 1 .. Len(s) + 1, (<<c>> \o s)[k] = b
          PROVE  k - 1 \in 1 .. Len(s) /\ s[k - 1] = b
      BY <1>1, <2>3, <3>1, ListedAt
    <3>2. /\ i - 1 \in 1 .. Len(s) /\ s[i - 1] = b
          /\ j - 1 \in 1 .. Len(s) /\ s[j - 1] = b
      BY <1>1, <1>2, <1>7, <2>3, <3>1
    <3>3. m_dispatcher[b] = d /\ j - 1 = i - 1
      BY <1>4, <1>7, <3>2 DEF OneNode
    <3> QED
      BY <1>1, <1>2, <1>3, <1>7, <2>3, <3>3, ListedAt
  <2> QED
    BY <2>1, <2>2, <2>3
<1>8. OneNode'
  BY <1>7 DEF OneNode
<1> QED
  BY <1>5, <1>6, <1>8

(***************************************************************************)
(* Erasing the first node of a callback keeps the invariant, and a callback *)
(* that was never attached while listed is then in no list.                *)
(***************************************************************************)
LEMMA EraseKeeps ==
    ASSUME IInv, NEW d \in Dispatchers, NEW c \in Callbacks, Erase(d, c),
           disp' = disp, reattached' = reattached, cbs \ {c} \subseteq cbs',
           c \in cbs' \/ m_dispatcher[c] = d
    PROVE  (BackPointers /\ NoDangling /\ OneNode)'
<1> USE DEF IInv
<1>1. CASE c \notin Listed(d) /\ UNCHANGED lists
  <2>1. c \in cbs'
    BY <1>1, ObserverAssumption DEF BackPointers, TypeOK
  <2>2. /\ UNCHANGED <<m_subscribers, m_dispatcher>>
        /\ \A e \in Dispatchers : Listed(e)' = Listed(e)
    BY <1>1 DEF lists, Listed
  <2>3. cbs \subseteq cbs'
    BY <2>1
  <2> QED
    BY <2>2, <2>3, SameLists
<1>2. ASSUME NEW n \in DOMAIN m_subscribers[d], m_subscribers[d][n] = c, EraseAt(d, n)
      PROVE  (BackPointers /\ NoDangling /\ OneNode)'
  <2> DEFINE s == m_subscribers[d]
             r == RemoveAt(s, n)
  <2>1. n \in 1 .. Len(s) /\ Len(s) \in Nat /\ s \in Seq(Callbacks) /\ s[n] = c
    BY <1>2, ListedAt
  <2>2. /\ Len(r) = Len(s) - 1
        /\ \A j \in 1 .. Len(s) - 1 : r[j] = IF j < n THEN s[j] ELSE s[j + 1]
        /\ Range(r) \subseteq Listed(d) /\ Listed(d) \subseteq Range(r) \union {c}
    BY <2>1, EraseNode DEF Listed
  <2>3. /\ m_subscribers'[d] = r /\ Listed(d)' = Range(r)
        /\ \A e \in Dispatchers \ {d} :
              m_subscribers'[e] = m_subscribers[e] /\ Listed(e)' = Listed(e)
    BY <1>2, OtherLists DEF EraseAt
  <2>4. /\ m_dispatcher'[c] = NoDispatcher
        /\ \A b \in Callbacks \ {c} : m_dispatcher'[b] = m_dispatcher[b]
    BY <1>2 DEF EraseAt, TypeOK
  <2> HIDE DEF s, r
  <2>5. ASSUME NEW k \in 1 .. Len(r)
        PROVE  \E m \in 1 .. Len(s) : m # n /\ r[k] = s[m] /\ k = IF m < n THEN m ELSE m - 1
    <3>1. CASE k < n
      BY <2>1, <2>2, <3>1
    <3>2. CASE k >= n
      <4>1. k + 1 \in 1 .. Len(s) /\ k + 1 # n /\ r[k] = s[k + 1] /\ k = (k + 1) - 1 /\ ~(k + 1 < n)
        BY <2>1, <2>2, <3>2
      <4> QED
        BY <4>1
    <3> QED
      BY <2>1, <3>1, <3>2
  <2>6. OneNode'
    <3>1. ASSUME NEW b \in Callbacks \ reattached', NEW e \in Dispatchers,
                 NEW i \in 1 .. Len(m_subscribers'[e]), m_subscribers'[e][i] = b,
                 NEW j \in 1 .. Len(m_subscribers'[e]), m_subscribers'[e][j] = b
          PROVE  m_dispatcher'[b] = e /\ j = i
      <4>1. c \notin reattached => m_dispatcher[c] = d
        BY <2>1 DEF OneNode, s
      <4>2. CASE e # d
        <5>1. m_subscribers'[e] = m_subscribers[e]
          BY <2>3, <4>2
        <5>2. m_dispatcher[b] = e /\ j = i
          BY <3>1, <5>1 DEF OneNode
        <5> QED
          BY <2>4, <4>1, <4>2, <5>2
      <4>3. CASE e = d
        <5>1. PICK m \in 1 .. Len(s) : m # n /\ b = s[m] /\ i = IF m < n THEN m ELSE m - 1
          BY <2>3, <2>5, <3>1, <4>3
        <5>2. PICK l \in 1 .. Len(s) : l # n /\ b = s[l] /\ j = IF l < n THEN l ELSE l - 1
          BY <2>3, <2>5, <3>1, <4>3
        <5>3. b \in Callbacks \ reattached
          BY <3>1
        <5>4. m_dispatcher[b] = d /\ \A k \in 1 .. Len(s) : s[k] = b => k = m
          BY <5>1, <5>3 DEF OneNode, s
        <5>5. l = m /\ b # c
          BY <2>1, <5>1, <5>2, <5>4
        <5> QED
          BY <2>4, <4>3, <5>1, <5>2, <5>4, <5>5
      <4> QED
        BY <4>2, <4>3
    <3> QED
      BY <3>1 DEF OneNode
  <2>7. BackPointers'
    BY <2>2, <2>3, <2>4, ObserverAssumption DEF BackPointers
  <2>8. c \notin reattached => \A e \in Dispatchers : c \notin Listed(e)'
    <3>1. ASSUME c \notin reattached, NEW e \in Dispatchers, c \in Listed(e)' PROVE FALSE
      <4>1. CASE e = d
        <5>1. PICK k \in 1 .. Len(r) : r[k] = c
          <6>1. r \in Seq(Callbacks)
            BY <2>1, EraseNode DEF r
          <6> QED
            BY <2>3, <3>1, <4>1, <6>1, RangeEquality
        <5>2. PICK m \in 1 .. Len(s) : m # n /\ s[m] = c
          BY <2>5, <5>1
        <5> QED
          BY <2>1, <3>1, <5>2 DEF OneNode, s
      <4>2. CASE e # d
        <5>1. PICK k \in 1 .. Len(m_subscribers[e]) : m_subscribers[e][k] = c
          BY <2>3, <3>1, <4>2, ListedAt
        <5> QED
          BY <2>1, <3>1, <4>2, <5>1 DEF OneNode, s
      <4> QED
        BY <4>1, <4>2
    <3> QED
      BY <3>1
  <2>9. NoDangling'
    BY <2>2, <2>3, <2>8 DEF NoDangling
  <2> QED
    BY <2>6, <2>7, <2>9
<1> QED
  BY <1>1, <1>2 DEF Erase

(***************************************************************************)
(* Every step keeps the invariant.                                         *)
(***************************************************************************)
LEMMA InvariantStep == IInv /\ [Next]_vars => IInv'
<1> SUFFICES ASSUME IInv, [Next]_vars PROVE IInv'
  OBVIOUS
<1> USE DEF IInv
<1>1. ASSUME UNCHANGED <<m_subscribers, m_dispatcher, reattached>>,
             disp \subseteq disp', cbs \subseteq cbs'
      PROVE  (BackPointers /\ NoDangling /\ OneNode)'
  BY <1>1, SameLists
<1>2. ASSUME NEW c \in Callbacks, DestroyCallback(c)
      PROVE  (BackPointers /\ NoDangling /\ OneNode)'
  <2>1. disp' = disp /\ reattached' = reattached /\ cbs' = cbs \ {c}
    BY <1>2 DEF DestroyCallback
  <2>2. CASE m_dispatcher[c] = NoDispatcher /\ UNCHANGED lists
    <3>1. /\ UNCHANGED <<m_subscribers, m_dispatcher>>
          /\ \A d \in Dispatchers : Listed(d)' = Listed(d)
      BY <2>2 DEF lists, Listed
    <3>2. c \notin reattached => \A d \in Dispatchers : c \notin Listed(d)
      BY <2>2, ListedAt, ObserverAssumption DEF OneNode
    <3>3. BackPointers'
      BY <2>1, <2>2, <3>1, ObserverAssumption DEF BackPointers
    <3>4. NoDangling'
      BY <2>1, <3>1, <3>2 DEF NoDangling
    <3>5. OneNode'
      BY <2>1, <3>1 DEF OneNode
    <3> QED
      BY <3>3, <3>4, <3>5
  <2>3. CASE m_dispatcher[c] # NoDispatcher /\ Erase(m_dispatcher[c], c)
    <3>1. m_dispatcher[c] \in Dispatchers
      BY <2>3 DEF TypeOK
    <3> QED
      BY <2>1, <2>3, <3>1, EraseKeeps
  <2> QED
    BY <1>2, <2>2, <2>3 DEF DestroyCallback
<1>3. ASSUME NEW d \in Dispatchers, DestroyDispatcher(d)
      PROVE  (BackPointers /\ NoDangling /\ OneNode)'
  <2>1. /\ m_subscribers'[d] = <<>> /\ Listed(d)' = Range(<<>>)
        /\ \A e \in Dispatchers \ {d} :
              m_subscribers'[e] = m_subscribers[e] /\ Listed(e)' = Listed(e)
    BY <1>3, OtherLists DEF DestroyDispatcher
  <2>2. Listed(d)' = {} /\ Len(m_subscribers'[d]) = 0
    BY <2>1, NothingListed
  <2>3. /\ disp' = disp \ {d} /\ cbs' = cbs /\ reattached' = reattached
        /\ \A c \in Callbacks : m_dispatcher'[c] =
              IF c \in Listed(d) THEN NoDispatcher ELSE m_dispatcher[c]
    BY <1>3 DEF DestroyDispatcher
  <2>4. BackPointers'
    BY <2>1, <2>3, ObserverAssumption DEF BackPointers
  <2>5. NoDangling'
    BY <2>1, <2>2, <2>3 DEF NoDangling
  <2>6. ASSUME NEW c \in Callbacks \ reattached', NEW e \in Dispatchers,
               NEW i \in 1 .. Len(m_subscribers'[e]), m_subscribers'[e][i] = c,
               NEW j \in 1 .. Len(m_subscribers'[e]), m_subscribers'[e][j] = c
        PROVE  m_dispatcher'[c] = e /\ j = i
    <3>1. e # d
      BY <2>2, <2>6
    <3>2. m_dispatcher[c] = e /\ j = i
      BY <2>1, <2>3, <2>6, <3>1 DEF OneNode
    <3>3. c \notin Listed(d)
      BY <2>3, <2>6, <3>1, <3>2, ListedAt DEF OneNode
    <3> QED
      BY <2>3, <3>2, <3>3
  <2> QED
    BY <2>4, <2>5, <2>6 DEF OneNode
<1>4. ASSUME NEW d \in Dispatchers, NEW c \in Callbacks, Detach(d, c)
      PROVE  (BackPointers /\ NoDangling /\ OneNode)'
  BY <1>4, EraseKeeps DEF Detach
<1> QED
  BY <1>1, <1>2, <1>3, <1>4, TypeStep, AttachKeeps
     DEF Next, NewDispatcher, NewCallback, NotifyAll, Step, StepFreed, lists, vars

(***************************************************************************)
(* The invariant holds at the start.                                       *)
(***************************************************************************)
LEMMA InvariantInit == Init => IInv
<1> SUFFICES ASSUME Init PROVE IInv
  OBVIOUS
<1> USE DEF Init
<1>1. TypeOK
  BY EmptySeq DEF TypeOK, NoLoop
<1>2. \A d \in Dispatchers : Len(m_subscribers[d]) = 0 /\ Listed(d) = {}
  BY NothingListed DEF Listed
<1> QED
  BY <1>1, <1>2, ObserverAssumption DEF IInv, BackPointers, NoDangling, OneNode

(***************************************************************************)
(* A callback's dispatcher exists and lists it, whatever was attached,     *)
(* detached and destroyed before, also from inside NotifyAll.              *)
(***************************************************************************)
THEOREM BackPointersHold == Spec => []BackPointers
<1>1. IInv => BackPointers
  BY DEF IInv
<1> QED
  BY <1>1, InvariantInit, InvariantStep, PTL DEF Spec

(***************************************************************************)
(* Only a callback that was attached while it was listed can be destroyed  *)
(* and still be listed.                                                    *)
(***************************************************************************)
THEOREM NothingDangles == Spec => []NoDangling
<1>1. IInv => NoDangling
  BY DEF IInv
<1> QED
  BY <1>1, InvariantInit, InvariantStep, PTL DEF Spec

(***************************************************************************)
(* A callback that was never attached while listed is at one position.     *)
(***************************************************************************)
LEMMA OnePosition ==
    ASSUME IInv, reattached = {}, NEW d \in Dispatchers,
           NEW i \in 1 .. Len(m_subscribers[d]), NEW j \in 1 .. Len(m_subscribers[d]),
           m_subscribers[d][i] = m_subscribers[d][j]
    PROVE  i = j
<1>1. m_subscribers[d][i] \in Callbacks
  BY ElementOfSeq DEF IInv, TypeOK
<1> QED
  BY <1>1 DEF IInv, OneNode

(***************************************************************************)
(* A step of a loop pays what it owes to the node it comes to.             *)
(***************************************************************************)
LEMMA VisitPays ==
    ASSUME IInv, reattached = {}, NEW d \in Dispatchers, NEW i \in Nat \ {0},
           Visit(d, i, {m_subscribers[d][j] : j \in i .. Len(m_subscribers[d])}),
           m_subscribers' = m_subscribers
    PROVE  /\ owed'[d] = {m_subscribers'[d][j] : j \in Behind(d)'}
           /\ \A e \in Dispatchers \ {d} : cursor'[e] = cursor[e] /\ owed'[e] = owed[e]
<1> DEFINE s == m_subscribers[d]
           left == {s[j] : j \in i .. Len(s)}
<1>1. Len(s) \in Nat /\ DOMAIN s = 1 .. Len(s)
  BY ListedAt DEF IInv
<1>2. CASE i > Len(s) /\ cursor' = [cursor EXCEPT ![d] = NoLoop] /\ owed' = [owed EXCEPT ![d] = left]
  <2>1. left = {}
    BY <1>1, <1>2
  <2>2. cursor'[d] = NoLoop /\ owed'[d] = {}
    BY <1>2, <2>1 DEF IInv, TypeOK
  <2> QED
    BY <1>2, <2>2 DEF Behind, IInv, TypeOK
<1>3. CASE /\ i \in DOMAIN s
           /\ cursor' = [cursor EXCEPT ![d] = i]
           /\ owed' = [owed EXCEPT ![d] = left \ {s[i]}]
  <2>1. \A j \in (i + 1) .. Len(s) : s[j] # s[i]
    BY <1>1, <1>3, OnePosition
  <2>2. left \ {s[i]} = {s[j] : j \in (i + 1) .. Len(s)}
    BY <1>1, <1>3, <2>1
  <2>3. /\ cursor'[d] = i /\ owed'[d] = left \ {s[i]} /\ m_subscribers'[d] = s
        /\ \A e \in Dispatchers \ {d} : cursor'[e] = cursor[e] /\ owed'[e] = owed[e]
    BY <1>3 DEF IInv, TypeOK
  <2>4. Behind(d)' = (i + 1) .. Len(s)
    BY <2>3 DEF Behind, NoLoop
  <2> HIDE DEF s, left
  <2> QED
    BY <2>2, <2>3, <2>4
<1> QED
  BY <1>2, <1>3 DEF Visit

(***************************************************************************)
(* What was undefined stays so, and who was attached twice is remembered.  *)
(***************************************************************************)
LEMMA HistoryGrows ==
    ASSUME TypeOK, [Next]_vars
    PROVE  (undefined => undefined') /\ reattached \subseteq reattached'
<1>1. reattached \subseteq reattached'
  <2>1. ASSUME NEW d \in Dispatchers, NEW c \in Callbacks, Attach(d, c)
        PROVE  reattached \subseteq reattached'
    BY <2>1 DEF Attach
  <2> QED
    BY <2>1 DEF Next, NewDispatcher, NewCallback, Detach, DestroyCallback, DestroyDispatcher,
                NotifyAll, Step, StepFreed, vars
<1>2. ASSUME undefined PROVE undefined'
  <2>1. ASSUME NEW d \in Dispatchers, NEW i, NEW left, Visit(d, i, left) PROVE undefined'
    BY <1>2, <2>1, Zenon DEF Visit
  <2>2. ASSUME NEW c \in Callbacks, DestroyCallback(c) PROVE undefined'
    BY <1>2, <2>2, Zenon DEF DestroyCallback
  <2>3. ASSUME NEW d \in Dispatchers, DestroyDispatcher(d) PROVE undefined'
    BY <1>2, <2>3, Zenon DEF DestroyDispatcher
  <2>4. ASSUME NEW d \in Dispatchers, NotifyAll(d) \/ Step(d) \/ StepFreed(d) PROVE undefined'
    BY <2>1, <2>4, Zenon DEF NotifyAll, Step, StepFreed
  <2>5. ASSUME NEW d \in Dispatchers, NEW c \in Callbacks, Attach(d, c) \/ Detach(d, c)
        PROVE  undefined'
    BY <1>2, <2>5, Zenon DEF Attach, Detach
  <2>6. ASSUME NEW d \in Dispatchers, NewDispatcher(d) PROVE undefined'
    BY <1>2, <2>6, Zenon DEF NewDispatcher
  <2>7. ASSUME NEW c \in Callbacks, NewCallback(c) PROVE undefined'
    BY <1>2, <2>7, Zenon DEF NewCallback
  <2>8. CASE UNCHANGED vars
    BY <1>2, <2>8, Zenon DEF vars
  <2> QED
    BY <2>2, <2>3, <2>4, <2>5, <2>6, <2>7, <2>8, Zenon DEF Next
<1> QED
  BY <1>1, <1>2

(***************************************************************************)
(* Every step keeps EveryoneOnce.                                          *)
(***************************************************************************)
LEMMA OnceStep == IInv /\ EveryoneOnce /\ [Next]_vars => EveryoneOnce'
<1> SUFFICES ASSUME IInv, EveryoneOnce, [Next]_vars, ~undefined', reattached' = {},
                    NEW d \in Dispatchers, cursor'[d] # Freed
             PROVE  owed'[d] = {m_subscribers'[d][i] : i \in Behind(d)'}
  BY DEF EveryoneOnce
<1>1. ~undefined /\ reattached = {}
  <2>1. (undefined => undefined') /\ reattached \subseteq reattached'
    BY HistoryGrows DEF IInv
  <2>2. ~undefined
    BY <2>1, Zenon
  <2> QED
    BY <2>1, <2>2
<1>2. cursor[d] # Freed => owed[d] = {m_subscribers[d][i] : i \in Behind(d)}
  BY <1>1 DEF EveryoneOnce
<1> DEFINE s == m_subscribers[d]
<1>3. /\ s \in Seq(Callbacks) /\ Len(s) \in Nat
      /\ DOMAIN s = 1 .. Len(s) /\ Listed(d) = {s[i] : i \in 1 .. Len(s)}
      /\ cursor[d] \in Nat \union {Freed}
  BY ListedAt DEF IInv, TypeOK
<1>4. CASE cursor'[d] = cursor[d] /\ owed'[d] = owed[d] /\ m_subscribers'[d] = m_subscribers[d]
  BY <1>2, <1>4 DEF Behind
<1>5. ASSUME NEW c \in Callbacks, Attach(d, c) PROVE owed'[d] = {m_subscribers'[d][i] : i \in Behind(d)'}
  <2>1. /\ Len(<<c>> \o s) = Len(s) + 1
        /\ \A i \in 1 .. Len(s) + 1 : (<<c>> \o s)[i] = IF i = 1 THEN c ELSE s[i - 1]
    BY <1>3, PushFront
  <2>2. /\ m_subscribers'[d] = <<c>> \o s /\ owed'[d] = owed[d]
        /\ cursor'[d] = IF cursor[d] > 0 THEN cursor[d] + 1 ELSE cursor[d]
    BY <1>5 DEF Attach, IInv, TypeOK
  <2>3. CASE cursor[d] = NoLoop
    BY <1>2, <2>2, <2>3 DEF Behind, NoLoop, Freed
  <2>4. CASE cursor[d] \in Nat \ {0}
    <3>1. Behind(d)' = (cursor[d] + 2) .. (Len(s) + 1) /\ Behind(d) = (cursor[d] + 1) .. Len(s)
      BY <2>1, <2>2, <2>4 DEF Behind, NoLoop
    <3>2. \A i \in Behind(d)' : i - 1 \in Behind(d) /\ (<<c>> \o s)[i] = s[i - 1]
      BY <1>3, <2>1, <2>4, <3>1
    <3>3. \A i \in Behind(d) : i + 1 \in Behind(d)' /\ (<<c>> \o s)[i + 1] = s[i]
      BY <1>3, <2>1, <2>4, <3>1
    <3>4. cursor[d] # Freed
      BY <2>4 DEF Freed
    <3>5. /\ owed'[d] = {s[i] : i \in Behind(d)}
          /\ m_subscribers'[d] = <<c>> \o s
      BY <1>2, <2>2, <3>4
    <3> DEFINE t == <<c>> \o s
               before == Behind(d)
               after == Behind(d)'
    <3>6. /\ \A i \in after : i - 1 \in before /\ t[i] = s[i - 1]
          /\ \A i \in before : i + 1 \in after /\ t[i + 1] = s[i]
      BY <3>2, <3>3
    <3>7. owed'[d] = {s[i] : i \in before} /\ m_subscribers'[d] = t
      BY <3>5
    <3> HIDE DEF s, t, before, after
    <3>8. {s[i] : i \in before} = {t[i] : i \in after}
      BY <3>6
    <3> QED
      BY <3>7, <3>8 DEF after
  <2>5. cursor[d] # Freed
    BY <2>2 DEF Freed
  <2> QED
    BY <1>3, <2>3, <2>4, <2>5 DEF NoLoop
<1>6. ASSUME NEW n \in DOMAIN s, EraseAt(d, n)
      PROVE  owed'[d] = {m_subscribers'[d][i] : i \in Behind(d)'}
  <2> DEFINE r == RemoveAt(s, n)
  <2>0. n \in 1 .. Len(s)
    BY <1>3
  <2>1. /\ n \in 1 .. Len(s)
        /\ Len(r) = Len(s) - 1
        /\ \A j \in 1 .. Len(s) - 1 : r[j] = IF j < n THEN s[j] ELSE s[j + 1]
    <3> HIDE DEF s
    <3> QED
      BY <1>3, <2>0, EraseNode
  <2>2. /\ m_subscribers'[d] = r /\ owed'[d] = owed[d] \ {s[n]}
        /\ cursor'[d] = Shift(cursor[d], n)
    BY <1>6 DEF EraseAt, IInv, TypeOK
  <2>3. cursor[d] \in Nat /\ cursor[d] # n
    BY <1>3, <2>1, <2>2 DEF Shift, Freed
  <2>4. \A j \in 1 .. Len(s) : s[j] = s[n] => j = n
    BY <1>1, <2>1, OnePosition
  <2>5. owed[d] = {s[i] : i \in Behind(d)}
    BY <1>2, <2>3 DEF Freed
  <2>9. /\ Behind(d) = IF cursor[d] = NoLoop THEN {} ELSE (cursor[d] + 1) .. Len(s)
        /\ Behind(d)' = IF cursor'[d] = NoLoop THEN {} ELSE (cursor'[d] + 1) .. (Len(s) - 1)
    BY <2>1, <2>2 DEF Behind
  <2> HIDE DEF s, r
  <2>6. CASE cursor[d] = NoLoop
    <3>1. cursor'[d] = NoLoop
      BY <2>1, <2>2, <2>6 DEF Shift, NoLoop
    <3> QED
      BY <2>2, <2>5, <2>6, <3>1 DEF Behind
  <2>7. CASE cursor[d] # NoLoop /\ cursor[d] < n
    <3>1. Behind(d)' = (cursor[d] + 1) .. (Len(s) - 1) /\ Behind(d) = (cursor[d] + 1) .. Len(s)
      <4>1. cursor'[d] = cursor[d]
        BY <2>1, <2>2, <2>3, <2>7 DEF Shift
      <4> QED
        BY <2>7, <2>9, <4>1
    <3>2. \A i \in Behind(d)' : \E j \in Behind(d) : j # n /\ r[i] = s[j]
      <4>1. ASSUME NEW i \in Behind(d)', i < n PROVE i \in Behind(d) /\ i # n /\ r[i] = s[i]
        BY <2>1, <2>3, <3>1, <4>1
      <4>2. ASSUME NEW i \in Behind(d)', ~(i < n)
            PROVE  i + 1 \in Behind(d) /\ i + 1 # n /\ r[i] = s[i + 1]
        BY <1>3, <2>1, <2>3, <3>1, <4>2
      <4> QED
        BY <4>1, <4>2
    <3>3. \A j \in Behind(d) : j # n => \E i \in Behind(d)' : r[i] = s[j]
      <4>1. ASSUME NEW j \in Behind(d), j < n PROVE j \in Behind(d)' /\ r[j] = s[j]
        BY <1>3, <2>1, <2>3, <3>1, <4>1
      <4>2. ASSUME NEW j \in Behind(d), j > n PROVE j - 1 \in Behind(d)' /\ r[j - 1] = s[j]
        BY <1>3, <2>1, <2>3, <2>7, <3>1, <4>2
      <4> QED
        BY <2>1, <3>1, <4>1, <4>2
    <3>4. Behind(d) \subseteq 1 .. Len(s)
      BY <2>3, <3>1
    <3> QED
      BY <2>2, <2>4, <2>5, <3>2, <3>3, <3>4
  <2>8. CASE cursor[d] > n
    <3>1. Behind(d)' = cursor[d] .. (Len(s) - 1) /\ Behind(d) = (cursor[d] + 1) .. Len(s)
      <4>1. cursor'[d] = cursor[d] - 1 /\ cursor[d] # NoLoop /\ cursor'[d] # NoLoop
        BY <2>1, <2>2, <2>3, <2>8 DEF Shift, NoLoop
      <4>2. cursor'[d] + 1 = cursor[d]
        BY <2>3, <4>1
      <4> QED
        BY <2>9, <4>1, <4>2
    <3>2. \A i \in Behind(d)' : i + 1 \in Behind(d) /\ r[i] = s[i + 1]
      BY <1>3, <2>1, <2>3, <2>8, <3>1
    <3>3. \A j \in Behind(d) : j - 1 \in Behind(d)' /\ r[j - 1] = s[j]
      BY <1>3, <2>1, <2>3, <2>8, <3>1
    <3>4. \A j \in Behind(d) : s[j] # s[n]
      BY <2>1, <2>3, <2>4, <2>8, <3>1
    <3> QED
      BY <2>2, <2>5, <3>2, <3>3, <3>4
  <2> QED
    BY <2>1, <2>3, <2>6, <2>7, <2>8
<1>7. ASSUME NEW e \in Dispatchers, NEW c \in Callbacks, Erase(e, c)
      PROVE  owed'[d] = {m_subscribers'[d][i] : i \in Behind(d)'}
  <2>1. CASE UNCHANGED lists
    BY <1>4, <2>1 DEF lists
  <2>2. ASSUME NEW n \in DOMAIN m_subscribers[e], EraseAt(e, n)
        PROVE  owed'[d] = {m_subscribers'[d][i] : i \in Behind(d)'}
    <3>1. CASE e = d
      BY <1>6, <2>2, <3>1
    <3>2. CASE e # d
      BY <1>4, <2>2, <3>2 DEF EraseAt, IInv, TypeOK
    <3> QED
      BY <3>1, <3>2
  <2> QED
    BY <1>7, <2>1, <2>2 DEF Erase
<1>8. ASSUME NEW e \in Dispatchers, DestroyDispatcher(e)
      PROVE  owed'[d] = {m_subscribers'[d][i] : i \in Behind(d)'}
  <2>1. CASE e = d
    <3>1. cursor'[d] = NoLoop /\ owed'[d] = {}
      BY <1>8, <2>1 DEF DestroyDispatcher, NoLoop, Freed, IInv, TypeOK
    <3> QED
      BY <3>1 DEF Behind
  <2>2. CASE e # d
    BY <1>4, <1>8, <2>2 DEF DestroyDispatcher, IInv, TypeOK
  <2> QED
    BY <2>1, <2>2
<1>9. ASSUME NEW e \in Dispatchers, NotifyAll(e) \/ Step(e)
      PROVE  owed'[d] = {m_subscribers'[d][i] : i \in Behind(d)'}
  <2>1. m_subscribers' = m_subscribers
    BY <1>9 DEF NotifyAll, Step
  <2> DEFINE P(i) == Visit(e, i, {m_subscribers[e][j] : j \in i .. Len(m_subscribers[e])})
  <2>2. PICK i \in Nat \ {0} : P(i)
    <3>1. CASE NotifyAll(e)
      <4>1. Listed(e) = {m_subscribers[e][j] : j \in 1 .. Len(m_subscribers[e])}
        BY ListedAt DEF IInv
      <4>2. P(1)
        BY <3>1, <4>1 DEF NotifyAll
      <4> HIDE DEF P
      <4> QED
        BY <4>2
    <3>2. CASE Step(e)
      <4>1. /\ cursor[e] > 0 /\ cursor[e] \in Nat
            /\ Visit(e, cursor[e] + 1, owed[e])
        BY <3>2 DEF Step, IInv, TypeOK, Freed
      <4>2. owed[e] = {m_subscribers[e][j] : j \in Behind(e)}
        BY <1>1, <4>1 DEF EveryoneOnce, Freed
      <4>3. Behind(e) = (cursor[e] + 1) .. Len(m_subscribers[e])
        BY <4>1 DEF Behind, NoLoop
      <4>4. P(cursor[e] + 1)
        BY <4>1, <4>2, <4>3
      <4>5. cursor[e] + 1 \in Nat \ {0}
        BY <4>1
      <4> HIDE DEF P
      <4> QED
        BY <4>4, <4>5
    <3> QED
      BY <1>9, <3>1, <3>2
  <2>3. /\ owed'[e] = {m_subscribers'[e][j] : j \in Behind(e)'}
        /\ \A f \in Dispatchers \ {e} : cursor'[f] = cursor[f] /\ owed'[f] = owed[f]
    BY <1>1, <2>1, <2>2, VisitPays
  <2>4. CASE e = d
    BY <2>3, <2>4
  <2>5. CASE e # d
    BY <1>4, <2>1, <2>3, <2>5
  <2> QED
    BY <2>4, <2>5
<1>10. ASSUME NEW e \in Dispatchers, NEW c \in Callbacks, Attach(e, c)
       PROVE  owed'[d] = {m_subscribers'[d][i] : i \in Behind(d)'}
  <2>1. CASE e = d
    BY <1>5, <1>10, <2>1
  <2>2. CASE e # d
    BY <1>4, <1>10, <2>2 DEF Attach, IInv, TypeOK
  <2> QED
    BY <2>1, <2>2
<1>11. ASSUME NEW c \in Callbacks, DestroyCallback(c)
       PROVE  owed'[d] = {m_subscribers'[d][i] : i \in Behind(d)'}
  <2>1. CASE UNCHANGED lists
    BY <1>4, <2>1 DEF lists
  <2>2. CASE m_dispatcher[c] # NoDispatcher /\ Erase(m_dispatcher[c], c)
    BY <1>7, <2>2 DEF IInv, TypeOK
  <2> QED
    BY <1>11, <2>1, <2>2 DEF DestroyCallback, lists
<1>12. CASE UNCHANGED lists
  BY <1>4, <1>12 DEF lists
<1> QED
  BY <1>7, <1>8, <1>9, <1>10, <1>11, <1>12
     DEF Next, NewDispatcher, NewCallback, Detach, StepFreed, vars

(***************************************************************************)
(* NotifyAll tells everyone who was there when it began and still is, and  *)
(* tells nobody twice, whatever the callbacks attach, detach and destroy   *)
(* from inside it, as long as none is attached while it is listed and the  *)
(* node under the loop stays.                                              *)
(***************************************************************************)
THEOREM EveryoneIsToldOnce == Spec => []EveryoneOnce
<1>1. Init => EveryoneOnce
  BY DEF Init, EveryoneOnce, Behind
<1> QED
  BY <1>1, InvariantInit, InvariantStep, OnceStep, PTL DEF Spec
================================================================================
