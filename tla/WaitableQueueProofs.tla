-------------------------- MODULE WaitableQueueProofs --------------------------
(***************************************************************************)
(* Theorems about WaitableQueue for any items, threads and comparator.     *)
(***************************************************************************)
EXTENDS WaitableQueue, FiniteSetTheorems, TLAPS

(***************************************************************************)
(* The variables keep their types: the queue holds items, and every        *)
(* consumer is at one of the places of Dequeue.                            *)
(***************************************************************************)
THEOREM TypeCorrect == Spec => []TypeOK
<1>1. Init => TypeOK
  BY DEF Init, TypeOK, CallerStates
<1>2. TypeOK /\ [Next]_vars => TypeOK'
  <2> SUFFICES ASSUME TypeOK, [Next]_vars PROVE TypeOK'
    OBVIOUS
  <2> USE DEF TypeOK, CallerStates
  <2>1. ASSUME NEW x \in Items, Enqueue(x) PROVE TypeOK'
    BY <2>1 DEF Enqueue, NotifyOne, Waiting
  <2>2. ASSUME NEW t \in Threads, Dequeue(t) PROVE TypeOK'
    BY <2>2 DEF Dequeue
  <2>3. ASSUME NEW t \in Threads, NEW x \in Items, Pop(t, x) PROVE TypeOK'
    BY <2>3 DEF Pop
  <2>4. ASSUME NEW t \in Threads, Block(t) PROVE TypeOK'
    BY <2>4 DEF Block
  <2>5. ASSUME NEW t \in Threads, WakeUp(t) PROVE TypeOK'
    BY <2>5 DEF WakeUp
  <2>6. ASSUME NEW t \in Threads, TimeOut(t) PROVE TypeOK'
    BY <2>6 DEF TimeOut
  <2>7. CASE UNCHANGED vars
    BY <2>7 DEF vars
  <2> QED
    BY <2>1, <2>2, <2>3, <2>4, <2>5, <2>6, <2>7 DEF Next, CheckQueue
<1> QED
  BY <1>1, <1>2, PTL DEF Spec

--------------------------------------------------------------------------------

(***************************************************************************)
(* The two sets that NoLostWakeup counts are finite, and so have a size.   *)
(***************************************************************************)
LEMMA Sizes ==
    ASSUME TypeOK
    PROVE  /\ IsFiniteSet(m_pq) /\ Cardinality(m_pq) \in Nat
           /\ IsFiniteSet(Contending) /\ Cardinality(Contending) \in Nat
<1>1. IsFiniteSet(m_pq)
  BY FS_Subset, QueueAssumption DEF TypeOK
<1>2. IsFiniteSet(Contending)
  BY FS_Subset, QueueAssumption DEF Contending
<1> QED
  BY <1>1, <1>2, FS_CardinalityType

(***************************************************************************)
(* The contenders grow by one thread when a thread joins them, and shrink  *)
(* by one when a thread leaves.                                            *)
(***************************************************************************)
LEMMA Joins ==
    ASSUME TypeOK, NEW t \in Threads \ Contending, NEW s \in {"lock", "woken"},
           caller' = [caller EXCEPT ![t] = s]
    PROVE  /\ Contending' = Contending \union {t}
           /\ Cardinality(Contending') = Cardinality(Contending) + 1
<1>1. Contending' = Contending \union {t}
  BY DEF TypeOK, Contending
<1> QED
  BY <1>1, Sizes, FS_AddElement

LEMMA Leaves ==
    ASSUME TypeOK, NEW t \in Contending, NEW s \in {"out", "wait"},
           caller' = [caller EXCEPT ![t] = s]
    PROVE  /\ Contending' = Contending \ {t}
           /\ Cardinality(Contending') = Cardinality(Contending) - 1
<1>1. Contending' = Contending \ {t}
  BY DEF TypeOK, Contending
<1> QED
  BY <1>1, Sizes, FS_RemoveElement

(***************************************************************************)
(* notify_one loses no item: if no consumer ever gives up, then while one  *)
(* sleeps every queued item has an awake consumer (waitablequeue.hpp:48,   *)
(* 56-61).  The invariant is inductive given the types; what carries it is *)
(* that a consumer goes to sleep only when the queue is empty.             *)
(***************************************************************************)
THEOREM NoWakeupIsLost ==
    ASSUME TimedThreads = {}
    PROVE  Spec => []NoLostWakeup
<1>1. Init => NoLostWakeup
  BY DEF Init, NoLostWakeup, Waiting
<1>2. TypeOK /\ NoLostWakeup /\ [Next]_vars => NoLostWakeup'
  <2> SUFFICES ASSUME TypeOK, NoLostWakeup, [Next]_vars, Waiting' # {}
               PROVE  Cardinality(m_pq') <= Cardinality(Contending')
    BY DEF NoLostWakeup
  <2> USE Sizes
  <2>1. ASSUME NEW x \in Items, Enqueue(x)
        PROVE  Cardinality(m_pq') <= Cardinality(Contending')
    <3>1. Cardinality(m_pq') = Cardinality(m_pq) + 1
      BY <2>1, FS_AddElement DEF Enqueue
    <3>2. PICK t \in Waiting : caller' = [caller EXCEPT ![t] = "woken"]
      BY <2>1 DEF Enqueue, NotifyOne, Waiting
    <3>3. t \in Threads \ Contending
      BY DEF Waiting, Contending
    <3>4. Cardinality(Contending') = Cardinality(Contending) + 1
      BY <3>2, <3>3, Joins
    <3> QED
      BY <3>1, <3>2, <3>4 DEF NoLostWakeup
  <2>2. ASSUME NEW t \in Threads, Dequeue(t)
        PROVE  Cardinality(m_pq') <= Cardinality(Contending')
    <3>1. t \in Threads \ Contending /\ Waiting # {}
      BY <2>2 DEF Dequeue, Contending, Waiting, TypeOK
    <3>2. Cardinality(Contending') = Cardinality(Contending) + 1
      BY <2>2, <3>1, Joins DEF Dequeue
    <3>3. m_pq' = m_pq
      BY <2>2 DEF Dequeue
    <3> QED
      BY <3>1, <3>2, <3>3 DEF NoLostWakeup
  <2>3. ASSUME NEW t \in Threads, NEW x \in Items, Pop(t, x)
        PROVE  Cardinality(m_pq') <= Cardinality(Contending')
    <3>1. Cardinality(m_pq') = Cardinality(m_pq) - 1
      BY <2>3, FS_RemoveElement DEF Pop, Top
    <3>2. Cardinality(Contending') = Cardinality(Contending) - 1
      BY <2>3, Leaves DEF Pop
    <3>3. Waiting # {}
      BY <2>3 DEF Pop, Waiting, TypeOK
    <3> QED
      BY <3>1, <3>2, <3>3 DEF NoLostWakeup
  <2>4. ASSUME NEW t \in Threads, Block(t)
        PROVE  Cardinality(m_pq') <= Cardinality(Contending')
    <3>1. Cardinality(m_pq') = 0
      BY <2>4, FS_EmptySet DEF Block
    <3>2. t \in Contending /\ Cardinality(Contending') = Cardinality(Contending) - 1
      BY <2>4, Leaves DEF Block
    <3>3. Cardinality(Contending) # 0
      BY <3>2, FS_EmptySet
    <3> QED
      BY <3>1, <3>2, <3>3
  <2>5. ASSUME NEW t \in Threads, WakeUp(t)
        PROVE  Cardinality(m_pq') <= Cardinality(Contending')
    <3>1. t \in Threads \ Contending /\ Waiting # {}
      BY <2>5 DEF WakeUp, Contending, Waiting
    <3>2. Cardinality(Contending') = Cardinality(Contending) + 1
      BY <2>5, <3>1, Joins DEF WakeUp
    <3>3. m_pq' = m_pq
      BY <2>5 DEF WakeUp
    <3> QED
      BY <3>1, <3>2, <3>3 DEF NoLostWakeup
  <2>6. ASSUME NEW t \in Threads, TimeOut(t)
        PROVE  FALSE
    BY <2>6 DEF TimeOut
  <2>7. CASE UNCHANGED vars
    BY <2>7 DEF vars, NoLostWakeup, Waiting, Contending
  <2> QED
    BY <2>1, <2>2, <2>3, <2>4, <2>5, <2>6, <2>7 DEF Next, CheckQueue
<1> QED
  BY <1>1, <1>2, TypeCorrect, PTL DEF Spec

--------------------------------------------------------------------------------

(***************************************************************************)
(* Every behaviour of the class is one of the blocking priority buffer, if *)
(* no consumer gives up: Enqueue is a Put, the call of Dequeue an Ask, the *)
(* critical section that finds an item a Give, and blocking and waking are *)
(* not visible.                                                            *)
(***************************************************************************)
THEOREM ImplementsBufferSafety ==
    ASSUME TimedThreads = {}
    PROVE  Spec => Buffer!Spec
<1> DEFINE asked == {t \in Threads : caller[t] # "out"}
<1>1. Init => Buffer!Init
  BY DEF Init, Buffer!Init
<1>2. TypeOK /\ [Next]_vars => [Buffer!Next]_(Buffer!vars)
  <2> SUFFICES ASSUME TypeOK, [Next]_vars PROVE Buffer!Next \/ UNCHANGED Buffer!vars
    OBVIOUS
  <2>1. ASSUME NEW x \in Items, Enqueue(x) PROVE Buffer!Next
    <3>1. asked' = asked
      BY <2>1 DEF Enqueue, NotifyOne, Waiting, TypeOK
    <3> QED
      BY <2>1, <3>1 DEF Enqueue, Buffer!Next, Buffer!Put
  <2>2. ASSUME NEW t \in Threads, Dequeue(t) PROVE Buffer!Next
    <3>1. t \in Threads \ asked /\ asked' = asked \union {t}
      BY <2>2 DEF Dequeue, TypeOK
    <3> QED
      BY <2>2, <3>1 DEF Dequeue, Buffer!Next, Buffer!Ask
  <2>3. ASSUME NEW t \in Threads, NEW x \in Items, Pop(t, x) PROVE Buffer!Next
    <3>1. t \in asked /\ asked' = asked \ {t}
      BY <2>3 DEF Pop, Contending, TypeOK
    <3>2. Buffer!Give(t, x)
      BY <2>3, <3>1 DEF Pop, Top, Buffer!Give
    <3> QED
      BY <3>2 DEF Buffer!Next
  <2>4. ASSUME NEW t \in Threads, Block(t) \/ WakeUp(t)
        PROVE  UNCHANGED Buffer!vars
    <3>1. asked' = asked
      BY <2>4 DEF Block, WakeUp, Contending, TypeOK
    <3> QED
      BY <2>4, <3>1 DEF Block, WakeUp, Buffer!vars
  <2>5. ASSUME NEW t \in Threads, TimeOut(t) PROVE FALSE
    BY <2>5 DEF TimeOut
  <2>6. CASE UNCHANGED vars
    BY <2>6 DEF vars, Buffer!vars
  <2> QED
    BY <2>1, <2>2, <2>3, <2>4, <2>5, <2>6 DEF Next, CheckQueue
<1> QED
  BY <1>1, <1>2, TypeCorrect, PTL DEF Spec, Buffer!Spec
================================================================================
