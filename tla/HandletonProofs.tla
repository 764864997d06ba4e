----------------------------- MODULE HandletonProofs -----------------------------
(***************************************************************************)
(* Theorems about Handleton for any number of threads.                     *)
(***************************************************************************)
EXTENDS Handleton, TLAPS

Creating == {"new", "construct", "atexit", "ready"}

\* The claim is made once, its owner is alone between Claim and Ready, and the
\* pointer is null before it, the owner's object after it, poison in the end.
Inv ==
    /\ TypeOK
    /\ PointerValid
    /\ \A t \in Threads : pc[t] \in Creating => sv_shouldInit /\ ~sv_isReady
    /\ \A t, u \in Threads : pc[t] \in Creating /\ pc[u] \in Creating => t = u
    /\ \A t \in Threads : pc[t] \in {"new", "construct"} => theObject = Null
    /\ \A t \in Threads : pc[t] \in {"atexit", "ready"} => theObject = t
    /\ \A t \in Threads : pc[t] = "return" => sv_isReady
    /\ ~sv_shouldInit => theObject = Null
    /\ sv_isReady => sv_shouldInit /\ theObject # Null
    /\ ~sv_isReady => exit \in {"none", "registered"}
    /\ exit \in {"none", "registered", "poison"} => theObject # DeadBeef
    /\ exit \in {"delete", "end"} => theObject = DeadBeef

LEMMA InvInit == Init => Inv
  BY HandletonAssumption DEF Init, Inv, TypeOK, PointerValid, Creating

LEMMA InvStep == Inv /\ [Next]_vars => Inv'
<1> SUFFICES ASSUME Inv, [Next]_vars PROVE Inv'
  OBVIOUS
<1> USE HandletonAssumption DEF Inv, TypeOK, PointerValid, Creating, Goto
<1>1. ASSUME NEW t \in Threads, GetInstance(t) PROVE Inv'
  BY <1>1 DEF GetInstance
<1>2. ASSUME NEW t \in Threads, Test(t) PROVE Inv'
  BY <1>2 DEF Test
<1>3. ASSUME NEW t \in Threads, Claim(t) PROVE Inv'
  BY <1>3 DEF Claim
<1>4. ASSUME NEW t \in Threads, New(t) PROVE Inv'
  BY <1>4 DEF New
<1>5. ASSUME NEW t \in Threads, Construct(t) PROVE Inv'
  BY <1>5 DEF Construct
<1>6. ASSUME NEW t \in Threads, Throw(t) PROVE Inv'
  BY <1>6 DEF Throw
<1>7. ASSUME NEW t \in Threads, AtExit(t) PROVE Inv'
  BY <1>7 DEF AtExit
<1>8. ASSUME NEW t \in Threads, Ready(t) PROVE Inv'
  BY <1>8 DEF Ready
<1>9. ASSUME NEW t \in Threads, Spin(t) PROVE Inv'
  BY <1>9 DEF Spin
<1>10. ASSUME NEW t \in Threads, Return(t) PROVE Inv'
  BY <1>10 DEF Return
<1>11. CASE DestroyInstance
  BY <1>11 DEF DestroyInstance
<1>12. CASE Poison
  BY <1>12 DEF Poison
<1>13. CASE Delete
  BY <1>13 DEF Delete
<1>14. CASE UNCHANGED vars
  BY <1>14 DEF vars
<1> QED
  BY <1>1, <1>2, <1>3, <1>4, <1>5, <1>6, <1>7, <1>8, <1>9, <1>10, <1>11, <1>12,
     <1>13, <1>14 DEF Next, Steps

(***************************************************************************)
(* The pointer that GetInstance returns never leads to an object that is   *)
(* being built or has been deleted: it is set after the constructor, and   *)
(* overwritten before the delete.                                          *)
(***************************************************************************)
THEOREM PointersAreValid == Spec => []PointerValid
<1>1. Inv => PointerValid
  BY DEF Inv
<1> QED
  BY <1>1, InvInit, InvStep, PTL DEF Spec

(***************************************************************************)
(* Every step of GetInstance and DestroyInstance is one of Once, or is not *)
(* seen by the users: sv_isReady is where the object appears.              *)
(***************************************************************************)
LEMMA StepImplementsOnce == Inv /\ [Next]_vars => [O!Next]_(O!vars)
<1> SUFFICES ASSUME Inv, [Next]_vars PROVE [O!Next]_(O!vars)
  OBVIOUS
<1> USE DEF Inv, Creating, Goto, O!vars
<1>1. ASSUME NEW t \in Threads, GetInstance(t) PROVE UNCHANGED O!vars
  BY <1>1 DEF GetInstance
<1>2. ASSUME NEW t \in Threads,
             \/ Test(t) \/ Claim(t) \/ New(t) \/ Throw(t) \/ AtExit(t) \/ Spin(t)
      PROVE  UNCHANGED O!vars
  BY <1>2 DEF Test, Claim, New, Throw, AtExit, Spin
<1>3. ASSUME NEW t \in Threads, Construct(t) PROVE UNCHANGED O!vars
  BY <1>3 DEF Construct
<1>4. ASSUME NEW t \in Threads, Ready(t) PROVE O!Next
  <2>1. O!Make(t)
    BY <1>4 DEF Ready, O!Make
  <2> QED
    BY <2>1 DEF O!Next
<1>5. ASSUME NEW t \in Threads, Return(t) PROVE O!Next
  <2>1. O!Give(t)
    BY <1>5 DEF Return, O!Give
  <2> QED
    BY <2>1 DEF O!Next
<1>6. CASE Poison
  <2>1. sv_isReady /\ theObject \in Threads
    BY <1>6 DEF Poison, TypeOK
  <2>2. O!End
    BY <1>6, <2>1 DEF Poison, O!End
  <2> QED
    BY <2>2 DEF O!Next
<1>7. CASE DestroyInstance \/ Delete
  BY <1>7 DEF DestroyInstance, Delete
<1>8. CASE UNCHANGED vars
  BY <1>8 DEF vars
<1> QED
  BY <1>1, <1>2, <1>3, <1>4, <1>5, <1>6, <1>7, <1>8 DEF Next, Steps

(***************************************************************************)
(* To its users, Handleton<T>::GetInstance makes one object, gives it to   *)
(* every caller and the poison after exit() destroyed it.                  *)
(***************************************************************************)
THEOREM HandletonIsOnce == Spec => ImplementsOnce
<1>1. Init => O!Init
  BY DEF Init, O!Init
<1> QED
  BY <1>1, InvInit, InvStep, StepImplementsOnce, PTL DEF Spec, ImplementsOnce, O!Spec
================================================================================
