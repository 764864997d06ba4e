-------------------------------- MODULE Handleton --------------------------------
(***************************************************************************)
(* Handleton<T> (handleton.h): a singleton made by the first of the        *)
(* threads that claims sv_shouldInit, while the others spin on sv_isReady, *)
(* and destroyed by an atexit handler.  The object that thread t makes is  *)
(* named t.                                                                *)
(***************************************************************************)
CONSTANTS
    Threads,
    Null,
    DeadBeef  \* 0xdeadbeef

ASSUME HandletonAssumption ==
    Null \notin Threads /\ DeadBeef \notin Threads /\ Null # DeadBeef

VARIABLES
    sv_isReady, sv_shouldInit, theObject,
    life,        \* what became of each object
    pc,          \* where each thread is in GetInstance
    held,        \* the pointer that its last call read
    exit,        \* how far exit() is, which runs DestroyInstance
    ptr          \* DestroyInstance's copy of the pointer
vars == <<sv_isReady, sv_shouldInit, theObject, life, pc, held, exit, ptr>>

TypeOK ==
    /\ sv_isReady \in BOOLEAN /\ sv_shouldInit \in BOOLEAN
    /\ theObject \in Threads \union {Null, DeadBeef}
    /\ life \in [Threads -> {"none", "building", "complete", "deleted"}]
    /\ pc \in [Threads -> {"out", "test", "claim", "new", "construct", "atexit",
                           "ready", "spin", "return", "threw"}]
    /\ held \in [Threads -> Threads \union {Null, DeadBeef}]
    /\ exit \in {"none", "registered", "poison", "delete", "end"}
    /\ ptr \in Threads \union {Null, DeadBeef}

Init ==
    /\ sv_isReady = FALSE /\ sv_shouldInit = FALSE /\ theObject = Null
    /\ life = [t \in Threads |-> "none"]
    /\ pc = [t \in Threads |-> "out"]
    /\ held = [t \in Threads |-> Null]
    /\ exit = "none" /\ ptr = Null

--------------------------------------------------------------------------------

Goto(t, from, to) == pc[t] = from /\ pc' = [pc EXCEPT ![t] = to]

GetInstance(t) ==
    /\ Goto(t, "out", "test")
    /\ UNCHANGED <<sv_isReady, sv_shouldInit, theObject, life, held, exit, ptr>>

\* if (!sv_isReady)
Test(t) ==
    /\ Goto(t, "test", IF sv_isReady THEN "return" ELSE "claim")
    /\ UNCHANGED <<sv_isReady, sv_shouldInit, theObject, life, held, exit, ptr>>

\* Mutant of Claim: "if (!sv_shouldInit)", and the assignment comes later.
ClaimTest(t) ==
    /\ Goto(t, "claim", IF sv_isReady THEN "spin" ELSE "new")
    /\ sv_shouldInit' = TRUE
    /\ UNCHANGED <<sv_isReady, theObject, life, held, exit, ptr>>

\* if (!Atomic_Or(&sv_shouldInit, true))
Claim(t) ==
    /\ Goto(t, "claim", IF sv_shouldInit THEN "spin" ELSE "new")
    /\ sv_shouldInit' = TRUE
    /\ UNCHANGED <<sv_isReady, theObject, life, held, exit, ptr>>

\* new T() has its memory and runs the constructor.
New(t) ==
    /\ Goto(t, "new", "construct")
    /\ life' = [life EXCEPT ![t] = "building"]
    /\ UNCHANGED <<sv_isReady, sv_shouldInit, theObject, held, exit, ptr>>

Construct(t) ==
    /\ Goto(t, "construct", "atexit")
    /\ life' = [life EXCEPT ![t] = "complete"]
    /\ theObject' = t
    /\ UNCHANGED <<sv_isReady, sv_shouldInit, held, exit, ptr>>

\* The constructor throws: the claim stays, and with it everyone who spins.
Throw(t) ==
    /\ Goto(t, "construct", "threw")
    /\ life' = [life EXCEPT ![t] = "none"]
    /\ UNCHANGED <<sv_isReady, sv_shouldInit, theObject, held, exit, ptr>>

\* ::atexit(&Handleton<T>::DestroyInstance)
AtExit(t) ==
    /\ Goto(t, "atexit", "ready")
    /\ exit' = "registered"
    /\ UNCHANGED <<sv_isReady, sv_shouldInit, theObject, life, held, ptr>>

\* Mutant of Ready: the flag is not set.
ReadyNever(t) ==
    /\ Goto(t, "ready", "spin")
    /\ UNCHANGED <<sv_isReady, sv_shouldInit, theObject, life, held, exit, ptr>>

\* Atomic_Or(&sv_isReady, true)
Ready(t) ==
    /\ Goto(t, "ready", "spin")
    /\ sv_isReady' = TRUE
    /\ UNCHANGED <<sv_shouldInit, theObject, life, held, exit, ptr>>

\* while (!sv_isReady)
Spin(t) ==
    /\ sv_isReady
    /\ Goto(t, "spin", "return")
    /\ UNCHANGED <<sv_isReady, sv_shouldInit, theObject, life, held, exit, ptr>>

Return(t) ==
    /\ Goto(t, "return", "out")
    /\ held' = [held EXCEPT ![t] = theObject]
    /\ UNCHANGED <<sv_isReady, sv_shouldInit, theObject, life, exit, ptr>>

--------------------------------------------------------------------------------

\* exit() calls DestroyInstance, whose GetInstance may have to spin as well.
DestroyInstance ==
    /\ exit = "registered"
    /\ sv_isReady
    /\ exit' = "poison" /\ ptr' = theObject
    /\ UNCHANGED <<sv_isReady, sv_shouldInit, theObject, life, pc, held>>

\* Mutant of Poison: the object is deleted before the pointer is overwritten.
PoisonLate ==
    /\ exit = "poison"
    /\ life' = [life EXCEPT ![ptr] = "deleted"]
    /\ exit' = "delete"
    /\ UNCHANGED <<sv_isReady, sv_shouldInit, theObject, pc, held, ptr>>

Poison ==
    /\ exit = "poison"
    /\ theObject' = DeadBeef
    /\ exit' = "delete"
    /\ UNCHANGED <<sv_isReady, sv_shouldInit, life, pc, held, ptr>>

Delete ==
    /\ exit = "delete"
    /\ life' = [life EXCEPT ![ptr] = "deleted"]
    /\ exit' = "end"
    /\ UNCHANGED <<sv_isReady, sv_shouldInit, theObject, pc, held, ptr>>

Steps(t) ==
    \/ Test(t) \/ Claim(t) \/ New(t) \/ Construct(t) \/ Throw(t) \/ AtExit(t)
    \/ Ready(t) \/ Spin(t) \/ Return(t)

Next ==
    \/ \E t \in Threads : GetInstance(t) \/ Steps(t)
    \/ DestroyInstance \/ Poison \/ Delete

Spec == Init /\ [][Next]_vars

\* Each thread runs on; nobody has to call, and exit() need not be called.
FairSpec == Spec /\ \A t \in Threads : WF_vars(Steps(t))

--------------------------------------------------------------------------------

\* The pointer that callers read never leads to an object that is not built yet
\* or not there any more (handleton.h:51-53, 80-82).
PointerValid == theObject \in Threads => life[theObject] = "complete"

\* A thread that asks gets an answer, unless a constructor threw.
EveryoneReturns ==
    \A t \in Threads :
        pc[t] = "test" ~> pc[t] = "out" \/ \E u \in Threads : pc[u] = "threw"

\* One object is made, every call returns it, and after its end the poison: to
\* its users the class is Once, where the object appears when sv_isReady does.
O == INSTANCE Once WITH
        Users <- Threads, Objects <- Threads, Nothing <- Null, Mark <- DeadBeef,
        object <- IF sv_isReady THEN theObject ELSE Null, got <- held
ImplementsOnce == O!Spec
================================================================================
