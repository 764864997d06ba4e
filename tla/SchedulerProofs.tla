----------------------------- MODULE SchedulerProofs -----------------------------
(***************************************************************************)
(* Theorems about Scheduler for any Kamikazes, timer threads, delays and   *)
(* grain of the clock.                                                     *)
(***************************************************************************)
EXTENDS Scheduler, SequenceTheorems, FiniteSetTheorems, TLAPS

USE DEF timer, Queuing, Arming

(***************************************************************************)
(* A push makes room for the new entry and moves the ones behind it.       *)
(***************************************************************************)
LEMMA PushElements ==
    ASSUME NEW S, NEW s \in Seq(S), NEW i \in 1 .. Len(s) + 1, NEW x \in S,
           NEW q, q = InsertAt(s, i, x)
    PROVE  /\ q \in Seq(S) /\ Len(s) \in Nat /\ Len(q) = Len(s) + 1 /\ q[i] = x
           /\ \A j \in 1 .. i - 1 : q[j] = s[j]
           /\ \A j \in i .. Len(s) : q[j + 1] = s[j]
<1> DEFINE a == SubSeq(s, 1, i - 1)
           b == SubSeq(s, i, Len(s))
           m == <<x>>
           c == a \o m
<1>1. Len(s) \in Nat /\ i \in Nat /\ \A j \in 1 .. Len(s) : s[j] \in S
  BY LenProperties, ElementOfSeq
<1>2. /\ a \in Seq(S) /\ Len(a) = i - 1
      /\ \A j \in 1 .. i - 1 : a[j] = s[j]
  BY <1>1, SubSeqProperties
<1>3. /\ b \in Seq(S) /\ Len(b) = Len(s) - i + 1
      /\ \A j \in 1 .. Len(b) : b[j] = s[i + j - 1]
  BY <1>1, SubSeqProperties
<1>4. m \in Seq(S) /\ Len(m) = 1 /\ m[1] = x
  OBVIOUS
<1> HIDE DEF a, b, m
<1>5. /\ c \in Seq(S) /\ Len(c) = i /\ c[i] = x
      /\ \A j \in 1 .. i - 1 : c[j] = s[j]
  <2>1. /\ c \in Seq(S) /\ Len(c) = Len(a) + Len(m)
        /\ \A j \in 1 .. Len(a) + Len(m) : c[j] = IF j <= Len(a) THEN a[j] ELSE m[j - Len(a)]
    BY <1>2, <1>4, ConcatProperties
  <2> HIDE DEF c
  <2>2. Len(a) + Len(m) = i /\ i - Len(a) = 1
    BY <1>1, <1>2, <1>4
  <2> QED
    BY <1>1, <1>2, <1>4, <2>1, <2>2
<1> HIDE DEF c
<1>6. q = c \o b
  BY DEF InsertAt, a, b, c, m
<1>7. /\ q \in Seq(S) /\ Len(q) = i + Len(b)
      /\ \A j \in 1 .. i : q[j] = c[j]
      /\ \A j \in i + 1 .. Len(q) : q[j] = b[j - i]
  <2>1. /\ q \in Seq(S) /\ Len(q) = Len(c) + Len(b)
        /\ \A j \in 1 .. Len(c) + Len(b) : q[j] = IF j <= Len(c) THEN c[j] ELSE b[j - Len(c)]
    BY <1>3, <1>5, <1>6, ConcatProperties
  <2>2. Len(b) \in Nat
    BY <1>1, <1>3
  <2> QED
    BY <1>1, <1>5, <2>1, <2>2
<1>8. ASSUME NEW j \in i .. Len(s) PROVE q[j + 1] = s[j]
  <2>1. j + 1 \in i + 1 .. Len(q) /\ (j + 1) - i \in 1 .. Len(b) /\ i + ((j + 1) - i) - 1 = j
    BY <1>1, <1>3, <1>7
  <2> QED
    BY <1>3, <1>7, <2>1
<1> QED
  BY <1>1, <1>3, <1>5, <1>7, <1>8

(***************************************************************************)
(* What Arm writes to itime for a delay is that delay, and never 0 and 0.  *)
(***************************************************************************)
LEMMA ArmArms ==
    ASSUME NEW milli \in Nat
    PROVE  /\ Itime(milli) \in [sec : Nat, nsec : Nat \union {Nano}]
           /\ Ticks(Itime(milli)) = milli * TicksPerMilli
           /\ Ticks(Itime(milli)) \in Nat /\ Ticks(Itime(milli)) # Off
<1>1. ASSUME NEW n \in Nat \ {0}
      PROVE  /\ milli \div n \in Nat /\ milli % n \in Nat
             /\ (milli \div n) * n + (milli % n) = milli
  <2>1. milli \div n \in Nat /\ milli % n \in Nat
    OBVIOUS
  <2>2. milli = n * (milli \div n) + (milli % n)
    OBVIOUS
  <2> QED
    BY <2>1, <2>2
<1>2. /\ milli \div MillisPerSecond \in Nat /\ milli % MillisPerSecond \in Nat
      /\ (milli \div MillisPerSecond) * MillisPerSecond + (milli % MillisPerSecond) = milli
  BY <1>1, SchedulerAssumption
<1>3. milli * TicksPerMilli \in Nat /\ 0 * MillisPerSecond = 0
  BY SchedulerAssumption
<1>4. CASE milli = 0
  <2>1. milli \div MillisPerSecond = 0 /\ Itime(milli) = [sec |-> 0, nsec |-> Nano]
    <3>1. milli \div MillisPerSecond = 0
      BY <1>4, SchedulerAssumption
    <3> QED
      BY <1>4, <3>1 DEF Itime
  <2>2. Itime(milli) # Zero
    BY <2>1, SchedulerAssumption DEF Zero
  <2>3. Ticks(Itime(milli)) = 0
    <3>1. Ticks(Itime(milli)) = (0 * MillisPerSecond + 0) * TicksPerMilli
      BY <2>1, <2>2 DEF Ticks
    <3>2. (0 * MillisPerSecond + 0) * TicksPerMilli = 0
      BY SchedulerAssumption
    <3> QED
      BY <3>1, <3>2
  <2> QED
    BY <1>3, <1>4, <2>1, <2>3, SchedulerAssumption
<1>5. CASE milli # 0
  <2> DEFINE s == milli \div MillisPerSecond
             n == milli % MillisPerSecond
  <2>m. milli > 0
    BY <1>5
  <2>1. Itime(milli) = [sec |-> s, nsec |-> n]
    BY <2>m DEF Itime
  <2>2. s \in Nat /\ n \in Nat /\ s * MillisPerSecond + n = milli
    BY <1>2
  <2> HIDE DEF s, n
  <2>3. Itime(milli) # Zero /\ n # Nano
    BY <1>3, <1>5, <2>1, <2>2, SchedulerAssumption DEF Zero
  <2>4. Ticks(Itime(milli)) = milli * TicksPerMilli
    BY <2>1, <2>2, <2>3 DEF Ticks
  <2> QED
    BY <1>3, <2>1, <2>2, <2>4, SchedulerAssumption
<1> QED
  BY <1>4, <1>5

(***************************************************************************)
(* Whatever Adds and Cycles have written there, it is a number of ticks or *)
(* disarms.                                                                *)
(***************************************************************************)
LEMMA TicksType ==
    ASSUME NEW it \in [sec : Nat, nsec : Nat \union {Nano}]
    PROVE  Ticks(it) \in Nat \union {Off}
<1>1. ASSUME NEW m \in Nat, NEW n \in Nat
      PROVE  (m * MillisPerSecond + n) * TicksPerMilli \in Nat
  <2>1. m * MillisPerSecond + n \in Nat
    BY SchedulerAssumption
  <2> QED
    BY <2>1, SchedulerAssumption
<1> QED
  BY <1>1 DEF Ticks

LEMMA WholeMillis ==
    ASSUME NEW left \in Nat
    PROVE  left \div TicksPerMilli \in Nat
<1>1. ASSUME NEW n \in Nat \ {0} PROVE left \div n \in Nat
  OBVIOUS
<1> QED
  BY <1>1, SchedulerAssumption

LEMMA OffIsZero == m_old_value = 0 => CheckDeadline = 0
<1>1. 0 % MillisPerSecond = 0 /\ 0 \div MillisPerSecond = 0 /\ 0 \div TicksPerMilli = 0
  BY SchedulerAssumption
<1> QED
  BY <1>1 DEF CheckDeadline

(***************************************************************************)
(* The variables of the scheduler have their types at first.               *)
(***************************************************************************)
LEMMA TypeInit == Init => TypeOK
<1> SUFFICES ASSUME Init PROVE TypeOK
  OBVIOUS
<1>1. itime \in [sec : Nat, nsec : Nat \union {Nano}]
  BY DEF Init, Zero
<1>2. m_pq \in Seq(Entries)
  BY EmptySeq DEF Init
<1>3. adding \in Adds /\ cycle \in [Threads -> Cycles]
  BY DEF Init, Adds, Cycles
<1> QED
  BY <1>1, <1>2, <1>3 DEF Init, TypeOK

(***************************************************************************)
(* The variables of the scheduler keep their types.                        *)
(***************************************************************************)
LEMMA TypeStep == TypeOK /\ [Next]_vars => TypeOK'
<1> SUFFICES ASSUME TypeOK, [Next]_vars PROVE TypeOK'
  OBVIOUS
<1> DEFINE Typed == /\ made \subseteq Kamikazes
                    /\ m_pq \in Seq(Entries)
                    /\ m_timer \in Nat \union {Off}
                    /\ itime \in [sec : Nat, nsec : Nat \union {Nano}]
                    /\ m_old_value \in Nat
                    /\ adding \in Adds
                    /\ cycle \in [Threads -> Cycles]
<1> USE DEF TypeOK
<1>1. ASSUME NEW k \in Kamikazes, NEW milli \in Delays, NEW by \in Threads \union {"client"},
             Add(k, milli, by)
      PROVE  Typed'
  BY <1>1, SchedulerAssumption DEF Add, Adds
<1>2. ASSUME AddNew PROVE Typed'
  <2>1. adding # NoAdd /\ adding.milli * TicksPerMilli \in Nat
    BY <1>2, SchedulerAssumption DEF AddNew, Adds, NoAdd
  <2> QED
    BY <1>2, <2>1 DEF AddNew, Adds, NoAdd
<1>3. ASSUME AddPush PROVE Typed'
  <2>1. adding \in Adds \ {NoAdd}
    BY <1>3 DEF AddPush, NoAdd
  <2>2. [k |-> adding.k, left |-> adding.left] \in Entries
    BY <2>1 DEF Adds, Entries
  <2>3. m_pq' \in Seq(Entries)
    BY <1>3, <2>2, PushElements DEF AddPush
  <2> QED
    BY <1>3, <2>1, <2>3 DEF AddPush, Adds
<1>4. ASSUME AddCompare PROVE Typed'
  BY <1>4 DEF AddCompare, Adds, NoAdd
<1>5. ASSUME AddZero PROVE Typed'
  BY <1>5 DEF AddZero, Adds, NoAdd
<1>a. Remaining \in Nat
  BY DEF Remaining
<1>b. ASSUME NEW milli \in Nat, ArmSec(milli) \/ ArmNsec(milli) \/ ArmTimer(milli)
      PROVE  /\ m_timer' \in Nat \union {Off}
             /\ itime' \in [sec : Nat, nsec : Nat \union {Nano}]
             /\ m_old_value' \in Nat
  <2>1. Itime(milli) \in [sec : Nat, nsec : Nat \union {Nano}]
    BY ArmArms
  <2>2. Ticks(itime) \in Nat \union {Off}
    BY TicksType
  <2>3. ASSUME ArmSec(milli) \/ ArmNsec(milli)
        PROVE  itime' \in [sec : Nat, nsec : Nat \union {Nano}]
    BY <2>1, <2>3 DEF ArmSec, ArmNsec
  <2> QED
    BY <1>a, <1>b, <2>2, <2>3 DEF ArmSec, ArmNsec, ArmTimer
<1>c. ASSUME AddAsk PROVE Typed'
  BY <1>a, <1>c DEF AddAsk, Adds, NoAdd
<1>6. ASSUME AddArm PROVE Typed'
  <2>1. adding.milli \in Nat /\ adding # NoAdd
    BY <1>6 DEF AddArm, Adds, NoAdd
  <2>2. adding' \in Adds
    BY <1>6, <2>1 DEF AddArm, Adds
  <2>3. UNCHANGED <<made, m_pq, cycle>>
    BY <1>6 DEF AddArm
  <2> QED
    BY <1>6, <1>b, <2>1, <2>2, <2>3 DEF AddArm
<1>7. ASSUME NEW t \in Threads, Expire(t) PROVE Typed'
  BY <1>7 DEF Expire, Cycles
<1>8. ASSUME NEW t \in Threads, CycleTop(t) PROVE Typed'
  <2>1. Head(m_pq) \in Entries
    BY <1>8, HeadTailProperties DEF CycleTop
  <2> QED
    BY <1>8, <2>1 DEF CycleTop, Cycles, Entries
<1>9. ASSUME NEW t \in Threads,
             NEW pc \in {"notify", "func", "step", "delete", "peek", "arm", "nsec", "settime"},
             cycle[t].pc \in {"pop", "notify", "func", "step", "delete", "test", "arm", "nsec"},
             Goto(t, pc)
      PROVE  cycle' \in [Threads -> Cycles]
  <2> DEFINE C == [pc : {"pop", "notify", "func", "step", "delete", "peek", "test"} \union Arming,
                   k : Kamikazes, left : Nat]
  <2>1. cycle[t] \in C
    BY <1>9 DEF Cycles, NoCycle
  <2>2. [cycle[t] EXCEPT !.pc = pc] \in C
    BY <1>9, <2>1
  <2>3. [cycle[t] EXCEPT !.pc = pc] \in Cycles
    BY <2>2 DEF Cycles
  <2> QED
    BY <1>9, <2>3 DEF Goto
<1>10. ASSUME NEW t \in Threads, CyclePop(t) PROVE Typed'
  <2>1. Tail(m_pq) \in Seq(Entries)
    BY <1>10, HeadTailProperties DEF CyclePop
  <2> QED
    BY <1>9, <1>10, <2>1 DEF CyclePop, At
<1>11. ASSUME NEW t \in Threads, CycleNotify(t) PROVE Typed'
  BY <1>9, <1>11 DEF CycleNotify, At
<1>12. ASSUME NEW t \in Threads, OnEvent(t) PROVE Typed'
  BY <1>9, <1>12 DEF OnEvent, At
<1>13. ASSUME NEW t \in Threads, CycleStep(t) PROVE Typed'
  BY <1>9, <1>13 DEF CycleStep, At
<1>14. ASSUME NEW t \in Threads, CycleDelete(t) PROVE Typed'
  BY <1>9, <1>14 DEF CycleDelete, At
<1>15. ASSUME NEW t \in Threads, CyclePeek(t) PROVE Typed'
  <2>1. m_pq # <<>> => Head(m_pq) \in Entries
    BY HeadTailProperties
  <2>2. PICK left \in Nat :
           cycle' = [cycle EXCEPT ![t] = [pc |-> "test", k |-> cycle[t].k, left |-> left]]
    BY <1>15, <2>1 DEF CyclePeek, Entries
  <2>3. cycle[t].k \in Kamikazes
    BY <1>15 DEF CyclePeek, At, Cycles, NoCycle
  <2> QED
    BY <1>15, <2>2, <2>3 DEF CyclePeek, Cycles
<1>16. ASSUME NEW t \in Threads, CycleTest(t) PROVE Typed'
  BY <1>9, <1>16 DEF CycleTest, At, Cycles
<1>17. ASSUME NEW t \in Threads, CycleArm(t) PROVE Typed'
  <2>1. cycle[t].left \div TicksPerMilli \in Nat
    BY <1>17, WholeMillis DEF CycleArm, At, Cycles, NoCycle
  <2>2. cycle' \in [Threads -> Cycles]
    BY <1>9, <1>17 DEF CycleArm, At, Cycles
  <2>3. UNCHANGED <<made, m_pq, adding>>
    BY <1>17 DEF CycleArm
  <2> QED
    BY <1>17, <1>b, <2>1, <2>2, <2>3 DEF CycleArm
<1>18. ASSUME Tick PROVE Typed'
  <2>1. m_timer' \in Nat \union {Off}
    BY <1>18 DEF Tick
  <2>2. adding' \in Adds
    <3>1. CASE adding = NoAdd
      BY <1>18, <3>1 DEF Tick
    <3>2. CASE adding # NoAdd
      <4>1. Less(adding.left) \in Nat
        BY <3>2 DEF Adds, Less, NoAdd
      <4> QED
        BY <1>18, <3>2, <4>1 DEF Tick, Adds, NoAdd
    <3> QED
      BY <3>1, <3>2
  <2>3. \A t \in Threads : cycle'[t] \in Cycles
    BY <1>18 DEF Tick, Cycles, Less, NoCycle
  <2>4. m_pq' \in Seq(Entries)
    <3>1. /\ Len(m_pq) \in Nat /\ DOMAIN m_pq = 1 .. Len(m_pq)
          /\ \A i \in 1 .. Len(m_pq) : m_pq[i] \in Entries
      BY LenProperties, ElementOfSeq
    <3>2. m_pq' = [i \in 1 .. Len(m_pq) |-> [m_pq[i] EXCEPT !.left = Less(@)]]
      BY <1>18, <3>1 DEF Tick
    <3>3. \A i \in 1 .. Len(m_pq) : [m_pq[i] EXCEPT !.left = Less(@)] \in Entries
      <4>1. \A e \in Entries : [e EXCEPT !.left = Less(e.left)] \in Entries
        <5>1. ASSUME NEW e \in Entries PROVE Less(e.left) \in Nat
          BY DEF Entries, Less
        <5> QED
          BY <5>1 DEF Entries
      <4> QED
        BY <3>1, <4>1
    <3> QED
      BY <3>1, <3>2, <3>3
  <2> QED
    BY <1>18, <2>1, <2>2, <2>3, <2>4 DEF Tick
<1>19. ASSUME UNCHANGED <<made, m_pq, timer, adding, cycle>> PROVE Typed'
  BY <1>19
<1>20. Typed'
  BY <1>1, <1>2, <1>3, <1>4, <1>5, <1>6, <1>7, <1>8, <1>10, <1>11, <1>12, <1>13, <1>14, <1>15,
     <1>16, <1>17, <1>18, <1>19, <1>c
     DEF Next, Run, Running, AddSteps, CycleSteps, Lost, DataRace, vars
<1>21. /\ overlapped' \in BOOLEAN /\ torn' \in BOOLEAN
       /\ gone' \in BOOLEAN /\ freed' \in BOOLEAN
  <2>1. overlapped' \in BOOLEAN
    BY Zenon DEF Next, Run, vars
  <2>2. (gone' = gone \/ gone' = TRUE) /\ (freed' = freed \/ freed' = TRUE)
    BY DEF Next, Run, Running, AddSteps, CycleSteps, Add, AddNew, AddPush, AddAsk, AddCompare,
           AddZero, AddArm, Expire, Lost, CycleTop, CyclePop, CycleNotify, OnEvent, CycleStep,
           CycleDelete, CyclePeek, CycleTest, CycleArm, DataRace, Tick, vars
  <2>3. torn' = torn \/ \E milli : ArmTimer(milli)
    BY DEF Next, Run, Running, AddSteps, CycleSteps, Add, AddNew, AddPush, AddAsk, AddCompare,
           AddZero, AddArm, Expire, Lost, CycleTop, CyclePop, CycleNotify, OnEvent, CycleStep,
           CycleDelete, CyclePeek, CycleTest, CycleArm, ArmSec, ArmNsec, DataRace, Tick, vars
  <2>4. torn' \in BOOLEAN
    BY <2>3, Zenon DEF ArmTimer
  <2> QED
    BY <2>1, <2>2, <2>4
<1> QED
  BY <1>20, <1>21

--------------------------------------------------------------------------------

(***************************************************************************)
(* A timer thread that does not end in this step is still in Cycle.        *)
(***************************************************************************)
LEMMA StillLive ==
    ASSUME TypeOK', NEW t \in Threads, cycle'[t].pc # "none"
    PROVE  Live' # {}
BY DEF Live, NoCycle

(***************************************************************************)
(* Somebody is awake or will be woken; and a call of Add that was told of  *)
(* an armed timer, and will leave it at that, was told so rightly: since   *)
(* then the timer can only have expired, for a Cycle that arms it again.   *)
(***************************************************************************)
Alarm == m_timer # Off \/ Live # {} \/ torn

Told ==
    adding.pc = "zero" /\ m_old_value # 0 /\ m_pq # <<>> /\ ~gone /\ ~freed => Alarm

(***************************************************************************)
(* Every step keeps NoEntryStranded: who queues an entry arms the timer or *)
(* was told that it is armed, and a Cycle ends with the timer armed or the *)
(* queue empty.                                                            *)
(***************************************************************************)
LEMMA StrandedStep ==
    TypeOK /\ TypeOK' /\ NoEntryStranded /\ Told /\ [Next]_vars => NoEntryStranded' /\ Told'
<1> DEFINE Woken == Alarm \/ adding.pc \in Queuing
           Right == adding.pc = "zero" /\ m_old_value # 0 => Alarm
<1> SUFFICES ASSUME TypeOK, TypeOK', NoEntryStranded, Told, [Next]_vars,
                    m_pq' # <<>>, ~gone', ~freed'
             PROVE  Woken' /\ Right'
  BY DEF NoEntryStranded, Told, Alarm
<1> USE DEF Alarm
<1>1. ~gone /\ ~freed /\ m_pq # <<>> => Woken /\ Right
  BY DEF NoEntryStranded, Told
<1>2. ASSUME NEW k \in Kamikazes, NEW milli \in Delays, NEW by \in Threads \union {"client"},
             Add(k, milli, by), ~gone, ~freed
      PROVE  Woken' /\ Right'
  BY <1>1, <1>2 DEF Add, NoAdd, Live
<1>3. ASSUME AddNew, ~gone, ~freed PROVE Woken' /\ Right'
  <2>1. adding'.pc = "push"
    BY <1>3 DEF AddNew, TypeOK, Adds, NoAdd
  <2> QED
    BY <1>1, <1>3, <2>1 DEF AddNew, Live
<1>4. ASSUME AddPush PROVE Woken' /\ Right'
  BY <1>4 DEF AddPush, TypeOK, Adds, NoAdd
<1>a. ASSUME AddAsk PROVE Woken' /\ Right'
  <2>1. adding'.pc \in Queuing
    BY <1>a DEF AddAsk, TypeOK, Adds, NoAdd
  <2>2. m_old_value' # 0 => m_timer' # Off
    BY <1>a DEF AddAsk, Remaining
  <2> QED
    BY <2>1, <2>2
<1>5. ASSUME AddCompare PROVE Woken' /\ Right'
  BY <1>5 DEF AddCompare, TypeOK, Adds, NoAdd
<1>6. ASSUME AddZero, ~gone, ~freed PROVE Woken' /\ Right'
  <2>1. CASE CheckDeadline = 0
    BY <1>6, <2>1 DEF AddZero, TypeOK, Adds, NoAdd
  <2>2. CASE CheckDeadline # 0
    <3>1. m_old_value # 0 /\ adding.pc = "zero" /\ UNCHANGED <<m_pq, m_timer, torn, cycle>>
      BY <1>6, <2>2, OffIsZero DEF AddZero
    <3>2. Alarm'
      BY <1>1, <1>6, <3>1 DEF Live
    <3> QED
      BY <3>2
  <2> QED
    BY <2>1, <2>2
<1>b. ASSUME NEW milli \in Nat, ArmTimer(milli) PROVE Alarm'
  BY <1>b, ArmArms DEF ArmTimer
<1>7. ASSUME AddArm PROVE Woken' /\ Right'
  <2>1. adding.milli \in Nat
    BY <1>7 DEF AddArm, TypeOK, Adds, NoAdd
  <2>2. CASE adding' = NoAdd /\ ArmTimer(adding.milli)
    BY <1>b, <2>1, <2>2
  <2>3. CASE adding'.pc \in {"nsec", "settime"}
    BY <2>3
  <2> QED
    BY <1>7, <2>2, <2>3 DEF AddArm, TypeOK, Adds, NoAdd
<1>8. ASSUME NEW t \in Threads, Expire(t) PROVE Woken' /\ Right'
  BY <1>8 DEF Expire, TypeOK, Live, NoCycle
<1>9. ASSUME NEW t \in Threads,
             NEW pc \in {"notify", "func", "step", "delete", "peek", "arm", "nsec", "settime"},
             \/ At(t, "pop") \/ At(t, "notify") \/ At(t, "func") \/ At(t, "step")
             \/ At(t, "delete") \/ At(t, "test") \/ At(t, "arm") \/ At(t, "nsec"),
             Goto(t, pc)
      PROVE  Woken' /\ Right'
  BY <1>9 DEF At, Goto, TypeOK, Cycles, Live, NoCycle
<1>10. ASSUME NEW t \in Threads, CycleTop(t) PROVE Woken' /\ Right'
  BY <1>10 DEF CycleTop, TypeOK, Live, NoCycle
<1>11. ASSUME NEW t \in Threads, CyclePeek(t) PROVE Woken' /\ Right'
  BY <1>11 DEF CyclePeek, At, TypeOK, Cycles, Live, NoCycle
<1>12. ASSUME NEW t \in Threads, CycleTest(t) PROVE Woken' /\ Right'
  BY <1>9, <1>12 DEF CycleTest
<1>13. ASSUME NEW t \in Threads, CycleArm(t) PROVE Woken' /\ Right'
  <2>1. cycle[t].left \div TicksPerMilli \in Nat
    <3>1. cycle[t] # NoCycle /\ cycle[t] \in Cycles /\ cycle[t].pc # "top"
      BY <1>13 DEF CycleArm, At, TypeOK
    <3>2. cycle[t].left \in Nat
      BY <3>1 DEF Cycles, NoCycle
    <3> QED
      BY <3>2, WholeMillis
  <2>2. CASE ArmTimer(cycle[t].left \div TicksPerMilli)
    BY <1>b, <2>1, <2>2
  <2> QED
    BY <1>9, <1>13, <2>2 DEF CycleArm
<1>14. ASSUME NEW t \in Threads,
              CyclePop(t) \/ CycleNotify(t) \/ OnEvent(t) \/ CycleStep(t) \/ CycleDelete(t)
       PROVE  Woken' /\ Right'
  BY <1>9, <1>14 DEF CyclePop, CycleNotify, OnEvent, CycleStep, CycleDelete
<1>15. ASSUME Tick, ~gone, ~freed PROVE Woken' /\ Right'
  <2>1. m_pq # <<>>
    BY <1>15, LenProperties DEF Tick, TypeOK
  <2>2. adding'.pc = adding.pc /\ m_old_value' = m_old_value /\ torn' = torn
    BY <1>15 DEF Tick, TypeOK, Adds, NoAdd
  <2>3. m_timer # Off => m_timer' # Off
    BY <1>15, SchedulerAssumption DEF Tick, TypeOK
  <2>4. ASSUME NEW t \in Live PROVE Live' # {}
    <3>1. cycle'[t].pc = cycle[t].pc /\ cycle[t].pc # "none"
      BY <1>15, <2>4 DEF Tick, Live, TypeOK, Cycles, NoCycle
    <3> QED
      BY <3>1, <2>4, StillLive DEF Live
  <2>5. Alarm => Alarm'
    BY <2>2, <2>3, <2>4
  <2> QED
    BY <1>1, <1>15, <2>1, <2>2, <2>5
<1>16. CASE UNCHANGED vars
  BY <1>1, <1>16 DEF vars, Live
<1> QED
  BY <1>2, <1>3, <1>4, <1>5, <1>6, <1>7, <1>8, <1>10, <1>11, <1>12, <1>13, <1>14, <1>15, <1>16,
     <1>a
     DEF Next, Run, Running, AddSteps, CycleSteps, Lost, DataRace

(***************************************************************************)
(* While entries are queued, the timer is armed or a Cycle or an Add is on *)
(* its way to arm it, whatever the delays, the clock and the interleaving  *)
(* of Adds and Cycles, unless an Add and a Cycle tore itime: a timer that  *)
(* is set to what its own Arm wrote is enough.                             *)
(***************************************************************************)
THEOREM NobodyIsStranded == Spec => []NoEntryStranded
<1>1. Init => TypeOK /\ NoEntryStranded /\ Told
  BY TypeInit DEF Init, NoEntryStranded, Told
<1>2. TypeOK /\ NoEntryStranded /\ Told /\ [Next]_vars => (TypeOK /\ NoEntryStranded /\ Told)'
  BY TypeStep, StrandedStep
<1> QED
  BY <1>1, <1>2, PTL DEF Spec

--------------------------------------------------------------------------------

(***************************************************************************)
(* The theorems about Observer hold of O: OP says the same with proofs.    *)
(***************************************************************************)
OP == INSTANCE ObserverProofs WITH
        Dispatchers <- Kamikazes, Callbacks <- Kamikazes, MaxListed <- 1

(***************************************************************************)
(* The two instances of Observer are the same.                             *)
(***************************************************************************)
LEMMA SameObserver ==
    /\ OP!TypeOK <=> O!TypeOK
    /\ (OP!TypeOK)' <=> (O!TypeOK)'
    /\ [OP!Next]_(OP!vars) <=> [O!Next]_(O!vars)
<1> USE DEF O!Listed, OP!Listed, O!Range, OP!Range, O!RemoveAt, OP!RemoveAt, O!lists, OP!lists,
            O!NoLoop, OP!NoLoop, O!Freed, OP!Freed
<1>1. (OP!TypeOK <=> O!TypeOK) /\ ((OP!TypeOK)' <=> (O!TypeOK)')
  BY DEF O!TypeOK, OP!TypeOK
<1>2. (UNCHANGED OP!vars) <=> (UNCHANGED O!vars)
  BY DEF O!vars, OP!vars
<1>3. \A d \in Kamikazes :
        /\ OP!NewDispatcher(d) <=> O!NewDispatcher(d)
        /\ OP!DestroyDispatcher(d) <=> O!DestroyDispatcher(d)
        /\ OP!NewCallback(d) <=> O!NewCallback(d)
        /\ OP!StepFreed(d) <=> O!StepFreed(d)
  BY DEF O!NewDispatcher, OP!NewDispatcher, O!DestroyDispatcher, OP!DestroyDispatcher,
         O!NewCallback, OP!NewCallback, O!StepFreed, OP!StepFreed
<1>4. \A d \in Kamikazes :
        /\ OP!NotifyAll(d) <=> O!NotifyAll(d)
        /\ OP!Step(d) <=> O!Step(d)
  BY DEF O!NotifyAll, OP!NotifyAll, O!Step, OP!Step, O!Visit, OP!Visit
<1>5. \A d, c \in Kamikazes : OP!Attach(d, c) <=> O!Attach(d, c)
  BY DEF O!Attach, OP!Attach
<1>6. \A d, c \in Kamikazes : OP!Detach(d, c) <=> O!Detach(d, c)
  BY DEF O!Detach, OP!Detach, O!Erase, OP!Erase, O!EraseAt, OP!EraseAt, O!Shift, OP!Shift
<1>7. \A c \in Kamikazes : OP!DestroyCallback(c) <=> O!DestroyCallback(c)
  BY DEF O!DestroyCallback, OP!DestroyCallback, O!Erase, OP!Erase, O!EraseAt, OP!EraseAt,
         O!Shift, OP!Shift
<1>8. OP!Next <=> O!Next
  BY <1>3, <1>4, <1>5, <1>6, <1>7, Zenon DEF O!Next, OP!Next
<1> QED
  BY <1>1, <1>2, <1>8

(***************************************************************************)
(* Observer's variables keep their types.                                  *)
(***************************************************************************)
LEMMA ObserverTypes == O!TypeOK /\ [O!Next]_(O!vars) => (O!TypeOK)'
<1>1. OP!TypeOK /\ [OP!Next]_(OP!vars) => (OP!TypeOK)'
  BY OP!TypeStep, SchedulerAssumption DEF OP!ObserverAssumption
<1> QED
  BY <1>1, SameObserver

(***************************************************************************)
(* What the calls of Observer do to what the scheduler depends on: who is  *)
(* there, and no loop begins but by NotifyAll.                             *)
(***************************************************************************)
LEMMA ObserverCalls ==
    ASSUME O!TypeOK, NEW k \in Kamikazes
    PROVE  /\ O!NewCallback(k) => disp' = disp /\ cbs' = cbs \union {k} /\ cursor' = cursor
           /\ O!NewDispatcher(k) => disp' = disp \union {k} /\ cbs' = cbs /\ cursor' = cursor
           /\ O!Attach(k, k) => 
                 /\ UNCHANGED <<disp, cbs>>
                 /\ \A j \in Kamikazes : cursor[j] = O!NoLoop => cursor'[j] = O!NoLoop
           /\ O!NotifyAll(k) \/ O!StepFreed(k) =>
                 /\ UNCHANGED <<disp, cbs>>
                 /\ \A j \in Kamikazes \ {k} : cursor'[j] = cursor[j]
           /\ O!DestroyCallback(k) =>
                 /\ disp' = disp /\ cbs' = cbs \ {k}
                 /\ \A j \in Kamikazes : cursor[j] = O!NoLoop => cursor'[j] = O!NoLoop
           /\ O!DestroyDispatcher(k) =>
                 /\ disp' = disp \ {k} /\ cbs' = cbs
                 /\ \A j \in Kamikazes : cursor[j] = O!NoLoop => cursor'[j] = O!NoLoop
<1> USE DEF O!NoLoop, O!Freed, O!lists
<1>t. cursor \in [Kamikazes -> Int] /\ m_subscribers \in [Kamikazes -> Seq(Kamikazes)]
      /\ m_dispatcher \in [Kamikazes -> Kamikazes \union {NoDispatcher}]
  BY DEF O!TypeOK
<1>1. (O!NewCallback(k) => disp' = disp /\ cbs' = cbs \union {k} /\ cursor' = cursor)
      /\ (O!NewDispatcher(k) => disp' = disp \union {k} /\ cbs' = cbs /\ cursor' = cursor)
  BY DEF O!NewCallback, O!NewDispatcher
<1>2. ASSUME O!Attach(k, k)
      PROVE  /\ UNCHANGED <<disp, cbs>>
             /\ \A j \in Kamikazes : cursor[j] = O!NoLoop => cursor'[j] = O!NoLoop
  BY <1>t, <1>2 DEF O!Attach
<1>3. ASSUME O!NotifyAll(k) \/ O!StepFreed(k)
      PROVE  UNCHANGED <<disp, cbs>> /\ \A j \in Kamikazes \ {k} : cursor'[j] = cursor[j]
  BY <1>t, <1>3 DEF O!NotifyAll, O!StepFreed, O!Visit
<1>4. ASSUME O!DestroyCallback(k)
      PROVE  /\ disp' = disp /\ cbs' = cbs \ {k}
             /\ \A j \in Kamikazes : cursor[j] = O!NoLoop => cursor'[j] = O!NoLoop
  <2>1. disp' = disp /\ cbs' = cbs \ {k}
    BY <1>4 DEF O!DestroyCallback
  <2>2. ASSUME NEW d \in Kamikazes, O!Erase(d, k)
        PROVE  \A j \in Kamikazes : cursor[j] = O!NoLoop => cursor'[j] = O!NoLoop
    <3>1. CASE UNCHANGED cursor
      BY <3>1
    <3>2. ASSUME NEW i \in 1 .. Len(m_subscribers[d]), O!EraseAt(d, i)
          PROVE  \A j \in Kamikazes : cursor[j] = O!NoLoop => cursor'[j] = O!NoLoop
      <4>1. Len(m_subscribers[d]) \in Nat
        BY <1>t, LenProperties
      <4> QED
        BY <1>t, <3>2, <4>1 DEF O!EraseAt, O!Shift
    <3>3. DOMAIN m_subscribers[d] = 1 .. Len(m_subscribers[d])
      BY <1>t, LenProperties
    <3> QED
      BY <2>2, <3>1, <3>2, <3>3 DEF O!Erase
  <2>3. CASE m_dispatcher[k] = NoDispatcher
    BY <1>4, <2>3 DEF O!DestroyCallback
  <2>4. CASE m_dispatcher[k] # NoDispatcher
    BY <1>t, <1>4, <2>2, <2>4 DEF O!DestroyCallback
  <2> QED
    BY <2>1, <2>3, <2>4
<1>5. ASSUME O!DestroyDispatcher(k)
      PROVE  /\ disp' = disp \ {k} /\ cbs' = cbs
             /\ \A j \in Kamikazes : cursor[j] = O!NoLoop => cursor'[j] = O!NoLoop
  BY <1>t, <1>5 DEF O!DestroyDispatcher
<1> QED
  BY <1>1, <1>2, <1>3, <1>4, <1>5

--------------------------------------------------------------------------------

(***************************************************************************)
(* Who was queued, and whose dispatcher waits unused for its Cycle.        *)
(***************************************************************************)
Queued(k) == \E i \in 1 .. Len(m_pq) : m_pq[i].k = k
Distinct == \A i, j \in 1 .. Len(m_pq) : m_pq[i].k = m_pq[j].k => i = j
Fresh(k) == k \in disp /\ cursor[k] = O!NoLoop

(***************************************************************************)
(* What no overlap means: one Cycle at most, and the only Add beside it is *)
(* the one its function makes.                                             *)
(***************************************************************************)
Alone ==
    /\ \A t, u \in Live : t = u
    /\ Live = {} \/ adding = NoAdd \/ adding.by \in Live

(***************************************************************************)
(* The queue holds each Kamikaze once, its dispatcher unused; who was not  *)
(* made yet has left no trace.                                             *)
(***************************************************************************)
Lines ==
    /\ Distinct
    /\ \A k \in Kamikazes : Queued(k) => k \in made /\ Fresh(k)
    /\ \A k \in Kamikazes \ made : cursor[k] = O!NoLoop /\ k \notin disp \union cbs

(***************************************************************************)
(* How far the call of Add has come with the Kamikaze it adds.             *)
(***************************************************************************)
Adder ==
    adding # NoAdd =>
      /\ adding.k \in made
      /\ adding.pc = "new" => cursor[adding.k] = O!NoLoop
      /\ adding.pc = "push" => Fresh(adding.k)
      /\ adding.pc \in {"new", "push"} => ~Queued(adding.k)
      /\ adding.pc \in Queuing => Queued(adding.k)
      /\ adding.by # "client" => At(adding.by, "func") /\ cycle[adding.by].k # adding.k

(***************************************************************************)
(* How far a Cycle has come with the entry it took: until the pop the      *)
(* timer is off and the entry is the first; then it is in no queue, its    *)
(* callback goes in m_func's thread, its dispatcher after that.            *)
(***************************************************************************)
Place(t) ==
    /\ cycle[t].pc \in {"top", "pop"} \union Arming => m_pq # <<>>
    /\ cycle[t].pc \in {"top", "pop"} => m_timer = Off
    /\ cycle[t].pc = "pop" => cycle[t].k = Head(m_pq).k
    /\ cycle[t].pc = "notify" => Fresh(cycle[t].k)
    /\ cycle[t].pc \in {"notify", "func", "step", "delete"} =>
           cycle[t].k \in made /\ ~Queued(cycle[t].k)
    /\ cycle[t].pc \in {"step", "delete", "peek", "test"} \union Arming => cycle[t].k \notin cbs
    /\ cycle[t].pc \in {"peek", "test"} \union Arming => cycle[t].k \notin disp

Cycler == \A t \in Live : Place(t)

(***************************************************************************)
(* A timer that is armed has an entry to expire for.                       *)
(***************************************************************************)
Armed == m_timer # Off => m_pq # <<>>

(***************************************************************************)
(* Who has a dispatcher or a callback is queued or in somebody's hands.    *)
(***************************************************************************)
Owned ==
    \A k \in disp \union cbs :
        \/ Queued(k)
        \/ adding # NoAdd /\ adding.k = k
        \/ \E t \in Live : cycle[t].pc # "top" /\ cycle[t].k = k

Steady == Lines /\ Adder /\ Cycler /\ Armed /\ Owned

(***************************************************************************)
(* Without an overlap there is one Cycle at most.                          *)
(***************************************************************************)
LEMMA NotAlone == TypeOK /\ ~Overlap => Alone
<1> SUFFICES ASSUME TypeOK, ~Overlap PROVE Alone
  OBVIOUS
<1>1. IsFiniteSet(Live)
  BY SchedulerAssumption, FS_Subset DEF Live
<1>2. ASSUME NEW t \in Live, NEW u \in Live, t # u PROVE FALSE
  <2>1. IsFiniteSet({t}) /\ Cardinality({t}) = 1
    BY FS_Singleton
  <2>2. IsFiniteSet({t} \union {u}) /\ Cardinality({t} \union {u}) = Cardinality({t}) + 1
    BY <1>2, <2>1, FS_AddElement
  <2>3. {t} \union {u} \in SUBSET Live
    OBVIOUS
  <2>4. Cardinality({t} \union {u}) <= Cardinality(Live) /\ Cardinality(Live) \in Nat
    BY <1>1, <2>3, FS_Subset, FS_CardinalityType
  <2> QED
    BY <2>1, <2>2, <2>4 DEF Overlap
<1> QED
  BY <1>2 DEF Alone, Overlap

(***************************************************************************)
(* A thread in Cycle is then the only one.                                 *)
(***************************************************************************)
LEMMA Only ==
    ASSUME TypeOK, Alone, NEW t \in Threads, cycle[t] # NoCycle
    PROVE  /\ Live = {t}
           /\ \A u \in Threads : u # t => cycle[u] = NoCycle
           /\ adding # NoAdd => adding.by = t
  BY DEF Alone, Live

(***************************************************************************)
(* The first entry and what is behind it.                                  *)
(***************************************************************************)
LEMMA FirstEntry ==
    ASSUME TypeOK, m_pq # <<>>
    PROVE  /\ Len(m_pq) \in Nat /\ 1 \in 1 .. Len(m_pq)
           /\ Head(m_pq) = m_pq[1] /\ Head(m_pq) \in Entries
           /\ Tail(m_pq) \in Seq(Entries) /\ Len(Tail(m_pq)) = Len(m_pq) - 1
           /\ \A i \in 1 .. Len(Tail(m_pq)) : Tail(m_pq)[i] = m_pq[i + 1]
<1>1. m_pq \in Seq(Entries) /\ Len(m_pq) \in Nat \ {0}
  BY EmptySeq DEF TypeOK
<1>2. Head(m_pq) = m_pq[1]
  BY <1>1
<1> QED
  BY <1>1, <1>2, HeadTailProperties

(***************************************************************************)
(* Add queues one entry with the Kamikaze and the deadline it was given.   *)
(***************************************************************************)
LEMMA Pushed ==
    ASSUME TypeOK, AddPush
    PROVE  \E i \in 1 .. Len(m_pq) + 1, e \in Entries :
              /\ e.k = adding.k /\ e.left = adding.left
              /\ m_pq' \in Seq(Entries) /\ Len(m_pq) \in Nat /\ Len(m_pq') = Len(m_pq) + 1
              /\ m_pq'[i] = e
              /\ \A j \in 1 .. i - 1 : m_pq'[j] = m_pq[j]
              /\ \A j \in i .. Len(m_pq) : m_pq'[j + 1] = m_pq[j]
<1> DEFINE f == [k |-> adding.k, left |-> adding.left]
<1>1. f \in Entries /\ f.k = adding.k /\ f.left = adding.left /\ m_pq \in Seq(Entries)
  BY DEF AddPush, TypeOK, Adds, NoAdd, Entries
<1>2. PICK i \in 1 .. Len(m_pq) + 1 : m_pq' = InsertAt(m_pq, i, f)
  BY DEF AddPush
<1> HIDE DEF f
<1>3. m_pq' \in Seq(Entries) /\ Len(m_pq) \in Nat /\ Len(m_pq') = Len(m_pq) + 1 /\ m_pq'[i] = f
  BY <1>1, <1>2, PushElements
<1>4. \A j \in 1 .. i - 1 : m_pq'[j] = m_pq[j]
  BY <1>1, <1>2, PushElements
<1>5. \A j \in i .. Len(m_pq) : m_pq'[j + 1] = m_pq[j]
  BY <1>1, <1>2, PushElements
<1> QED
  BY <1>1, <1>3, <1>4, <1>5

(***************************************************************************)
(* A push queues one Kamikaze more.                                        *)
(***************************************************************************)
LEMMA QueuePush ==
    ASSUME TypeOK, AddPush
    PROVE  /\ m_pq' # <<>>
           /\ \A k : Queued(k)' <=> Queued(k) \/ k = adding.k
           /\ Distinct /\ ~Queued(adding.k) => Distinct'
<1>1. PICK i \in 1 .. Len(m_pq) + 1, e \in Entries :
        /\ e.k = adding.k
        /\ m_pq' \in Seq(Entries) /\ Len(m_pq) \in Nat /\ Len(m_pq') = Len(m_pq) + 1
        /\ m_pq'[i] = e
        /\ \A j \in 1 .. i - 1 : m_pq'[j] = m_pq[j]
        /\ \A j \in i .. Len(m_pq) : m_pq'[j + 1] = m_pq[j]
  BY Pushed
<1>2. \A j \in 1 .. Len(m_pq') :
        \/ j < i /\ j \in 1 .. Len(m_pq) /\ m_pq'[j] = m_pq[j]
        \/ j = i /\ m_pq'[j] = e
        \/ /\ j > i /\ j - 1 \in i .. Len(m_pq) /\ j - 1 \in 1 .. Len(m_pq)
           /\ m_pq'[j] = m_pq[j - 1]
  <2> SUFFICES ASSUME NEW j \in 1 .. Len(m_pq')
               PROVE  \/ j < i /\ j \in 1 .. Len(m_pq) /\ m_pq'[j] = m_pq[j]
                      \/ j = i /\ m_pq'[j] = e
                      \/ /\ j > i /\ j - 1 \in i .. Len(m_pq) /\ j - 1 \in 1 .. Len(m_pq)
                         /\ m_pq'[j] = m_pq[j - 1]
    OBVIOUS
  <2>1. CASE j < i
    BY <1>1, <2>1
  <2>2. CASE j = i
    BY <1>1, <2>2
  <2>3. CASE j > i
    <3>1. j - 1 \in i .. Len(m_pq) /\ (j - 1) + 1 = j
      BY <1>1, <2>3
    <3> QED
      BY <1>1, <2>3, <3>1
  <2> QED
    BY <1>1, <2>1, <2>2, <2>3
<1>3. m_pq' # <<>>
  BY <1>1, EmptySeq
<1>4. ASSUME NEW k PROVE Queued(k)' <=> Queued(k) \/ k = adding.k
  <2>1. ASSUME Queued(k)' PROVE Queued(k) \/ k = adding.k
    <3>1. PICK j \in 1 .. Len(m_pq') : m_pq'[j].k = k
      BY <2>1 DEF Queued
    <3> QED
      BY <1>1, <1>2, <3>1 DEF Queued
  <2>2. ASSUME Queued(k) PROVE Queued(k)'
    <3>1. PICK j \in 1 .. Len(m_pq) : m_pq[j].k = k
      BY <2>2 DEF Queued
    <3>2. CASE j < i
      <4>1. j \in 1 .. Len(m_pq') /\ m_pq'[j].k = k
        BY <1>1, <3>1, <3>2
      <4> QED
        BY <4>1 DEF Queued
    <3>3. CASE ~(j < i)
      <4>1. j + 1 \in 1 .. Len(m_pq') /\ m_pq'[j + 1].k = k
        BY <1>1, <3>1, <3>3
      <4> QED
        BY <4>1 DEF Queued
    <3> QED
      BY <3>2, <3>3
  <2>3. ASSUME k = adding.k PROVE Queued(k)'
    <3>1. i \in 1 .. Len(m_pq') /\ m_pq'[i].k = k
      BY <1>1, <2>3
    <3> QED
      BY <3>1 DEF Queued
  <2> QED
    BY <2>1, <2>2, <2>3
<1>5. ASSUME Distinct, ~Queued(adding.k) PROVE Distinct'
  <2>1. \A j \in 1 .. Len(m_pq) : m_pq[j].k # e.k
    BY <1>1, <1>5 DEF Queued
  <2> SUFFICES ASSUME NEW j \in 1 .. Len(m_pq'), NEW l \in 1 .. Len(m_pq'),
                      m_pq'[j].k = m_pq'[l].k
               PROVE  j = l
    BY DEF Distinct
  <2>2. CASE j = i \/ l = i
    BY <1>1, <1>2, <2>1, <2>2
  <2>3. CASE j # i /\ l # i
    <3> DEFINE a == IF j < i THEN j ELSE j - 1
               b == IF l < i THEN l ELSE l - 1
    <3>1. a \in 1 .. Len(m_pq) /\ b \in 1 .. Len(m_pq) /\ m_pq[a] = m_pq'[j] /\ m_pq[b] = m_pq'[l]
      BY <1>1, <1>2, <2>3
    <3>2. a = b
      BY <1>5, <3>1 DEF Distinct
    <3>3. i \in Nat /\ j \in Nat /\ l \in Nat
      BY <1>1
    <3> QED
      BY <2>3, <3>2, <3>3
  <2> QED
    BY <2>2, <2>3
<1> QED
  BY <1>3, <1>4, <1>5

(***************************************************************************)
(* A pop takes the first Kamikaze out.                                     *)
(***************************************************************************)
LEMMA QueuePop ==
    ASSUME TypeOK, m_pq # <<>>, Distinct, m_pq' = Tail(m_pq)
    PROVE  /\ Distinct'
           /\ \A k : Queued(k)' <=> Queued(k) /\ k # Head(m_pq).k
<1>1. /\ Len(m_pq) \in Nat /\ 1 \in 1 .. Len(m_pq) /\ Head(m_pq) = m_pq[1]
      /\ Len(m_pq') = Len(m_pq) - 1
      /\ \A i \in 1 .. Len(m_pq') : m_pq'[i] = m_pq[i + 1] /\ i + 1 \in 1 .. Len(m_pq)
  <2>1. \A i \in 1 .. Len(m_pq) - 1 : i + 1 \in 1 .. Len(m_pq)
    BY FirstEntry
  <2> QED
    BY <2>1, FirstEntry
<1>2. Distinct'
  <2> SUFFICES ASSUME NEW i \in 1 .. Len(m_pq'), NEW j \in 1 .. Len(m_pq'), m_pq'[i].k = m_pq'[j].k
               PROVE  i = j
    BY DEF Distinct
  <2>1. i + 1 = j + 1
    BY <1>1 DEF Distinct
  <2> QED
    BY <2>1
<1>3. ASSUME NEW k PROVE Queued(k)' <=> Queued(k) /\ k # Head(m_pq).k
  <2>1. ASSUME Queued(k)' PROVE Queued(k) /\ k # Head(m_pq).k
    <3>1. PICK i \in 1 .. Len(m_pq') : m_pq'[i].k = k
      BY <2>1 DEF Queued
    <3>2. i + 1 \in 1 .. Len(m_pq) /\ m_pq[i + 1].k = k /\ i + 1 # 1
      BY <1>1, <3>1
    <3>3. k # m_pq[1].k
      BY <1>1, <3>2 DEF Distinct
    <3> QED
      BY <1>1, <3>2, <3>3 DEF Queued
  <2>2. ASSUME Queued(k), k # Head(m_pq).k PROVE Queued(k)'
    <3>1. PICK i \in 1 .. Len(m_pq) : m_pq[i].k = k
      BY <2>2 DEF Queued
    <3>2. i - 1 \in 1 .. Len(m_pq') /\ m_pq'[i - 1].k = k
      <4>1. i # 1
        BY <1>1, <2>2, <3>1
      <4>2. i - 1 \in 1 .. Len(m_pq') /\ (i - 1) + 1 = i
        BY <1>1, <3>1, <4>1
      <4> QED
        BY <1>1, <3>1, <4>2
    <3> QED
      BY <3>2 DEF Queued
  <2> QED
    BY <2>1, <2>2
<1> QED
  BY <1>2, <1>3

(***************************************************************************)
(* A tick leaves the queue as it is and brings the deadlines nearer.       *)
(***************************************************************************)
LEMMA QueueTick ==
    ASSUME TypeOK, Tick
    PROVE  /\ Len(m_pq) \in Nat /\ Len(m_pq') = Len(m_pq)
           /\ m_pq' = <<>> <=> m_pq = <<>>
           /\ \A i \in 1 .. Len(m_pq) :
                 /\ m_pq[i] \in Entries
                 /\ m_pq'[i].k = m_pq[i].k /\ m_pq'[i].left = Less(m_pq[i].left)
<1>1. /\ m_pq \in Seq(Entries) /\ Len(m_pq) \in Nat /\ DOMAIN m_pq = 1 .. Len(m_pq)
      /\ \A i \in 1 .. Len(m_pq) : m_pq[i] \in Entries
  BY LenProperties, ElementOfSeq DEF TypeOK
<1>2. m_pq' = [i \in 1 .. Len(m_pq) |-> [m_pq[i] EXCEPT !.left = Less(@)]]
  BY <1>1 DEF Tick
<1>3. \A e \in Entries : [e EXCEPT !.left = Less(e.left)].k = e.k
                      /\ [e EXCEPT !.left = Less(e.left)].left = Less(e.left)
  BY DEF Entries
<1>4. \A i \in 1 .. Len(m_pq) : m_pq'[i].k = m_pq[i].k /\ m_pq'[i].left = Less(m_pq[i].left)
  BY <1>1, <1>2, <1>3
<1>5. Len(m_pq') = Len(m_pq)
  BY <1>1, <1>2
<1>6. m_pq' = <<>> <=> m_pq = <<>>
  BY <1>1, <1>2, <1>5, EmptySeq
<1> QED
  BY <1>1, <1>4, <1>5, <1>6

--------------------------------------------------------------------------------

(***************************************************************************)
(* A thread in Cycle that is not in m_func is the only one, and nobody     *)
(* adds; one in m_func may add.                                            *)
(***************************************************************************)
LEMMA Lonely ==
    ASSUME TypeOK, Alone, Steady, NEW t \in Threads, cycle[t] # NoCycle
    PROVE  /\ \A u \in Threads : u # t => cycle[u] = NoCycle
           /\ adding # NoAdd => adding.by = t /\ cycle[t].pc = "func" /\ cycle[t].k # adding.k
           /\ Place(t)
  BY Only, SchedulerAssumption DEF Steady, Adder, At, Place, Cycler, Live

(***************************************************************************)
(* A thread that is alone settles what Cycler says of all.                 *)
(***************************************************************************)
LEMMA Settle ==
    ASSUME NEW t \in Threads, \A u \in Threads : u # t => cycle'[u] = NoCycle, Place(t)'
    PROVE  Cycler'
  BY DEF Cycler, Live, Place

(***************************************************************************)
(* A thread that goes on keeps its entry.                                  *)
(***************************************************************************)
LEMMA GotoIs ==
    ASSUME TypeOK, NEW t \in Threads,
           NEW pc \in {"notify", "func", "step", "delete", "peek", "arm", "nsec", "settime"},
           cycle[t].pc \in {"pop", "notify", "func", "step", "delete", "test", "arm", "nsec"},
           Goto(t, pc)
    PROVE  /\ cycle[t] # NoCycle /\ cycle[t].k \in Kamikazes
           /\ cycle'[t] # NoCycle /\ cycle'[t].pc = pc /\ cycle'[t].k = cycle[t].k
           /\ cycle'[t].left = cycle[t].left
           /\ \A u \in Threads : u # t => cycle'[u] = cycle[u]
<1>1. cycle[t] \in Cycles /\ cycle \in [Threads -> Cycles]
  BY DEF TypeOK
<1>2. cycle' = [cycle EXCEPT ![t] = [cycle[t] EXCEPT !.pc = pc]]
  BY DEF Goto
<1>3. cycle'[t] = [cycle[t] EXCEPT !.pc = pc] /\ \A u \in Threads : u # t => cycle'[u] = cycle[u]
  BY <1>1, <1>2
<1> QED
  BY <1>1, <1>3 DEF Cycles, NoCycle

--------------------------------------------------------------------------------

(***************************************************************************)
(* A new Kamikaze is nowhere yet, and who makes it is a client or m_func.  *)
(***************************************************************************)
LEMMA AddIsSteady ==
    ASSUME TypeOK, TypeOK', O!TypeOK, Alone, Alone', Steady, NEW k \in Kamikazes,
           NEW milli \in Delays, NEW by \in Threads \union {"client"}, Add(k, milli, by)
    PROVE  Steady'
<1> USE DEF Queued, Distinct, Fresh
<1>1. /\ UNCHANGED <<m_pq, m_timer, cycle, disp, cursor>> /\ cbs' = cbs \union {k}
      /\ made' = made \union {k} /\ k \notin made /\ adding = NoAdd
      /\ adding' = [pc |-> "new", k |-> k, left |-> 0, milli |-> milli, by |-> by]
      /\ by # "client" => At(by, "func")
  BY ObserverCalls DEF Add
<1>2. adding' # NoAdd /\ adding'.pc = "new" /\ adding'.k = k /\ adding'.by = by
  BY <1>1 DEF NoAdd
<1>3. Lines'
  BY <1>1 DEF Lines, Steady
<1>4. by # "client" => cycle[by].k \in made /\ by \in Live
  BY <1>1 DEF Steady, Cycler, Place, Live, At
<1>5. Adder'
  BY <1>1, <1>2, <1>4 DEF Adder, Steady, Lines, At
<1>6. ASSUME NEW t \in Live' PROVE Place(t)'
  <2>1. t \in Live /\ Place(t)
    BY <1>1 DEF Live, Steady, Cycler, Place
  <2>2. by = t
    BY <1>1, <1>2, <1>6, SchedulerAssumption DEF Alone, Live
  <2>3. At(t, "func")
    BY <1>1, <2>1, <2>2, SchedulerAssumption DEF Live
  <2> QED
    BY <1>1, <2>1, <2>3 DEF Place, At
<1>7. Cycler'
  BY <1>6 DEF Cycler, Place
<1>8. Armed'
  BY <1>1 DEF Armed, Steady
<1>9. Owned'
  BY <1>1, <1>2 DEF Owned, Steady, Live
<1> QED
  BY <1>3, <1>5, <1>7, <1>8, <1>9 DEF Steady

(***************************************************************************)
(* Add beside the Cycle that called it touches only its own Kamikaze.      *)
(***************************************************************************)
LEMMA AddStepsAreSteady ==
    ASSUME TypeOK, TypeOK', O!TypeOK, Alone, Alone', Steady, AddSteps
    PROVE  Steady'
<1>0. /\ adding # NoAdd /\ adding.k \in Kamikazes /\ adding.pc # "none"
  BY DEF AddSteps, AddNew, AddPush, AddAsk, AddCompare, AddZero, AddArm, TypeOK, Adds, NoAdd
<1> DEFINE k == adding.k
<1>1. cycle' = cycle /\ Live' = Live /\ made' = made /\ cbs' = cbs
  BY <1>0, ObserverCalls
     DEF AddSteps, AddNew, AddPush, AddAsk, AddCompare, AddZero, AddArm, Live, observer
<1>2. ASSUME NEW t \in Live
      PROVE  cycle[t] # NoCycle /\ cycle[t].pc = "func" /\ cycle[t].k # k /\ Place(t)
  BY <1>0, <1>2, Lonely DEF Live
<1>a. ASSUME AddNew PROVE Steady'
  <2> USE DEF Queued, Distinct, Fresh
  <2>1. /\ UNCHANGED <<m_pq, m_timer, cursor>> /\ disp' = disp \union {k}
        /\ adding' # NoAdd /\ adding'.pc = "push" /\ adding'.k = k /\ adding'.by = adding.by
        /\ adding.pc = "new"
    BY <1>0, <1>a, ObserverCalls DEF AddNew, TypeOK, Adds, NoAdd
  <2>2. Lines'
    BY <1>0, <1>1, <2>1 DEF Lines, Adder, Steady
  <2>3. Adder'
    BY <1>0, <1>1, <2>1 DEF Adder, Steady, At
  <2>4. Cycler'
    BY <1>1, <1>2, <2>1 DEF Cycler, Place
  <2>5. Armed' /\ Owned'
    BY <1>0, <1>1, <2>1 DEF Armed, Owned, Steady
  <2> QED
    BY <2>2, <2>3, <2>4, <2>5 DEF Steady
<1>b. ASSUME AddPush PROVE Steady'
  <2>1. /\ m_timer' = m_timer /\ disp' = disp
        /\ \A j \in Kamikazes : cursor[j] = O!NoLoop => cursor'[j] = O!NoLoop
        /\ adding' # NoAdd /\ adding'.pc = "ask" /\ adding'.k = k /\ adding'.by = adding.by
        /\ adding.pc = "push"
    BY <1>0, <1>b, ObserverCalls DEF AddPush, TypeOK, Adds, NoAdd
  <2>2. ~Queued(k) /\ Distinct /\ Fresh(k) /\ k \in made
    BY <1>0, <2>1 DEF Steady, Adder, Lines
  <2>3. m_pq' # <<>> /\ Distinct' /\ \A j : Queued(j)' <=> Queued(j) \/ j = k
    BY <1>b, <2>2, QueuePush
  <2>4. Lines'
    BY <1>0, <1>1, <2>1, <2>2, <2>3 DEF Lines, Steady, Fresh
  <2>5. Adder'
    BY <1>0, <1>1, <2>1, <2>2, <2>3 DEF Adder, Steady, At
  <2>6. Cycler'
    BY <1>1, <1>2, <2>1, <2>3 DEF Cycler, Place
  <2>7. Armed' /\ Owned'
    BY <1>0, <1>1, <2>1, <2>3 DEF Armed, Owned, Steady
  <2> QED
    BY <2>4, <2>5, <2>6, <2>7 DEF Steady
<1>c. ASSUME AddAsk \/ AddCompare \/ AddZero \/ AddArm PROVE Steady'
  <2> USE DEF Queued, Distinct, Fresh
  <2>1. /\ UNCHANGED <<m_pq, disp, cursor>>
        /\ \/ adding' = NoAdd
           \/ /\ adding' # NoAdd /\ adding'.pc \in Queuing
              /\ adding'.k = k /\ adding'.by = adding.by
        /\ adding.pc \in Queuing
    <3>1. UNCHANGED <<m_pq, disp, cursor>> /\ adding.pc \in Queuing
      BY <1>c DEF AddAsk, AddCompare, AddZero, AddArm, observer
    <3>2. adding \in [pc : {"new", "push"} \union Queuing, k : Kamikazes, left : Nat,
                      milli : Nat, by : Threads \union {"client"}]
      BY <1>0 DEF TypeOK, Adds
    <3>3. \/ adding' = NoAdd
          \/ \E pc \in Queuing : adding' = [adding EXCEPT !.pc = pc]
      BY <1>c DEF AddAsk, AddCompare, AddZero, AddArm
    <3>4. ASSUME NEW pc \in Queuing, adding' = [adding EXCEPT !.pc = pc]
          PROVE  adding' # NoAdd /\ adding'.pc = pc /\ adding'.k = k /\ adding'.by = adding.by
      BY <3>2, <3>4 DEF NoAdd
    <3> QED
      BY <3>1, <3>3, <3>4
  <2>2. Queued(k)
    BY <1>0, <2>1 DEF Adder, Steady
  <2>3. m_pq # <<>>
    BY <2>2, EmptySeq DEF TypeOK
  <2>4. Lines' /\ Adder'
    BY <1>0, <1>1, <2>1, <2>2 DEF Lines, Adder, Steady, At
  <2>5. Cycler'
    BY <1>1, <1>2, <2>1 DEF Cycler, Place
  <2>6. Armed' /\ Owned'
    BY <1>0, <1>1, <2>1, <2>2, <2>3 DEF Armed, Owned, Steady
  <2> QED
    BY <2>4, <2>5, <2>6 DEF Steady
<1> QED
  BY <1>a, <1>b, <1>c DEF AddSteps

(***************************************************************************)
(* An expiry finds the entry the timer was armed for.                      *)
(***************************************************************************)
LEMMA ExpireIsSteady ==
    ASSUME TypeOK, TypeOK', Alone, Alone', Steady, NEW t \in Threads, Expire(t)
    PROVE  Steady'
<1> USE DEF Queued, Distinct, Fresh
<1>1. /\ UNCHANGED <<m_pq, disp, cbs, cursor, made, adding>> /\ m_timer' = Off
      /\ cycle'[t] # NoCycle /\ cycle'[t].pc = "top" /\ cycle[t] = NoCycle
      /\ \A u \in Threads : u # t => cycle'[u] = cycle[u]
  BY DEF Expire, observer, TypeOK, NoCycle
<1>2. m_pq # <<>>
  BY SchedulerAssumption DEF Expire, Steady, Armed
<1>3. \A u \in Threads : u # t => cycle'[u] = NoCycle
  BY <1>1 DEF Alone, Live
<1>4. adding = NoAdd
  <2>1. adding # NoAdd => adding.by = t
    BY <1>1, <1>3 DEF Alone, Live
  <2> QED
    BY <1>1, <2>1, SchedulerAssumption DEF Steady, Adder, At
<1>5. Lines' /\ Adder' /\ Armed'
  BY <1>1, <1>2, <1>4 DEF Steady, Lines, Adder, Armed
<1>6. Cycler'
  <2>1. Place(t)'
    BY <1>1, <1>2 DEF Place
  <2> QED
    BY <1>3, <2>1, Settle
<1>7. Owned'
  BY <1>1, <1>3, <1>4 DEF Owned, Steady, Live
<1> QED
  BY <1>5, <1>6, <1>7 DEF Steady

(***************************************************************************)
(* The entry that is copied stays first until it is popped.                *)
(***************************************************************************)
LEMMA TopIsSteady ==
    ASSUME TypeOK, TypeOK', Alone, Steady, NEW t \in Threads, CycleTop(t)
    PROVE  Steady'
<1> USE DEF Queued, Distinct, Fresh
<1>0. cycle[t] # NoCycle /\ cycle[t].pc = "top"
  BY DEF CycleTop, At
<1>1. /\ UNCHANGED <<m_pq, disp, cbs, cursor, made, adding, m_timer>>
      /\ cycle'[t] # NoCycle /\ cycle'[t].pc = "pop" /\ cycle'[t].k = Head(m_pq).k
      /\ \A u \in Threads : u # t => cycle'[u] = cycle[u]
  BY DEF CycleTop, observer, TypeOK, NoCycle
<1>2. adding = NoAdd /\ Place(t) /\ \A u \in Threads : u # t => cycle'[u] = NoCycle
  BY <1>0, <1>1, Lonely
<1>3. Lines' /\ Adder' /\ Armed'
  BY <1>1, <1>2 DEF Steady, Lines, Adder, Armed
<1>4. Cycler'
  <2>1. Place(t)'
    BY <1>0, <1>1, <1>2 DEF Place
  <2> QED
    BY <1>2, <2>1, Settle
<1>5. Owned'
  BY <1>0, <1>1, <1>2 DEF Owned, Steady, Live
<1> QED
  BY <1>3, <1>4, <1>5 DEF Steady

(***************************************************************************)
(* The entry that is popped is the one that was copied.                    *)
(***************************************************************************)
LEMMA PopIsSteady ==
    ASSUME TypeOK, TypeOK', Alone, Steady, NEW t \in Threads, CyclePop(t)
    PROVE  Steady'
<1> DEFINE k == cycle[t].k
<1>0. cycle[t] # NoCycle /\ cycle[t].pc = "pop" /\ m_pq # <<>> /\ m_pq' = Tail(m_pq)
  BY DEF CyclePop, At
<1>1. /\ UNCHANGED <<disp, cbs, cursor, made, adding, m_timer>>
      /\ cycle'[t] # NoCycle /\ cycle'[t].pc = "notify" /\ cycle'[t].k = k /\ k \in Kamikazes
      /\ \A u \in Threads : u # t => cycle'[u] = cycle[u]
  BY <1>0, GotoIs DEF CyclePop, observer
<1>2. /\ adding = NoAdd /\ \A u \in Threads : u # t => cycle[u] = NoCycle
      /\ m_timer = Off /\ k = Head(m_pq).k
  BY <1>0, Lonely DEF Place
<1>3. Distinct' /\ \A j : Queued(j)' <=> Queued(j) /\ j # k
  BY <1>0, <1>2, QueuePop DEF Steady, Lines
<1>4. Queued(k)
  BY <1>0, <1>2, FirstEntry DEF Queued
<1>5. Fresh(k) /\ k \in made
  BY <1>1, <1>4 DEF Steady, Lines
<1>6. Lines'
  BY <1>1, <1>3 DEF Steady, Lines, Fresh
<1>7. Adder' /\ Armed'
  BY <1>1, <1>2 DEF Adder, Armed
<1>8. Cycler'
  <2>1. Place(t)'
    BY <1>1, <1>3, <1>5 DEF Place, Fresh
  <2> QED
    BY <1>1, <1>2, <2>1, Settle
<1>9. Owned'
  BY <1>0, <1>1, <1>2, <1>3 DEF Owned, Steady, Live
<1> QED
  BY <1>6, <1>7, <1>8, <1>9 DEF Steady

(***************************************************************************)
(* The steps of a thread with an entry of its own, which change nothing    *)
(* but that entry's dispatcher, callback and loop.                         *)
(***************************************************************************)
LEMMA OwnIsSteady ==
    ASSUME TypeOK, TypeOK', O!TypeOK, Alone, Steady, ~freed', NEW t \in Threads,
           CycleNotify(t) \/ OnEvent(t) \/ CycleStep(t) \/ CycleDelete(t)
    PROVE  Steady' /\ gone' = gone
<1> USE DEF Queued, Distinct
<1> DEFINE k == cycle[t].k
<1>0. cycle[t] # NoCycle /\ cycle[t].pc \in {"notify", "func", "step", "delete"}
  BY DEF CycleNotify, OnEvent, CycleStep, CycleDelete, At
<1>1. adding = NoAdd /\ Place(t) /\ \A u \in Threads : u # t => cycle[u] = NoCycle
  BY <1>0, Lonely DEF OnEvent, CycleNotify, CycleStep, CycleDelete, At
<1>2. k \in made /\ ~Queued(k) /\ (cycle[t].pc = "notify" => Fresh(k))
  BY <1>0, <1>1 DEF Place
<1>3. PICK pc \in {"func", "step", "delete", "peek"} : Goto(t, pc)
        /\ UNCHANGED <<made, m_pq, m_timer, adding, gone>>
        /\ \/ cycle[t].pc = "notify" /\ pc = "func" /\ O!NotifyAll(k)
           \/ cycle[t].pc = "func" /\ pc = "step" /\ O!DestroyCallback(k)
           \/ cycle[t].pc = "step" /\ pc = "delete" /\ O!StepFreed(k)
           \/ cycle[t].pc = "delete" /\ pc = "peek" /\ O!DestroyDispatcher(k)
  <2>1. CASE CycleNotify(t)
    BY <1>2, <2>1 DEF CycleNotify, Fresh, At
  <2>2. CASE OnEvent(t)
    BY <2>2 DEF OnEvent, At
  <2>3. CASE CycleStep(t)
    BY <2>3 DEF CycleStep, At
  <2>4. CASE CycleDelete(t)
    BY <2>4 DEF CycleDelete, At
  <2> QED
    BY <2>1, <2>2, <2>3, <2>4
<1>4. /\ cycle'[t] # NoCycle /\ cycle'[t].pc = pc /\ cycle'[t].k = k /\ k \in Kamikazes
      /\ \A u \in Threads : u # t => cycle'[u] = NoCycle
  BY <1>0, <1>1, <1>3, GotoIs
<1>5. /\ disp' \in {disp, disp \ {k}} /\ cbs' \in {cbs, cbs \ {k}}
      /\ pc = "peek" => disp' = disp \ {k} /\ cbs' = cbs
      /\ pc = "step" => cbs' = cbs \ {k}
      /\ pc \in {"func", "step", "delete"} => disp' = disp
      /\ \A j \in Kamikazes \ {k} : cursor[j] = O!NoLoop => cursor'[j] = O!NoLoop
  BY <1>3, <1>4, ObserverCalls
<1>6. Lines'
  BY <1>2, <1>3, <1>4, <1>5 DEF Steady, Lines, Fresh
<1>7. Adder' /\ Armed'
  BY <1>1, <1>3 DEF Adder, Armed, Steady
<1>8. Cycler'
  <2>1. Place(t)'
    BY <1>0, <1>1, <1>2, <1>3, <1>4, <1>5 DEF Place
  <2> QED
    BY <1>4, <2>1, Settle
<1>9. Owned'
  BY <1>0, <1>1, <1>3, <1>4, <1>5 DEF Owned, Steady, Live
<1> QED
  BY <1>3, <1>6, <1>7, <1>8, <1>9 DEF Steady

(***************************************************************************)
(* A Cycle that has deleted its entry only looks for the next one.         *)
(***************************************************************************)
LEMMA RestIsSteady ==
    ASSUME TypeOK, TypeOK', Alone, Steady, NEW t \in Threads,
           CyclePeek(t) \/ CycleTest(t) \/ CycleArm(t)
    PROVE  Steady'
<1> USE DEF Queued, Distinct, Fresh
<1> DEFINE k == cycle[t].k
<1>0. cycle[t] # NoCycle /\ cycle[t].pc \in {"peek", "test"} \union Arming
  BY DEF CyclePeek, CycleTest, CycleArm, At
<1>1. adding = NoAdd /\ Place(t) /\ \A u \in Threads : u # t => cycle[u] = NoCycle
  BY <1>0, Lonely
<1>2. k \notin cbs /\ k \notin disp
  BY <1>0, <1>1 DEF Place
<1>3. UNCHANGED <<m_pq, disp, cbs, cursor, made, adding>>
  BY DEF CyclePeek, CycleTest, CycleArm, observer
<1>4. \A u \in Threads : u # t => cycle'[u] = NoCycle
  <2>1. \A u \in Threads : u # t => cycle'[u] = cycle[u]
    BY DEF CyclePeek, CycleTest, CycleArm, Goto, TypeOK
  <2> QED
    BY <1>1, <2>1
<1>5. m_timer' = m_timer \/ m_pq # <<>>
  BY <1>0, <1>1 DEF CyclePeek, CycleTest, CycleArm, At, Place
<1>6. \/ cycle'[t] = NoCycle
      \/ cycle'[t].pc = "test" /\ cycle'[t].k = k
      \/ cycle'[t].pc \in Arming /\ cycle'[t].k = k /\ m_pq # <<>>
  <2>1. CASE CyclePeek(t)
    BY <2>1 DEF CyclePeek, TypeOK
  <2>2. CASE CycleTest(t)
    BY <1>0, <2>2, GotoIs DEF CycleTest, TypeOK, At
  <2>3. CASE CycleArm(t)
    <3>1. CASE cycle' = [cycle EXCEPT ![t] = NoCycle]
      BY <3>1 DEF TypeOK
    <3>2. ASSUME NEW pc \in {"nsec", "settime"}, cycle[t].pc \in {"arm", "nsec"}, Goto(t, pc)
          PROVE  cycle'[t].pc \in Arming /\ cycle'[t].k = k
      BY <3>2, GotoIs
    <3>3. m_pq # <<>>
      BY <1>1, <2>3 DEF CycleArm, At, Place
    <3> QED
      BY <2>3, <3>1, <3>2, <3>3 DEF CycleArm, At
  <2> QED
    BY <2>1, <2>2, <2>3
<1>7. Lines' /\ Adder' /\ Armed'
  BY <1>1, <1>3, <1>5 DEF Steady, Lines, Adder, Armed
<1>8. Cycler'
  <2>1. CASE cycle'[t] = NoCycle
    BY <1>4, <2>1 DEF Cycler, Place, Live
  <2>2. CASE cycle'[t].pc \in {"test"} \union Arming
    <3>1. Place(t)'
      BY <1>2, <1>3, <1>6, <2>2 DEF Place, NoCycle
    <3> QED
      BY <1>4, <3>1, Settle
  <2> QED
    BY <1>6, <2>1, <2>2
<1>9. Owned'
  BY <1>1, <1>2, <1>3 DEF Owned, Steady, Live
<1> QED
  BY <1>7, <1>8, <1>9 DEF Steady

(***************************************************************************)
(* Time changes nothing but the deadlines.                                 *)
(***************************************************************************)
LEMMA TickIsSteady ==
    ASSUME TypeOK, TypeOK', Steady, Tick
    PROVE  Steady'
<1>1. UNCHANGED <<disp, cbs, cursor, made>>
  BY DEF Tick, observer
<1>2. /\ m_pq' = <<>> <=> m_pq = <<>>
      /\ Len(m_pq') = Len(m_pq) /\ \A i \in 1 .. Len(m_pq) : m_pq'[i].k = m_pq[i].k
  BY QueueTick
<1>3. (\A j : Queued(j)' <=> Queued(j)) /\ (Distinct => Distinct')
  BY <1>2 DEF Queued, Distinct
<1>4. /\ adding' = NoAdd <=> adding = NoAdd
      /\ adding # NoAdd => adding'.pc = adding.pc /\ adding'.k = adding.k /\ adding'.by = adding.by
  BY DEF Tick, TypeOK, Adds, NoAdd
<1>5. \A t \in Threads :
        /\ cycle'[t] = NoCycle <=> cycle[t] = NoCycle
        /\ cycle[t] # NoCycle => cycle'[t].pc = cycle[t].pc
                              /\ (cycle[t].pc # "top" => cycle'[t].k = cycle[t].k)
  BY DEF Tick, TypeOK, Cycles, NoCycle
<1>6. m_timer = Off <=> m_timer' = Off
  BY SchedulerAssumption DEF Tick, TypeOK
<1>7. m_pq # <<>> => Head(m_pq') = m_pq'[1] /\ Head(m_pq).k = m_pq'[1].k
  <2>1. ASSUME m_pq # <<>> PROVE Head(m_pq) = m_pq[1] /\ 1 \in 1 .. Len(m_pq)
    BY <2>1, FirstEntry
  <2>2. ASSUME m_pq # <<>> PROVE Head(m_pq') = m_pq'[1]
    <3>1. m_pq' \in Seq(Entries) /\ m_pq' # <<>>
      BY <1>2, <2>2 DEF TypeOK
    <3> QED
      BY <3>1, HeadTailProperties
  <2> QED
    BY <1>2, <2>1, <2>2
<1>8. Lines'
  BY <1>1, <1>3 DEF Steady, Lines, Fresh
<1>9. Adder'
  BY <1>1, <1>3, <1>4, <1>5, SchedulerAssumption DEF Steady, Adder, Fresh, At, TypeOK, Adds
<1>10. Cycler' /\ Armed'
  BY <1>1, <1>2, <1>3, <1>5, <1>6, <1>7 DEF Steady, Cycler, Place, Armed, Live, Fresh
<1>11. Owned'
  BY <1>1, <1>3, <1>4, <1>5 DEF Owned, Steady, Live
<1> QED
  BY <1>8, <1>9, <1>10, <1>11 DEF Steady

(***************************************************************************)
(* Nobody meets anybody in the queue.                                      *)
(***************************************************************************)
LEMMA NoRace ==
    ASSUME TypeOK, Alone, Steady
    PROVE  ~DataRace
<1> DEFINE In == {t \in Live : cycle[t].pc \in {"top", "pop", "peek", "test"}}
<1>1. CASE In = {}
  <2>1. Cardinality(In) = 0
    BY <1>1, FS_EmptySet
  <2> QED
    BY <2>1 DEF DataRace
<1>2. ASSUME NEW t \in In PROVE ~DataRace
  <2>1. adding.pc # "push"
    BY <1>2, Lonely DEF Live, NoAdd
  <2>2. In = {t}
    BY <1>2 DEF Alone
  <2>3. Cardinality(In) = 1
    BY <2>2, FS_Singleton
  <2> QED
    BY <2>1, <2>3 DEF DataRace
<1> QED
  BY <1>1, <1>2

(***************************************************************************)
(* Every step without an overlap keeps the bookkeeping in order.           *)
(***************************************************************************)
LEMMA SteadyStep ==
    ASSUME TypeOK, TypeOK', O!TypeOK, Alone, Alone', Steady, ~gone, ~freed', Running
    PROVE  Steady' /\ ~gone'
<1>1. ASSUME NEW k \in Kamikazes, NEW milli \in Delays, NEW by \in Threads \union {"client"},
             Add(k, milli, by)
      PROVE  Steady' /\ ~gone'
  BY <1>1, AddIsSteady DEF Add
<1>2. ASSUME AddSteps PROVE Steady' /\ ~gone'
  BY <1>2, AddStepsAreSteady DEF AddSteps, AddNew, AddPush, AddAsk, AddCompare, AddZero, AddArm
<1>3. ASSUME NEW t \in Threads, Expire(t) PROVE Steady' /\ ~gone'
  BY <1>3, ExpireIsSteady DEF Expire
<1>4. ASSUME NEW t \in Threads, CycleSteps(t) PROVE Steady' /\ ~gone'
  <2>1. ~Lost(t)
    BY Lonely DEF Lost, At, Place
  <2>2. ASSUME CycleTop(t) PROVE Steady' /\ ~gone'
    BY <2>2, TopIsSteady DEF CycleTop
  <2>3. ASSUME CyclePop(t) PROVE Steady' /\ ~gone'
    BY <2>3, PopIsSteady DEF CyclePop
  <2>4. ASSUME CycleNotify(t) \/ OnEvent(t) \/ CycleStep(t) \/ CycleDelete(t)
        PROVE  Steady' /\ ~gone'
    BY <2>4, OwnIsSteady
  <2>5. ASSUME CyclePeek(t) \/ CycleTest(t) \/ CycleArm(t) PROVE Steady' /\ ~gone'
    BY <2>5, RestIsSteady DEF CyclePeek, CycleTest, CycleArm
  <2> QED
    BY <1>4, <2>1, <2>2, <2>3, <2>4, <2>5 DEF CycleSteps
<1>5. ASSUME Tick PROVE Steady' /\ ~gone'
  BY <1>5, TickIsSteady DEF Tick
<1> QED
  BY <1>1, <1>2, <1>3, <1>4, <1>5, NoRace DEF Running

(***************************************************************************)
(* Every step uses the dispatchers and callbacks as Observer allows.       *)
(***************************************************************************)
LEMMA UsesObserver == TypeOK /\ [Next]_vars => [O!Next]_(O!vars)
<1> SUFFICES ASSUME TypeOK, [Next]_vars PROVE [O!Next]_(O!vars)
  OBVIOUS
<1>1. (UNCHANGED observer) => UNCHANGED O!vars
  BY DEF observer, O!vars, O!lists
<1>2. ASSUME NEW k \in Kamikazes,
             \/ O!NewCallback(k) \/ O!NewDispatcher(k) \/ O!Attach(k, k) \/ O!NotifyAll(k)
             \/ O!StepFreed(k) \/ O!DestroyCallback(k) \/ O!DestroyDispatcher(k)
      PROVE  O!Next
  BY <1>2, Zenon DEF O!Next
<1>3. ASSUME NEW t \in Threads, cycle[t] # NoCycle, cycle[t].pc # "top"
      PROVE  cycle[t].k \in Kamikazes
  BY <1>3 DEF TypeOK, Cycles, NoCycle
<1>4. ASSUME adding # NoAdd PROVE adding.k \in Kamikazes
  BY <1>4 DEF TypeOK, Adds
<1>5. ASSUME NEW t \in Threads, CycleSteps(t) PROVE [O!Next]_(O!vars)
  BY <1>1, <1>2, <1>3, <1>5
     DEF CycleSteps, Lost, CycleTop, CyclePop, CycleNotify, OnEvent, CycleStep, CycleDelete,
         CyclePeek, CycleTest, CycleArm, At
<1>6. ASSUME AddSteps PROVE [O!Next]_(O!vars)
  BY <1>1, <1>2, <1>4, <1>6
     DEF AddSteps, AddNew, AddPush, AddAsk, AddCompare, AddZero, AddArm, NoAdd
<1>7. CASE UNCHANGED vars
  BY <1>1, <1>7 DEF vars
<1> QED
  BY <1>1, <1>2, <1>5, <1>6, <1>7 DEF Next, Run, Running, Add, Expire, DataRace, Tick

--------------------------------------------------------------------------------

(***************************************************************************)
(* Nobody is early: the timer expires less than a millisecond before the   *)
(* first deadline, and an entry that was taken is that close to its own.   *)
(***************************************************************************)
First == m_pq[1].left

TimerDue == m_timer # Off => First < m_timer + TicksPerMilli

\* How much of its own time a call of Arm has written to itime.
Written(pc, milli) ==
    /\ pc \in {"nsec", "settime"} => itime.sec = Itime(milli).sec
    /\ pc = "settime" => itime.nsec = Itime(milli).nsec

AddDue ==
    adding # NoAdd =>
      /\ adding.left <= adding.milli * TicksPerMilli
      /\ adding.pc \in Queuing => First <= adding.left
      /\ Written(adding.pc, adding.milli)

Due(t) ==
    /\ cycle[t].pc = "top" => First < TicksPerMilli
    /\ cycle[t].pc \in {"pop", "notify", "func"} => cycle[t].left < TicksPerMilli
    /\ cycle[t].pc \in {"test"} \union Arming /\ m_pq # <<>> => First <= cycle[t].left
    /\ cycle[t].pc \in Arming => Written(cycle[t].pc, cycle[t].left \div TicksPerMilli)

Timed ==
    /\ InOrder(m_pq)
    /\ TimerDue
    /\ AddDue
    /\ \A t \in Live : Due(t)

(***************************************************************************)
(* A call of Arm that wrote both fields itself sets the timer to its time. *)
(***************************************************************************)
LEMMA ArmSets ==
    ASSUME TypeOK, NEW milli \in Nat, Written("settime", milli), ArmTimer(milli)
    PROVE  m_timer' = milli * TicksPerMilli
<1>1. Itime(milli) \in [sec : Nat, nsec : Nat \union {Nano}]
  BY ArmArms
<1>2. itime = Itime(milli)
  BY <1>1 DEF Written, TypeOK
<1> QED
  BY <1>2, ArmArms DEF ArmTimer

(***************************************************************************)
(* A call of Arm that writes a field has then written it.                  *)
(***************************************************************************)
LEMMA ArmWrites ==
    ASSUME TypeOK, NEW milli \in Nat
    PROVE  /\ ArmSec(milli) => m_timer' = m_timer /\ itime'.sec = Itime(milli).sec
           /\ ArmNsec(milli) => /\ m_timer' = m_timer /\ itime'.sec = itime.sec
                               /\ itime'.nsec = Itime(milli).nsec
BY DEF ArmSec, ArmNsec, TypeOK

(***************************************************************************)
(* Ticks cut to whole milliseconds lose less than a millisecond.           *)
(***************************************************************************)
LEMMA CutMillis ==
    ASSUME NEW left \in Nat
    PROVE  /\ (left \div TicksPerMilli) * TicksPerMilli \in Nat
           /\ left < (left \div TicksPerMilli) * TicksPerMilli + TicksPerMilli
<1>1. ASSUME NEW n \in Nat \ {0}
      PROVE  (left \div n) * n \in Nat /\ left < (left \div n) * n + n
  OBVIOUS
<1> QED
  BY <1>1, SchedulerAssumption

(***************************************************************************)
(* The first deadline is a number of ticks.                                *)
(***************************************************************************)
LEMMA FirstIsTime ==
    ASSUME TypeOK, m_pq # <<>>
    PROVE  First \in Nat /\ First = Head(m_pq).left
  BY FirstEntry DEF First, Entries

(***************************************************************************)
(* Milliseconds are whole ticks.                                           *)
(***************************************************************************)
LEMMA ProductOfNat == ASSUME NEW milli \in Nat PROVE milli * TicksPerMilli \in Nat
  BY SchedulerAssumption

(***************************************************************************)
(* A new call of Add has no deadline yet.                                  *)
(***************************************************************************)
LEMMA AddIsTimed ==
    ASSUME TypeOK, TypeOK', Alone, Steady, Timed, NEW k \in Kamikazes,
           NEW milli \in Delays, NEW by \in Threads \union {"client"}, Add(k, milli, by)
    PROVE  Timed'
<1>1. /\ UNCHANGED <<m_pq, m_timer, cycle>>
      /\ adding' = [pc |-> "new", k |-> k, left |-> 0, milli |-> milli, by |-> by]
      /\ itime' = itime
  BY DEF Add
<1>2. milli * TicksPerMilli \in Nat
  BY ProductOfNat, SchedulerAssumption
<1> QED
  BY <1>1, <1>2 DEF Timed, InOrder, First, TimerDue, AddDue, Due, Live, Written

(***************************************************************************)
(* Add puts its entry where its deadline belongs, and arms the timer for   *)
(* its delay, which is no earlier than the first deadline.                 *)
(***************************************************************************)
LEMMA AddStepsAreTimed ==
    ASSUME TypeOK, TypeOK', Alone, Steady, Timed, AddSteps
    PROVE  Timed'
<1> USE DEF First
<1>0. /\ adding # NoAdd
      /\ adding \in [pc : {"new", "push"} \union Queuing, k : Kamikazes, left : Nat,
                     milli : Nat, by : Threads \union {"client"}]
  BY DEF AddSteps, AddNew, AddPush, AddAsk, AddCompare, AddZero, AddArm, TypeOK, Adds, NoAdd
<1>1. cycle' = cycle /\ Live' = Live
  BY DEF AddSteps, AddNew, AddPush, AddAsk, AddCompare, AddZero, AddArm, Live
<1>2. ASSUME NEW t \in Live
      PROVE  cycle[t].pc = "func" /\ cycle[t].left < TicksPerMilli
  BY <1>0, <1>2, Lonely DEF Live, Timed, Due
<1>3. (\A t \in Live : Due(t))'
  BY <1>1, <1>2 DEF Due
<1>4. adding.milli * TicksPerMilli \in Nat
  BY <1>0, ProductOfNat
<1>5. AddDue
  BY DEF Timed
<1>a. ASSUME AddNew PROVE Timed'
  <2>1. UNCHANGED <<m_pq, m_timer>>
    BY <1>a DEF AddNew
  <2>2. adding' = [adding EXCEPT !.pc = "push", !.left = adding.milli * TicksPerMilli]
    BY <1>a DEF AddNew
  <2>3. AddDue'
    BY <1>0, <1>4, <2>2 DEF AddDue, Written
  <2> QED
    BY <1>3, <2>1, <2>3 DEF Timed, InOrder, TimerDue
<1>b. ASSUME AddPush PROVE Timed'
  <2>1. adding' = [adding EXCEPT !.pc = "ask"] /\ m_timer' = m_timer /\ InOrder(m_pq')
    BY <1>b DEF AddPush
  <2>2. PICK i \in 1 .. Len(m_pq) + 1, e \in Entries :
          /\ e.left = adding.left
          /\ m_pq' \in Seq(Entries) /\ Len(m_pq) \in Nat /\ Len(m_pq') = Len(m_pq) + 1
          /\ m_pq'[i] = e
          /\ \A j \in 1 .. i - 1 : m_pq'[j] = m_pq[j]
          /\ \A j \in i .. Len(m_pq) : m_pq'[j + 1] = m_pq[j]
    BY <1>b, Pushed
  <2>3. DOMAIN m_pq' = 1 .. Len(m_pq') /\ \A j \in 1 .. Len(m_pq') : m_pq'[j] \in Entries
    BY <2>2, LenProperties, ElementOfSeq
  <2>4. First' \in Nat /\ First' <= adding.left
    <3>1. CASE i = 1
      BY <1>0, <2>2, <3>1
    <3>2. CASE i # 1
      <4>1. 1 \in DOMAIN m_pq' /\ i \in DOMAIN m_pq' /\ 1 < i
        BY <2>2, <2>3, <3>2
      <4>2. m_pq'[1].left <= m_pq'[i].left
        BY <2>1, <4>1 DEF InOrder
      <4> QED
        BY <2>2, <2>3, <4>1, <4>2 DEF Entries
    <3> QED
      BY <3>1, <3>2
  <2>5. ASSUME m_pq # <<>> PROVE First' <= First /\ First \in Nat
    <3>1. Len(m_pq) \in Nat \ {0} /\ First \in Nat
      BY <2>5, EmptySeq, FirstIsTime DEF TypeOK
    <3>2. CASE i = 1
      <4>1. 1 \in DOMAIN m_pq' /\ 2 \in DOMAIN m_pq' /\ m_pq'[2] = m_pq[1]
        <5>1. 1 \in i .. Len(m_pq)
          BY <3>1, <3>2
        <5>2. m_pq'[1 + 1] = m_pq[1]
          BY <2>2, <5>1
        <5> QED
          BY <2>2, <2>3, <3>1, <5>2
      <4>2. m_pq'[1].left <= m_pq'[2].left
        BY <2>1, <4>1 DEF InOrder
      <4> QED
        BY <3>1, <4>1, <4>2
    <3>3. CASE i # 1
      <4>1. 1 \in 1 .. i - 1
        BY <2>2, <3>3
      <4> QED
        BY <2>2, <3>1, <4>1
    <3> QED
      BY <3>2, <3>3
  <2>6. TimerDue'
    <3> SUFFICES ASSUME m_timer # Off PROVE First' < m_timer + TicksPerMilli
      BY <2>1 DEF TimerDue
    <3>1. m_pq # <<>> /\ m_timer \in Nat /\ First < m_timer + TicksPerMilli
      BY DEF Steady, Armed, Timed, TimerDue, TypeOK
    <3> QED
      BY <2>4, <2>5, <3>1, SchedulerAssumption
  <2>7. AddDue'
    BY <1>0, <1>5, <2>1, <2>4 DEF AddDue, Written
  <2> QED
    BY <1>3, <2>1, <2>6, <2>7 DEF Timed
<1>c. ASSUME AddAsk \/ AddCompare \/ AddZero PROVE Timed'
  <2>1. UNCHANGED <<m_pq, m_timer>> /\ adding.pc \in Queuing
    BY <1>c DEF AddAsk, AddCompare, AddZero
  <2>2. \/ adding' = NoAdd
        \/ \E pc \in Queuing \ {"nsec", "settime"} : adding' = [adding EXCEPT !.pc = pc]
    BY <1>c DEF AddAsk, AddCompare, AddZero
  <2>3. AddDue'
    BY <1>0, <1>5, <2>1, <2>2 DEF AddDue, Written
  <2> QED
    BY <1>3, <2>1, <2>3 DEF Timed, InOrder, TimerDue
<1>d. ASSUME AddArm PROVE Timed'
  <2>0. adding.milli \in Nat /\ m_pq' = m_pq /\ adding.pc \in {"arm", "nsec", "settime"}
    BY <1>0, <1>d DEF AddArm
  <2>1. CASE adding.pc = "arm"
    <3>1. /\ adding' = [adding EXCEPT !.pc = "nsec"] /\ m_timer' = m_timer
          /\ itime'.sec = Itime(adding.milli).sec
      BY <1>d, <2>0, <2>1, ArmWrites DEF AddArm
    <3>2. AddDue'
      BY <1>0, <1>5, <2>0, <2>1, <3>1 DEF AddDue, Written, Itime
    <3> QED
      BY <1>3, <2>0, <3>1, <3>2 DEF Timed, InOrder, TimerDue
  <2>2. CASE adding.pc = "nsec"
    <3>1. /\ adding' = [adding EXCEPT !.pc = "settime"] /\ m_timer' = m_timer
          /\ itime'.sec = itime.sec /\ itime'.nsec = Itime(adding.milli).nsec
      BY <1>d, <2>0, <2>2, ArmWrites DEF AddArm
    <3>2. AddDue'
      BY <1>0, <1>5, <2>0, <2>2, <3>1 DEF AddDue, Written, Itime
    <3> QED
      BY <1>3, <2>0, <3>1, <3>2 DEF Timed, InOrder, TimerDue
  <2>3. CASE adding.pc = "settime"
    <3>1. /\ adding' = NoAdd /\ m_timer' = adding.milli * TicksPerMilli
      BY <1>0, <1>5, <1>d, <2>0, <2>3, ArmSets DEF AddArm, AddDue
    <3>2. m_pq # <<>>
      <4>1. Queued(adding.k)
        BY <1>0, <2>3 DEF Steady, Adder
      <4> QED
        BY <4>1, EmptySeq DEF Queued, TypeOK
    <3>3. First \in Nat /\ First <= adding.left /\ adding.left <= adding.milli * TicksPerMilli
      BY <1>0, <1>5, <2>3, <3>2, FirstIsTime DEF AddDue
    <3>4. TimerDue'
      BY <1>0, <1>4, <2>0, <3>1, <3>3, SchedulerAssumption DEF TimerDue
    <3> QED
      BY <1>3, <2>0, <3>1, <3>4 DEF Timed, InOrder, AddDue
  <2> QED
    BY <2>0, <2>1, <2>2, <2>3
<1> QED
  BY <1>a, <1>b, <1>c, <1>d DEF AddSteps

(***************************************************************************)
(* A Cycle takes the first entry when its millisecond has come and arms    *)
(* the timer for the next.                                                 *)
(***************************************************************************)
LEMMA CyclesAreTimed ==
    ASSUME TypeOK, TypeOK', Alone, Alone', Steady, Timed, ~freed', NEW t \in Threads,
           Expire(t) \/ CycleSteps(t)
    PROVE  Timed'
<1> SUFFICES /\ InOrder(m_pq)' /\ TimerDue' /\ AddDue' /\ Due(t)'
             /\ \A u \in Threads : u # t => cycle'[u] = NoCycle
  BY DEF Timed, Live
<1> USE DEF First
<1>1. ASSUME Expire(t)
      PROVE  /\ InOrder(m_pq)' /\ TimerDue' /\ AddDue' /\ Due(t)'
             /\ \A u \in Threads : u # t => cycle'[u] = NoCycle
  <2>1. /\ UNCHANGED <<m_pq, itime, adding>> /\ m_timer = 0 /\ m_timer' = Off
        /\ cycle' = [cycle EXCEPT ![t] = [pc |-> "top"]]
    BY <1>1 DEF Expire
  <2>2. cycle'[t] = [pc |-> "top"] /\ t \in Live'
    BY <2>1 DEF TypeOK, Live, NoCycle
  <2>3. First < TicksPerMilli
    BY <2>1, SchedulerAssumption DEF Timed, TimerDue
  <2>4. Due(t)'
    BY <2>1, <2>2, <2>3 DEF Due
  <2>5. \A u \in Threads : u # t => cycle'[u] = NoCycle
    BY <2>2 DEF Alone, Live
  <2> QED
    BY <2>1, <2>4, <2>5 DEF Timed, InOrder, TimerDue, AddDue, Written
<1>2. ASSUME CycleSteps(t)
      PROVE  /\ InOrder(m_pq)' /\ TimerDue' /\ AddDue' /\ Due(t)'
             /\ \A u \in Threads : u # t => cycle'[u] = NoCycle
  <2>0. cycle[t] # NoCycle
    BY <1>2 DEF CycleSteps, Lost, CycleTop, CyclePop, CycleNotify, OnEvent, CycleStep,
                CycleDelete, CyclePeek, CycleTest, CycleArm, At
  <2>1. /\ Place(t) /\ Due(t) /\ \A u \in Threads : u # t => cycle[u] = NoCycle
        /\ adding' = adding
    BY <1>2, <2>0, Lonely
       DEF Timed, Live, CycleSteps, Lost, CycleTop, CyclePop, CycleNotify, OnEvent, CycleStep,
           CycleDelete, CyclePeek, CycleTest, CycleArm
  <2>2. \A u \in Threads : u # t => cycle'[u] = NoCycle
    BY <1>2, <2>1 DEF CycleSteps, Lost, CycleTop, CyclePop, CycleNotify, OnEvent, CycleStep,
           CycleDelete, CyclePeek, CycleTest, CycleArm, Goto, TypeOK
  <2>3. ASSUME m_pq' = m_pq, m_timer' = m_timer, itime' = itime \/ adding = NoAdd
        PROVE  InOrder(m_pq)' /\ TimerDue' /\ AddDue'
    BY <2>1, <2>3 DEF Timed, InOrder, TimerDue, AddDue, Written
  <2>a. ASSUME CycleTop(t) PROVE InOrder(m_pq)' /\ TimerDue' /\ AddDue' /\ Due(t)'
    <3>1. /\ m_pq # <<>> /\ m_pq' = m_pq /\ UNCHANGED timer /\ cycle[t].pc = "top"
          /\ cycle'[t] = [pc |-> "pop", k |-> Head(m_pq).k, left |-> Head(m_pq).left]
      BY <2>a DEF CycleTop, At, TypeOK
    <3>2. Due(t)'
      BY <2>1, <3>1, FirstIsTime DEF Due
    <3> QED
      BY <2>3, <3>1, <3>2
  <2>b. ASSUME CyclePop(t) PROVE InOrder(m_pq)' /\ TimerDue' /\ AddDue' /\ Due(t)'
    <3>1. /\ m_pq # <<>> /\ m_pq' = Tail(m_pq) /\ UNCHANGED timer /\ cycle[t].pc = "pop"
          /\ cycle'[t].pc = "notify" /\ cycle'[t].left = cycle[t].left
      BY <2>b, GotoIs DEF CyclePop, At
    <3>2. Due(t)'
      BY <2>1, <3>1 DEF Due
    <3>3. TimerDue' /\ AddDue'
      BY <2>0, <2>1, <3>1, Lonely DEF Place, TimerDue, AddDue
    <3>4. /\ m_pq \in Seq(Entries) /\ m_pq' \in Seq(Entries)
          /\ DOMAIN m_pq = 1 .. Len(m_pq) /\ DOMAIN m_pq' = 1 .. Len(m_pq')
      BY LenProperties DEF TypeOK
    <3>5. InOrder(m_pq')
      <4> SUFFICES ASSUME NEW i \in 1 .. Len(m_pq'), NEW j \in 1 .. Len(m_pq'), i < j
                   PROVE  m_pq'[i].left <= m_pq'[j].left
        BY <3>4 DEF InOrder
      <4>1. /\ Len(m_pq) \in Nat /\ Len(m_pq') = Len(m_pq) - 1
            /\ m_pq'[i] = m_pq[i + 1] /\ m_pq'[j] = m_pq[j + 1]
        BY <3>1, FirstEntry
      <4>2. i + 1 \in DOMAIN m_pq /\ j + 1 \in DOMAIN m_pq /\ i + 1 < j + 1
        BY <3>4, <4>1
      <4> QED
        BY <4>1, <4>2 DEF Timed, InOrder
    <3> QED
      BY <3>2, <3>3, <3>5
  <2>c. ASSUME NEW pc \in {"func", "step", "delete", "peek"}, Goto(t, pc),
               cycle[t].pc \in {"notify", "func", "step", "delete"},
               pc = "func" => cycle[t].pc = "notify",
               UNCHANGED <<m_pq, timer>>
        PROVE  InOrder(m_pq)' /\ TimerDue' /\ AddDue' /\ Due(t)'
    <3>1. cycle'[t].pc = pc /\ cycle'[t].left = cycle[t].left
      BY <2>c, GotoIs
    <3> QED
      BY <2>1, <2>3, <2>c, <3>1 DEF Due
  <2>d. ASSUME CyclePeek(t) PROVE InOrder(m_pq)' /\ TimerDue' /\ AddDue' /\ Due(t)'
    <3>1. /\ m_pq' = m_pq /\ UNCHANGED timer
          /\ cycle'[t].pc = "test"
          /\ m_pq # <<>> => cycle'[t].left = Head(m_pq).left
      BY <2>d DEF CyclePeek, TypeOK
    <3>2. Due(t)'
      BY <3>1, FirstIsTime DEF Due
    <3> QED
      BY <2>3, <3>1, <3>2
  <2>e. ASSUME CycleTest(t) PROVE InOrder(m_pq)' /\ TimerDue' /\ AddDue' /\ Due(t)'
    <3>1. m_pq' = m_pq /\ UNCHANGED timer /\ cycle[t].pc = "test"
      BY <2>e DEF CycleTest, At
    <3>2. CASE m_pq = <<>>
      <4>1. cycle'[t] = NoCycle
        BY <2>e, <3>2 DEF CycleTest, TypeOK
      <4> QED
        BY <2>3, <3>1, <4>1 DEF Due, NoCycle
    <3>3. CASE m_pq # <<>>
      <4>1. cycle'[t].pc = "arm" /\ cycle'[t].left = cycle[t].left
        BY <2>e, <3>1, <3>3, GotoIs DEF CycleTest
      <4> QED
        BY <2>1, <2>3, <3>1, <4>1 DEF Due, Written
    <3> QED
      BY <3>2, <3>3
  <2>f. ASSUME CycleArm(t) PROVE InOrder(m_pq)' /\ TimerDue' /\ AddDue' /\ Due(t)'
    <3> DEFINE milli == cycle[t].left \div TicksPerMilli
    <3>1. m_pq' = m_pq /\ cycle[t].pc \in Arming /\ adding = NoAdd
      BY <2>0, <2>f, Lonely DEF CycleArm, At
    <3>2. cycle[t].left \in Nat /\ milli \in Nat
      <4>1. cycle[t] \in Cycles /\ cycle[t].pc # "top"
        BY <3>1 DEF TypeOK
      <4>2. cycle[t].left \in Nat
        BY <2>0, <4>1 DEF Cycles, NoCycle
      <4> QED
        BY <4>2, WholeMillis
    <3>3. First \in Nat /\ First <= cycle[t].left
      BY <2>1, <3>1, FirstIsTime DEF Due, Place
    <3>4. CASE At(t, "arm")
      <4>1. Goto(t, "nsec") /\ m_timer' = m_timer /\ itime'.sec = Itime(milli).sec
        BY <2>f, <3>2, <3>4, ArmWrites DEF CycleArm, At
      <4>2. cycle'[t].pc = "nsec" /\ cycle'[t].left = cycle[t].left
        BY <3>4, <4>1, GotoIs DEF At
      <4>3. Due(t)'
        BY <2>1, <3>1, <3>3, <4>1, <4>2 DEF Due, Written, Itime
      <4> QED
        BY <2>3, <3>1, <4>1, <4>3
    <3>5. CASE At(t, "nsec")
      <4>1. /\ Goto(t, "settime") /\ m_timer' = m_timer
            /\ itime'.sec = itime.sec /\ itime'.nsec = Itime(milli).nsec
        BY <2>f, <3>2, <3>5, ArmWrites DEF CycleArm, At
      <4>2. cycle'[t].pc = "settime" /\ cycle'[t].left = cycle[t].left /\ cycle[t].pc = "nsec"
        BY <3>5, <4>1, GotoIs DEF At
      <4>3. Due(t)'
        BY <2>1, <3>1, <3>3, <4>1, <4>2 DEF Due, Written, Itime
      <4> QED
        BY <2>3, <3>1, <4>1, <4>3
    <3>6. CASE At(t, "settime")
      <4>1. ArmTimer(milli) /\ cycle'[t] = NoCycle
        BY <2>f, <3>6 DEF CycleArm, At, TypeOK
      <4>2. m_timer' = milli * TicksPerMilli
        <5>1. Written("settime", milli)
          BY <2>1, <3>6 DEF Due, At
        <5> QED
          BY <3>2, <4>1, <5>1, ArmSets
      <4>3. First < m_timer' + TicksPerMilli
        <5>1. m_timer' \in Nat /\ cycle[t].left < m_timer' + TicksPerMilli
          BY <3>2, <4>2, CutMillis
        <5> QED
          BY <3>2, <3>3, <5>1, SchedulerAssumption
      <4> QED
        BY <2>1, <3>1, <4>1, <4>3 DEF Due, NoCycle, Timed, InOrder, TimerDue, AddDue
    <3> QED
      BY <2>f, <3>4, <3>5, <3>6 DEF CycleArm
  <2>g. ASSUME CycleNotify(t) \/ OnEvent(t) \/ CycleStep(t) \/ CycleDelete(t)
        PROVE  InOrder(m_pq)' /\ TimerDue' /\ AddDue' /\ Due(t)'
    <3>1. UNCHANGED <<m_pq, timer>>
      BY <2>g DEF CycleNotify, OnEvent, CycleStep, CycleDelete
    <3>2. CASE CycleNotify(t)
      <4>1. cycle[t].pc = "notify" /\ Fresh(cycle[t].k)
        BY <2>1, <3>2 DEF CycleNotify, At, Place
      <4>2. Goto(t, "func")
        BY <3>2, <4>1 DEF CycleNotify, Fresh
      <4> QED
        BY <2>c, <3>1, <4>1, <4>2
    <3>3. CASE OnEvent(t)
      BY <2>c, <3>1, <3>3 DEF OnEvent, At
    <3>4. CASE CycleStep(t)
      BY <2>c, <3>1, <3>4 DEF CycleStep, At
    <3>5. CASE CycleDelete(t)
      BY <2>c, <3>1, <3>5 DEF CycleDelete, At
    <3> QED
      BY <2>g, <3>2, <3>3, <3>4, <3>5
  <2>h. ~Lost(t)
    BY <2>1 DEF Lost, At, Place
  <2> QED
    BY <1>2, <2>2, <2>a, <2>b, <2>d, <2>e, <2>f, <2>g, <2>h DEF CycleSteps
<1> QED
  BY <1>1, <1>2

(***************************************************************************)
(* A tick brings the timer and the deadlines nearer by the same.           *)
(***************************************************************************)
LEMMA TickIsTimed ==
    ASSUME TypeOK, TypeOK', Steady, Timed, Tick
    PROVE  Timed'
<1>l. \A m, n \in Nat : /\ Less(n) \in Nat /\ Less(n) <= n
                        /\ (m <= n => Less(m) <= Less(n))
  BY DEF Less
<1>1. /\ Len(m_pq) \in Nat /\ Len(m_pq') = Len(m_pq)
      /\ m_pq' = <<>> <=> m_pq = <<>>
      /\ \A i \in 1 .. Len(m_pq) : m_pq[i].left \in Nat /\ m_pq'[i].left = Less(m_pq[i].left)
  BY QueueTick DEF Entries
<1>2. DOMAIN m_pq = 1 .. Len(m_pq) /\ DOMAIN m_pq' = 1 .. Len(m_pq)
  <2>1. m_pq \in Seq(Entries) /\ m_pq' \in Seq(Entries)
    BY DEF TypeOK
  <2> QED
    BY <1>1, <2>1, LenProperties
<1>3. m_pq # <<>> => First \in Nat /\ First' = Less(First)
  <2>1. m_pq # <<>> => 1 \in 1 .. Len(m_pq)
    BY FirstEntry
  <2> QED
    BY <1>1, <2>1 DEF First
<1>4. InOrder(m_pq')
  <2> SUFFICES ASSUME NEW i \in 1 .. Len(m_pq), NEW j \in 1 .. Len(m_pq), i < j
               PROVE  m_pq'[i].left <= m_pq'[j].left
    BY <1>2 DEF InOrder
  <2>1. m_pq[i].left <= m_pq[j].left
    BY <1>2 DEF Timed, InOrder
  <2> QED
    BY <1>l, <1>1, <2>1
<1>5. TimerDue'
  <2> SUFFICES ASSUME m_timer' # Off PROVE First' < m_timer' + TicksPerMilli
    BY DEF TimerDue
  <2>1. m_timer \in Nat \ {0} /\ m_timer' = m_timer - 1 /\ m_timer # Off
    BY DEF Tick, TypeOK
  <2>2. m_pq # <<>> /\ First < m_timer + TicksPerMilli
    BY <2>1 DEF Steady, Armed, Timed, TimerDue
  <2>3. First \in Nat /\ First' = (IF First = 0 THEN 0 ELSE First - 1)
    BY <1>3, <2>2 DEF Less
  <2> QED
    BY <2>1, <2>2, <2>3, SchedulerAssumption
<1>6. AddDue'
  <2> SUFFICES ASSUME adding' # NoAdd PROVE AddDue'
    BY DEF AddDue
  <2>1. adding # NoAdd
    BY DEF Tick
  <2>2. adding' = [adding EXCEPT !.left = Less(adding.left)]
    BY <2>1 DEF Tick
  <2>3. adding \in [pc : {"new", "push"} \union Queuing, k : Kamikazes, left : Nat,
                    milli : Nat, by : Threads \union {"client"}]
    BY <2>1 DEF TypeOK, Adds
  <2>4. /\ adding'.pc = adding.pc /\ adding'.milli = adding.milli
        /\ adding'.left = Less(adding.left) /\ adding.left \in Nat /\ adding.milli \in Nat
    BY <2>2, <2>3
  <2>5. adding.milli * TicksPerMilli \in Nat
    BY <2>4, ProductOfNat
  <2>6. adding'.left <= adding'.milli * TicksPerMilli
    <3>1. adding.left <= adding.milli * TicksPerMilli
      BY <2>1 DEF Timed, AddDue
    <3>2. Less(adding.left) <= adding.left /\ Less(adding.left) \in Nat
      BY <1>l, <2>4
    <3> QED
      BY <2>4, <2>5, <3>1, <3>2
  <2>7. ASSUME adding.pc \in Queuing PROVE First' <= adding'.left
    <3>1. m_pq # <<>>
      <4>1. Queued(adding.k)
        BY <2>1, <2>7 DEF Steady, Adder
      <4> QED
        BY <4>1, EmptySeq DEF Queued, TypeOK
    <3> QED
      BY <1>l, <1>3, <2>1, <2>4, <2>7, <3>1 DEF Timed, AddDue
  <2>8. Written(adding.pc, adding.milli)'
    <3>1. itime' = itime
      BY DEF Tick
    <3> QED
      BY <2>1, <2>4, <3>1 DEF Timed, AddDue, Written, Itime
  <2> QED
    BY <2>4, <2>6, <2>7, <2>8 DEF AddDue
<1>7. ASSUME NEW t \in Live' PROVE Due(t)'
  <2>1. t \in Live /\ cycle[t] # NoCycle /\ cycle'[t].pc = cycle[t].pc
    BY DEF Tick, Live, TypeOK, Cycles, NoCycle
  <2>2. Due(t) /\ (cycle[t].pc = "top" => m_pq # <<>>)
    BY <2>1 DEF Timed, Steady, Cycler, Place
  <2>3. cycle[t].pc # "top" =>
          /\ cycle[t].left \in Nat
          /\ cycle'[t].left = (IF cycle[t].pc \in Arming THEN cycle[t].left
                               ELSE Less(cycle[t].left))
    BY <2>1 DEF Tick, Live, TypeOK, Cycles, NoCycle
  <2>4. ASSUME cycle[t].pc = "top" PROVE First' < TicksPerMilli
    <3>1. First < TicksPerMilli /\ First \in Nat /\ First' <= First /\ First' \in Nat
      BY <1>l, <1>3, <2>2, <2>4 DEF Due
    <3> QED
      BY <3>1, SchedulerAssumption
  <2>5. ASSUME cycle[t].pc \in {"pop", "notify", "func"} PROVE cycle'[t].left < TicksPerMilli
    <3>1. /\ cycle[t].left < TicksPerMilli /\ cycle[t].left \in Nat
          /\ cycle'[t].left <= cycle[t].left /\ cycle'[t].left \in Nat
      BY <1>l, <2>2, <2>3, <2>5 DEF Due
    <3> QED
      BY <3>1, SchedulerAssumption
  <2>6. ASSUME cycle[t].pc \in {"test"} \union Arming, m_pq # <<>>
        PROVE  First' <= cycle'[t].left
    <3>1. First <= cycle[t].left /\ cycle[t].left \in Nat /\ First \in Nat /\ First' = Less(First)
      BY <1>3, <2>2, <2>3, <2>6 DEF Due
    <3>2. First' <= First /\ First' \in Nat /\ First' <= Less(cycle[t].left)
      BY <1>l, <3>1
    <3> QED
      BY <2>3, <2>6, <3>1, <3>2
  <2>7. ASSUME cycle[t].pc \in Arming
        PROVE  Written(cycle[t].pc, cycle[t].left \div TicksPerMilli)'
    <3>1. itime' = itime /\ cycle'[t].left = cycle[t].left
      BY <2>3, <2>7 DEF Tick
    <3> QED
      BY <2>1, <2>2, <2>7, <3>1 DEF Due, Written, Itime
  <2> QED
    BY <1>1, <2>1, <2>4, <2>5, <2>6, <2>7 DEF Due
<1> QED
  BY <1>4, <1>5, <1>6, <1>7 DEF Timed

(***************************************************************************)
(* Every step without an overlap keeps the deadlines in time.              *)
(***************************************************************************)
LEMMA TimedStep ==
    ASSUME TypeOK, TypeOK', Alone, Alone', Steady, Timed, ~freed', Running
    PROVE  Timed'
<1>1. ASSUME DataRace PROVE Timed'
  BY <1>1, NoRace
<1> QED
  BY <1>1, AddIsTimed, AddStepsAreTimed, CyclesAreTimed, TickIsTimed DEF Running

--------------------------------------------------------------------------------

(***************************************************************************)
(* The same after a step.                                                  *)
(***************************************************************************)
LEMMA NotAloneNext == (TypeOK /\ ~Overlap => Alone)'
BY NotAlone, PTL

(***************************************************************************)
(* Until threads overlap, the program is one that can be described and the *)
(* bookkeeping is in order.                                                *)
(***************************************************************************)
IInv ==
    /\ TypeOK
    /\ O!TypeOK
    /\ overlapped \/ (~gone /\ ~Overlap /\ Steady /\ Timed)

(***************************************************************************)
(* The invariant holds at first.                                           *)
(***************************************************************************)
LEMMA InvariantInit == Init => IInv
<1> SUFFICES ASSUME Init PROVE IInv
  OBVIOUS
<1>1. TypeOK
  BY TypeInit
<1>2. O!TypeOK
  BY EmptySeq DEF Init, O!Init, O!TypeOK, O!NoLoop
<1>3. Live = {} /\ Len(m_pq) = 0 /\ m_pq = <<>> /\ DOMAIN m_pq = {}
  BY EmptySeq DEF Init, Live
<1>4. ~Overlap
  <2>1. Cardinality(Live) = 0
    BY <1>3, FS_EmptySet
  <2> QED
    BY <1>3, <2>1 DEF Overlap
<1>5. Lines
  BY <1>3, SMT DEF Init, O!Init, Lines, Distinct, Queued
<1>6. Adder /\ Cycler /\ Armed /\ Owned
  BY <1>3 DEF Init, O!Init, Adder, Cycler, Armed, Owned
<1>7. Timed
  BY <1>3 DEF Init, Timed, InOrder, TimerDue, AddDue
<1> QED
  BY <1>1, <1>2, <1>4, <1>5, <1>6, <1>7 DEF IInv, Steady, Init

(***************************************************************************)
(* A read of a freed node that goes wrong changes nothing else before it.  *)
(***************************************************************************)
LEMMA GoesWild ==
    ASSUME Running, ~freed, freed'
    PROVE  UNCHANGED <<observer, made, m_pq, timer, adding, cycle, gone>>
BY DEF Running, AddSteps, CycleSteps, Add, AddNew, AddPush, AddAsk, AddCompare, AddZero, AddArm,
       Expire, Lost, CycleTop, CyclePop, CycleNotify, OnEvent, CycleStep, CycleDelete, CyclePeek,
       CycleTest, CycleArm, DataRace, Tick

(***************************************************************************)
(* Every step keeps it.                                                    *)
(***************************************************************************)
LEMMA InvariantStep == IInv /\ [Next]_vars => IInv'
<1> SUFFICES ASSUME IInv, [Next]_vars PROVE IInv'
  OBVIOUS
<1>1. TypeOK' /\ (O!TypeOK)'
  BY TypeStep, UsesObserver, ObserverTypes DEF IInv
<1>2. ASSUME UNCHANGED <<observer, made, m_pq, timer, adding, cycle>>,
             ~overlapped, ~overlapped', gone' = gone
      PROVE  IInv'
  <2>1. Overlap' <=> Overlap
    BY <1>2 DEF Overlap, Live
  <2>2. Steady' <=> Steady
    BY <1>2 DEF observer, Steady, Lines, Distinct, Queued, Fresh, Adder, At, Cycler, Place,
                Live, Armed, Owned
  <2>3. Timed' <=> Timed
    BY <1>2 DEF Timed, InOrder, First, TimerDue, AddDue, Due, Written, Live
  <2> QED
    BY <1>1, <1>2, <2>1, <2>2, <2>3 DEF IInv
<1>3. CASE Run(Running)
  <2>1. CASE overlapped \/ Overlap'
    BY <1>1, <1>3, <2>1, Zenon DEF IInv, Run
  <2>3. CASE ~overlapped /\ ~Overlap' /\ freed'
    <3>1. ~freed /\ freed' /\ Running /\ ~overlapped'
      BY <1>3, <2>3, Zenon DEF Run
    <3>2. UNCHANGED <<observer, made, m_pq, timer, adding, cycle, gone>>
      BY <3>1, GoesWild
    <3> QED
      BY <1>2, <2>3, <3>1, <3>2
  <2>2. CASE ~overlapped /\ ~Overlap' /\ ~freed'
    <3>1. Alone /\ Alone' /\ Steady /\ Timed /\ ~gone /\ Running
      BY <1>1, <1>3, <2>2, NotAlone, NotAloneNext DEF IInv, Run
    <3>2. Steady' /\ ~gone'
      BY <1>1, <2>2, <3>1, SteadyStep DEF IInv
    <3>3. Timed'
      BY <1>1, <2>2, <3>1, TimedStep DEF IInv
    <3> QED
      BY <1>1, <2>2, <3>2, <3>3 DEF IInv
  <2> QED
    BY <2>1, <2>2, <2>3
<1>4. CASE UNCHANGED vars
  <2>1. CASE overlapped
    BY <1>1, <1>4, <2>1 DEF vars, IInv
  <2>2. CASE ~overlapped
    BY <1>2, <1>4, <2>2 DEF vars
  <2> QED
    BY <2>1, <2>2
<1> QED
  BY <1>3, <1>4 DEF Next

(***************************************************************************)
(* It holds always.                                                        *)
(***************************************************************************)
LEMMA InvariantHolds == Spec => []IInv
<1> QED
  BY InvariantInit, InvariantStep, PTL DEF Spec

(***************************************************************************)
(* An expiry that meets no other Cycle and no Add finds the entry it was   *)
(* armed for, and no dispatcher that was deleted, whatever the delays and  *)
(* the clock.                                                              *)
(***************************************************************************)
THEOREM ExpiriesFindEntries == Spec => []EveryExpiryHasEntry
<1>1. IInv => EveryExpiryHasEntry
  BY DEF IInv, EveryExpiryHasEntry
<1> QED
  BY <1>1, InvariantHolds, PTL

(***************************************************************************)
(* No function runs a millisecond or more before its deadline, unless      *)
(* threads overlapped: the rounding of Arm and of CheckDeadline adds up to *)
(* less than that over any chain of expiries.                              *)
(***************************************************************************)
THEOREM NobodyRunsEarly == Spec => []NeverEarly
<1>1. IInv => NeverEarly
  BY DEF IInv, NeverEarly, Timed, Due
<1> QED
  BY <1>1, InvariantHolds, PTL

(***************************************************************************)
(* Unless threads overlapped, every dispatcher and callback belongs to an  *)
(* entry that is queued or in somebody's hands: a Cycle that has ended     *)
(* leaves nothing of its Kamikaze behind.                                  *)
(***************************************************************************)
THEOREM NothingIsLeftBehind == Spec => []NothingLeaks
<1>1. ASSUME IInv PROVE NothingLeaks
  <2>1. CASE overlapped
    BY <2>1, Zenon DEF NothingLeaks
  <2>2. CASE ~overlapped
    <3>1. \A k : Queued(k) => \E e \in Range(m_pq) : e.k = k
      <4>1. DOMAIN m_pq = 1 .. Len(m_pq)
        BY <1>1, LenProperties DEF IInv, TypeOK
      <4> QED
        BY <4>1 DEF Queued, Range
    <3> QED
      BY <1>1, <2>2, <3>1 DEF IInv, Steady, Owned, NothingLeaks
  <2> QED
    BY <2>1, <2>2
<1> QED
  BY <1>1, InvariantHolds, PTL
==================================================================================
