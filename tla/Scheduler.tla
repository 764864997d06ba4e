-------------------------------- MODULE Scheduler --------------------------------
(***************************************************************************)
(* Schedualer, Timer and Kamikaze (schedualer.cpp, kamikaze.cpp), built on *)
(* Observer.  A Kamikaze adds its callback to the scheduler with a delay;  *)
(* Add makes a dispatcher for it, queues the two under their deadline and  *)
(* arms the one POSIX timer.  Each expiry starts a thread that runs Cycle: *)
(* it takes the first entry, notifies, deletes and arms the timer for the  *)
(* next one.  Add holds m_mutex, Cycle does not, so a Cycle interleaves    *)
(* with Add and with other Cycles, also within Timer::Arm and              *)
(* Timer::CheckDeadline, whose itime and m_old_value all calls share.  The *)
(* two fields of m_old_value are read together.                            *)
(*                                                                         *)
(* Time is counted in ticks, a fraction of the millisecond that the timer  *)
(* interface rounds to.  Deadlines are kept as the ticks that are left,    *)
(* which stay 0 once they have passed.  The dispatcher that Add makes for  *)
(* Kamikaze k is named k as well.                                          *)
(***************************************************************************)
EXTENDS Integers, FiniteSets, Sequences, SequencesExt

CONSTANTS
    Kamikazes,        \* the objects, made once each
    Threads,          \* bound: the threads that may run Cycle at a time
    Delays,           \* the delays they may ask for, in milliseconds
    TicksPerMilli,
    MillisPerSecond,
    NoDispatcher,
    Off,              \* the timer is disarmed
    Nano              \* the 1 of tv_nsec, which is less than a tick

ASSUME SchedulerAssumption ==
    /\ Delays \subseteq Nat
    /\ TicksPerMilli \in Nat \ {0}
    /\ MillisPerSecond \in Nat \ {0}
    /\ NoDispatcher \notin Kamikazes
    /\ Off \notin Nat /\ Nano \notin Nat
    /\ IsFiniteSet(Threads) /\ "client" \notin Threads

VARIABLES
    disp, cbs, m_subscribers, m_dispatcher, cursor, undefined, owed, reattached,
    made,       \* the Kamikazes whose constructor was entered
    m_pq,       \* the dispatchers with their deadlines, in the order of top()
    m_timer,    \* ticks until the expiry, or Off
    itime,      \* the time to be set: seconds, and milliseconds or Nano
    m_old_value,\* the ticks that were left when timer_gettime or _settime was called
    adding,     \* the call of Add that holds m_mutex
    cycle,      \* where each timer thread is in Cycle
    overlapped, \* history: a Cycle ran while another or an Add did
    torn,       \* history: a timer was set to another time than its Arm had written
    gone,       \* a race or a read of an empty queue: nothing more is known
    freed       \* a read of a freed node went wrong: nothing more is known

observer == <<disp, cbs, m_subscribers, m_dispatcher, cursor, undefined, owed, reattached>>
timer == <<m_timer, itime, m_old_value, torn>>
vars == <<observer, made, m_pq, timer, adding, cycle, overlapped, gone, freed>>

O == INSTANCE Observer WITH
        Dispatchers <- Kamikazes, Callbacks <- Kamikazes, MaxListed <- 1

Entries == [k : Kamikazes, left : Nat]

\* The call of Add that holds m_mutex, made by a client or by the function that
\* a timer thread runs.
NoAdd == [pc |-> "none"]
Queuing == {"ask", "compare", "again", "zero", "arm", "nsec", "settime"}
Adds ==
    {NoAdd} \union
    [pc : {"new", "push"} \union Queuing, k : Kamikazes, left : Nat, milli : Nat,
     by : Threads \union {"client"}]

\* A thread in Cycle, with its pq_pair.
NoCycle == [pc |-> "none"]
Arming == {"arm", "nsec", "settime"}
Cycles ==
    {NoCycle, [pc |-> "top"]} \union
    [pc : {"pop", "notify", "func", "step", "delete", "peek", "test"} \union Arming,
     k : Kamikazes, left : Nat]

TypeOK ==
    /\ made \subseteq Kamikazes
    /\ m_pq \in Seq(Entries)
    /\ m_timer \in Nat \union {Off}
    /\ itime \in [sec : Nat, nsec : Nat \union {Nano}]
    /\ m_old_value \in Nat
    /\ adding \in Adds
    /\ cycle \in [Threads -> Cycles]
    /\ overlapped \in BOOLEAN /\ torn \in BOOLEAN /\ gone \in BOOLEAN /\ freed \in BOOLEAN

Zero == [sec |-> 0, nsec |-> 0]

Live == {t \in Threads : cycle[t] # NoCycle}

Init ==
    /\ O!Init
    /\ made = {} /\ m_pq = <<>> /\ m_timer = Off
    /\ itime = Zero /\ m_old_value = 0
    /\ adding = NoAdd
    /\ cycle = [t \in Threads |-> NoCycle]
    /\ overlapped = FALSE /\ torn = FALSE /\ gone = FALSE /\ freed = FALSE

--------------------------------------------------------------------------------

\* Mutant of InOrder: ComperFunc with < in place of >.
InReverse(q) == \A i, j \in DOMAIN q : i < j => q[i].left >= q[j].left

\* ComperFunc: the earliest deadline is on top.
InOrder(q) == \A i, j \in DOMAIN q : i < j => q[i].left <= q[j].left

\* What timer_gettime and timer_settime write to m_old_value.
Remaining == IF m_timer = Off THEN 0 ELSE m_timer

\* Timer::CheckDeadline's sum: whole milliseconds of the last second plus the
\* number of seconds; 0 also when less than a millisecond is left.
CheckDeadline ==
    LET milli == m_old_value \div TicksPerMilli IN
    (milli % MillisPerSecond) + (milli \div MillisPerSecond)

\* What Timer::Arm writes to itime; 0 and less expire at once.
Itime(milli) ==
    [sec |-> milli \div MillisPerSecond,
     nsec |-> IF milli > 0 THEN milli % MillisPerSecond ELSE Nano]

Ticks(it) ==
    IF it = Zero THEN Off
    ELSE (it.sec * MillisPerSecond + (IF it.nsec = Nano THEN 0 ELSE it.nsec)) * TicksPerMilli

\* Timer::Arm: two writes to itime, which is shared, and timer_settime with what
\* is there by then; 0 and 0 disarm.
ArmSec(milli) ==
    /\ itime' = [itime EXCEPT !.sec = Itime(milli).sec]
    /\ UNCHANGED <<m_timer, m_old_value, torn>>

ArmNsec(milli) ==
    /\ itime' = [itime EXCEPT !.nsec = Itime(milli).nsec]
    /\ UNCHANGED <<m_timer, m_old_value, torn>>

ArmTimer(milli) ==
    /\ m_timer' = Ticks(itime)
    /\ m_old_value' = Remaining
    /\ torn' = (torn \/ itime # Itime(milli))
    /\ UNCHANGED itime

At(t, pc) == cycle[t] # NoCycle /\ cycle[t].pc = pc
Goto(t, pc) == cycle' = [cycle EXCEPT ![t].pc = pc]

--------------------------------------------------------------------------------

\* new Kamikaze(func, ms), up to Add's lock of m_mutex.
Add(k, milli, by) ==
    /\ adding = NoAdd
    /\ k \notin made
    /\ by # "client" => At(by, "func")
    /\ made' = made \union {k}
    /\ adding' = [pc |-> "new", k |-> k, left |-> 0, milli |-> milli, by |-> by]
    /\ O!NewCallback(k)
    /\ UNCHANGED <<m_pq, timer, cycle, gone, freed>>

\* tp = now() + milli and the new dispatcher.
AddNew ==
    /\ adding.pc = "new"
    /\ adding' = [adding EXCEPT !.pc = "push", !.left = adding.milli * TicksPerMilli]
    /\ O!NewDispatcher(adding.k)
    /\ UNCHANGED <<made, m_pq, timer, cycle, gone, freed>>

AddPush ==
    /\ adding.pc = "push"
    /\ adding' = [adding EXCEPT !.pc = "ask"]
    /\ O!Attach(adding.k, adding.k)
    /\ \E i \in 1 .. Len(m_pq) + 1 :
          /\ m_pq' = InsertAt(m_pq, i, [k |-> adding.k, left |-> adding.left])
          /\ InOrder(m_pq')
    /\ UNCHANGED <<made, timer, cycle, gone, freed>>

\* timer_gettime of CheckDeadline, for each half of the condition.
AddAsk ==
    /\ adding.pc \in {"ask", "again"}
    /\ adding' = [adding EXCEPT !.pc = IF @ = "ask" THEN "compare" ELSE "zero"]
    /\ m_old_value' = Remaining
    /\ UNCHANGED <<observer, made, m_pq, m_timer, itime, torn, cycle, gone, freed>>

\* CheckDeadline() > milli.count()
AddCompare ==
    /\ adding.pc = "compare"
    /\ adding' = [adding EXCEPT !.pc = IF CheckDeadline > adding.milli THEN "arm" ELSE "again"]
    /\ UNCHANGED <<observer, made, m_pq, timer, cycle, gone, freed>>

\* Mutant of AddZero: only the comparison is made.
AddZeroNever ==
    /\ adding.pc = "zero"
    /\ adding' = NoAdd
    /\ UNCHANGED <<observer, made, m_pq, timer, cycle, gone, freed>>

\* || CheckDeadline() == 0
AddZero ==
    /\ adding.pc = "zero"
    /\ adding' = IF CheckDeadline = 0 THEN [adding EXCEPT !.pc = "arm"] ELSE NoAdd
    /\ UNCHANGED <<observer, made, m_pq, timer, cycle, gone, freed>>

\* m_timer.Arm(milli)
AddArm ==
    /\ \/ /\ adding.pc = "arm"
          /\ ArmSec(adding.milli)
          /\ adding' = [adding EXCEPT !.pc = "nsec"]
       \/ /\ adding.pc = "nsec"
          /\ ArmNsec(adding.milli)
          /\ adding' = [adding EXCEPT !.pc = "settime"]
       \/ /\ adding.pc = "settime"
          /\ ArmTimer(adding.milli)
          /\ adding' = NoAdd
    /\ UNCHANGED <<observer, made, m_pq, cycle, gone, freed>>

--------------------------------------------------------------------------------

\* The timer expires and starts a thread, external to this code.
Expire(t) ==
    /\ m_timer = 0
    /\ cycle[t] = NoCycle
    /\ m_timer' = Off
    /\ cycle' = [cycle EXCEPT ![t] = [pc |-> "top"]]
    /\ UNCHANGED <<observer, made, m_pq, itime, m_old_value, torn, adding, gone, freed>>

\* top() of a queue that is empty: no program is left that could be described.
Lost(t) ==
    /\ At(t, "top") \/ At(t, "pop")
    /\ m_pq = <<>>
    /\ gone' = TRUE
    /\ UNCHANGED <<observer, made, m_pq, timer, adding, cycle, freed>>

CycleTop(t) ==
    /\ At(t, "top")
    /\ m_pq # <<>>
    /\ cycle' = [cycle EXCEPT ![t] = [pc |-> "pop", k |-> Head(m_pq).k, left |-> Head(m_pq).left]]
    /\ UNCHANGED <<observer, made, m_pq, timer, adding, gone, freed>>

\* What is on top may be another entry than the one that was copied.
CyclePop(t) ==
    /\ At(t, "pop")
    /\ m_pq # <<>>
    /\ m_pq' = Tail(m_pq)
    /\ Goto(t, "notify")
    /\ UNCHANGED <<observer, made, timer, adding, gone, freed>>

\* NotifyAll reaches Update of the one callback and with it Kamikaze::OnEvent.
\* Another Cycle may have taken the same entry: then the dispatcher is in use
\* or deleted.
CycleNotify(t) ==
    /\ At(t, "notify")
    /\ UNCHANGED <<made, m_pq, timer, adding, freed>>
    /\ LET k == cycle[t].k IN
       IF k \in disp /\ cursor[k] = O!NoLoop
       THEN O!NotifyAll(k) /\ Goto(t, "func") /\ UNCHANGED gone
       ELSE gone' = TRUE /\ UNCHANGED <<observer, cycle>>

\* m_func() has returned: delete this.
OnEvent(t) ==
    /\ At(t, "func")
    /\ adding # NoAdd => adding.by # t
    /\ O!DestroyCallback(cycle[t].k)
    /\ Goto(t, "step")
    /\ UNCHANGED <<made, m_pq, timer, adding, gone, freed>>

\* The loop of NotifyAll goes on from the node that ~CallbackBase has erased:
\* what it reads there still leads to the end of the list, or to anything.
CycleStep(t) ==
    /\ At(t, "step")
    /\ \/ O!StepFreed(cycle[t].k) /\ Goto(t, "delete") /\ UNCHANGED freed
       \/ freed' = TRUE /\ UNCHANGED <<observer, cycle>>
    /\ UNCHANGED <<made, m_pq, timer, adding, gone>>

\* Mutant of CycleDelete: delete pq_pair.first is missing.
CycleKeep(t) ==
    /\ At(t, "delete")
    /\ Goto(t, "peek")
    /\ UNCHANGED <<observer, made, m_pq, timer, adding, gone, freed>>

CycleDelete(t) ==
    /\ At(t, "delete")
    /\ O!DestroyDispatcher(cycle[t].k)
    /\ Goto(t, "peek")
    /\ UNCHANGED <<made, m_pq, timer, adding, gone, freed>>

\* top() is copied before empty() is asked; the copy is then the entry that
\* was there last, whose deadline has passed.
CyclePeek(t) ==
    /\ At(t, "peek")
    /\ LET left == IF m_pq = <<>> THEN 0 ELSE Head(m_pq).left IN
       cycle' = [cycle EXCEPT ![t] = [pc |-> "test", k |-> @.k, left |-> left]]
    /\ UNCHANGED <<observer, made, m_pq, timer, adding, gone, freed>>

\* Mutant of CycleTest: empty() is not asked.
CycleTestNever(t) ==
    /\ At(t, "test")
    /\ Goto(t, "arm")
    /\ UNCHANGED <<observer, made, m_pq, timer, adding, gone, freed>>

CycleTest(t) ==
    /\ At(t, "test")
    /\ IF m_pq = <<>> THEN cycle' = [cycle EXCEPT ![t] = NoCycle] ELSE Goto(t, "arm")
    /\ UNCHANGED <<observer, made, m_pq, timer, adding, gone, freed>>

\* Arm with what is left, cut to whole milliseconds; m_mutex is not held.
CycleArm(t) ==
    LET milli == cycle[t].left \div TicksPerMilli IN
    /\ \/ At(t, "arm") /\ ArmSec(milli) /\ Goto(t, "nsec")
       \/ At(t, "nsec") /\ ArmNsec(milli) /\ Goto(t, "settime")
       \/ /\ At(t, "settime")
          /\ ArmTimer(milli)
          /\ cycle' = [cycle EXCEPT ![t] = NoCycle]
    /\ UNCHANGED <<observer, made, m_pq, adding, gone, freed>>

\* Two threads are in m_pq at once, which no lock excludes.
DataRace ==
    /\ Cardinality({t \in Live : cycle[t].pc \in {"top", "pop", "peek", "test"}})
          + (IF adding.pc = "push" THEN 1 ELSE 0) > 1
    /\ gone' = TRUE
    /\ UNCHANGED <<observer, made, m_pq, timer, adding, cycle, freed>>

--------------------------------------------------------------------------------

Less(n) == IF n = 0 THEN 0 ELSE n - 1

\* A tick passes, also between two statements of Add or Cycle.
Tick ==
    /\ m_timer # 0
    /\ m_timer' = IF m_timer = Off THEN Off ELSE m_timer - 1
    /\ m_pq' = [i \in DOMAIN m_pq |-> [m_pq[i] EXCEPT !.left = Less(@)]]
    /\ adding' = IF adding = NoAdd THEN NoAdd ELSE [adding EXCEPT !.left = Less(@)]
    /\ cycle' = [t \in Threads |->
                    IF cycle[t] = NoCycle \/ cycle[t].pc \in {"top"} \union Arming
                    THEN cycle[t]
                    ELSE [cycle[t] EXCEPT !.left = Less(@)]]
    /\ UNCHANGED <<observer, made, itime, m_old_value, torn, gone, freed>>

\* Two threads are in the scheduler, m_func's own Add not counted.
Overlap ==
    \/ Cardinality(Live) > 1
    \/ Live # {} /\ adding # NoAdd /\ adding.by \notin Live

CycleSteps(t) ==
    \/ Lost(t) \/ CycleTop(t) \/ CyclePop(t) \/ CycleNotify(t) \/ OnEvent(t)
    \/ CycleStep(t) \/ CycleDelete(t) \/ CyclePeek(t) \/ CycleTest(t) \/ CycleArm(t)

AddSteps == AddNew \/ AddPush \/ AddAsk \/ AddCompare \/ AddZero \/ AddArm

Running ==
    \/ \E k \in Kamikazes, milli \in Delays, by \in Threads \union {"client"} : Add(k, milli, by)
    \/ AddSteps
    \/ \E t \in Threads : Expire(t) \/ CycleSteps(t)
    \/ DataRace
    \/ Tick

\* A step of the program, while there is one, and the history of overlaps.
Run(A) == ~gone /\ ~freed /\ A /\ overlapped' = (overlapped \/ Overlap')

Next == Run(Running) \/ ((gone \/ freed) /\ UNCHANGED vars)

Spec == Init /\ [][Next]_vars

\* Threads run, time passes and the timer starts its thread.  Nobody has to
\* make a Kamikaze.
Fairness ==
    /\ WF_vars(Run(AddSteps))
    /\ \A t \in Threads : WF_vars(Run(CycleSteps(t)))
    /\ WF_vars(Run(Tick))
    /\ WF_vars(\E t \in Threads : Run(Expire(t)))

FairSpec == Spec /\ Fairness

--------------------------------------------------------------------------------

\* Work that waits has somebody to wake it: while entries are queued the timer
\* is armed, or a Cycle runs that will arm it, or an Add that will, however Adds
\* and Cycles interleave.  The exception is a timer that was set to what an Add
\* and a Cycle had written to itime together: it may be 0 and 0.
NoEntryStranded ==
    m_pq # <<>> /\ ~gone /\ ~freed =>
        m_timer # Off \/ Live # {} \/ adding.pc \in Queuing \/ torn

\* A Cycle that meets no other Cycle and no Add finds an entry to take: every
\* expiry belongs to one, and no two threads are in the queue.
EveryExpiryHasEntry == gone => overlapped

\* No function runs earlier than its deadline, to the millisecond that Arm
\* rounds away, as long as no Cycle met another or an Add.
NeverEarly ==
    \A t \in Live : cycle[t].pc \in {"notify", "func"} =>
        cycle[t].left < TicksPerMilli \/ overlapped

\* Who was added is waiting in the queue or in somebody's hands, and leaves no
\* dispatcher and no callback behind when it is done.
NothingLeaks ==
    \A k \in disp \union cbs :
        \/ \E e \in Range(m_pq) : e.k = k
        \/ adding # NoAdd /\ adding.k = k
        \/ \E t \in Live : cycle[t].pc # "top" /\ cycle[t].k = k
        \/ overlapped

\* A Kamikaze that was queued is run and dies, unless threads overlapped or the
\* read of a freed node, which every Cycle makes, went wrong.
EveryKamikazeDies ==
    \A k \in Kamikazes : k \in made ~> k \notin cbs \/ overlapped \/ freed
================================================================================
