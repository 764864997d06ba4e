--------------------------------- MODULE Plugins ---------------------------------
(***************************************************************************)
(* Where request handlers come from: main adds its own to the factory, the *)
(* monitor's thread loads the libraries that are moved into a directory    *)
(* and whose constructors add theirs, the threads of the pool look them    *)
(* up.  All of them reach the factory through Singleton::instance(), which *)
(* nothing but its first test protects from a second factory; the factory  *)
(* that thread t makes is named t.                                         *)
(***************************************************************************)
EXTENDS Naturals, Sequences, SequencesExt

CONSTANTS
    Main, Monitor, Workers,  \* the threads
    Keys,                    \* the types of requests
    MainKeys,                \* those that main adds, in its order
    Files,                   \* what may be moved into the directory
    Libraries,               \* those with ".so" in their name that dlopen opens
    KeyOf,                   \* the key that a library's constructor adds
    Overflow,                \* the event that carries no name
    Null,
    QueueLimit,              \* the events that inotify keeps
    BatchLimit,              \* the events that fit in the buffer of a read
    MaxMoves                 \* bounds the files that are moved in

Threads == Workers \union {Main, Monitor}

ASSUME PluginsAssumption ==
    /\ Main # Monitor /\ {Main, Monitor} \intersect Workers = {}
    /\ Null \notin Threads \union Files \union Keys
    /\ Overflow \notin Files /\ Main \notin Files
    /\ Libraries \subseteq Files /\ KeyOf \in [Libraries -> Keys]
    /\ MainKeys \in Seq(Keys)
    /\ QueueLimit \in Nat \ {0} /\ BatchLimit \in Nat \ {0} /\ MaxMoves \in Nat

VARIABLES
    m_instance, m_mutex,  \* of the Singleton
    m_map,                \* who added each key, in each factory
    pc, temp, key,        \* of each thread in instance() and Add or Create
    todo,                 \* the keys that main has still to add
    events,               \* what inotify has queued
    watch,                \* how far the monitor's life is
    lib,                  \* the library whose constructor runs
    handles,              \* how often the loader has each library open
    m_so,                 \* the loader's libraries
    loader,               \* whether DLLoader is there
    moves,
    orderly,              \* nothing was loaded before main was done
    fault                 \* undefined behaviour, and the key that was asked for

vars == <<m_instance, m_mutex, m_map, pc, temp, key, todo, events, watch, lib,
          handles, m_so, loader, moves, orderly, fault>>
singleton == <<m_instance, m_mutex, m_map>>
calls == <<pc, temp, key>>
directory == <<events, watch, moves>>
libraries == <<lib, handles, m_so, loader>>

TypeOK ==
    /\ m_instance \in Threads \union {Null} /\ m_mutex \in Threads \union {Null}
    /\ m_map \in [Threads -> [Keys -> Files \union {Main, Null}]]
    /\ pc \in [Threads -> {"idle", "load", "lock", "new", "use", "insert"}]
    /\ temp \in [Threads -> Threads \union {Null}]
    /\ key \in [Threads -> Keys \union {Null}]
    /\ todo \in Seq(Keys) /\ events \in Seq(Files \union {Overflow})
    /\ watch \in {"none", "open", "closed"}
    /\ lib \in Libraries \union {Null} /\ handles \in [Files -> Nat]
    /\ m_so \in Seq(Files) /\ loader \in BOOLEAN
    /\ moves \in 0 .. MaxMoves /\ orderly \in BOOLEAN
    /\ fault \in [why : {"none", "map", "end", "unmapped", "handle", "dead"},
                  key : Keys \union {Null}]

Init ==
    /\ m_instance = Null /\ m_mutex = Null
    /\ m_map = [f \in Threads |-> [k \in Keys |-> Null]]
    /\ pc = [t \in Threads |-> "idle"]
    /\ temp = [t \in Threads |-> Null] /\ key = [t \in Threads |-> Null]
    /\ todo = MainKeys /\ events = <<>> /\ watch = "none"
    /\ lib = Null /\ handles = [f \in Files |-> 0] /\ m_so = <<>>
    /\ loader = FALSE /\ moves = 0 /\ orderly = TRUE
    /\ fault = [why |-> "none", key |-> Null]

Defined == fault.why = "none"
Fault(why, k) == fault' = [why |-> why, key |-> k]

--------------------------------------------------------------------------------

Goto(t, from, to) == pc[t] = from /\ pc' = [pc EXCEPT ![t] = to]

Return(t, from) ==
    /\ Goto(t, from, "idle")
    /\ temp' = [temp EXCEPT ![t] = Null] /\ key' = [key EXCEPT ![t] = Null]

Call(t, k) ==
    /\ Goto(t, "idle", "load")
    /\ key' = [key EXCEPT ![t] = k]
    /\ UNCHANGED temp

\* Mutant of Load: the first test is gone.
LoadNever(t) ==
    /\ Goto(t, "load", "lock")
    /\ UNCHANGED <<singleton, temp, key, todo, directory, libraries, orderly, fault>>

\* Singleton::instance(): the load and the first test
Load(t) ==
    /\ Goto(t, "load", IF m_instance = Null THEN "lock" ELSE "use")
    /\ temp' = [temp EXCEPT ![t] = m_instance]
    /\ UNCHANGED <<singleton, key, todo, directory, libraries, orderly, fault>>

Lock(t) ==
    /\ m_mutex = Null
    /\ Goto(t, "lock", "new")
    /\ m_mutex' = t
    /\ UNCHANGED <<m_instance, m_map, temp, key, todo, directory, libraries, orderly,
                   fault>>

\* Mutant of New: a lock that no scope gives back.
NewKeepsLock(t) ==
    /\ Goto(t, "new", "use")
    /\ temp' = [temp EXCEPT ![t] = t]
    /\ m_instance' = t
    /\ UNCHANGED <<m_mutex, m_map, key, todo, directory, libraries, orderly, fault>>

\* The second test looks at temp, which is null still: new T, store, unlock.
New(t) ==
    /\ Goto(t, "new", "use")
    /\ temp' = [temp EXCEPT ![t] = t]
    /\ m_instance' = t /\ m_mutex' = Null
    /\ UNCHANGED <<m_map, key, todo, directory, libraries, orderly, fault>>

Instance(t) == Load(t) \/ Lock(t) \/ New(t)

\* Those who are in the middle of an insert into the map that t uses; insert()
\* writes only where there is no such key.
Inserting(t) ==
    {u \in Threads \ {t} :
        pc[u] = "insert" /\ temp[u] = temp[t] /\ m_map[temp[u]][key[u]] = Null}

\* Factory::Create: the map is searched while it changes, whatever key is asked
\* for, find() returns end(), or it finds a function that is not mapped any more.
CreateFaults(w) ==
    LET owner == m_map[temp[w]][key[w]]
    IN  /\ pc[w] = "use"
        /\ \/ Inserting(w) # {} /\ Fault("map", key[w])
           \/ Inserting(w) = {} /\ owner = Null /\ Fault("end", key[w])
           \/ /\ Inserting(w) = {}
              /\ owner \in Files /\ handles[owner] = 0 /\ lib # owner
              /\ Fault("unmapped", key[w])
        /\ UNCHANGED <<singleton, calls, todo, directory, libraries, orderly>>

Create(w) ==
    LET owner == m_map[temp[w]][key[w]]
    IN  /\ Return(w, "use")
        /\ Inserting(w) = {} /\ owner # Null
        /\ owner \in Files => handles[owner] > 0 \/ lib = owner
        /\ UNCHANGED <<singleton, todo, directory, libraries, orderly, fault>>

\* A request reaches a thread of the pool; main is in Run by then.
Request(w, k) ==
    /\ watch # "none" /\ todo = <<>> /\ pc[Main] = "idle"
    /\ Call(w, k)
    /\ UNCHANGED <<singleton, todo, directory, libraries, orderly, fault>>

--------------------------------------------------------------------------------

\* Factory::Add: an insert while another one changes the map
AddFaults(t) ==
    /\ pc[t] = "use"
    /\ Inserting(t) # {} /\ Fault("map", key[t])
    /\ UNCHANGED <<singleton, calls, todo, directory, libraries, orderly>>

Add(t) ==
    /\ Goto(t, "use", "insert")
    /\ Inserting(t) = {}
    /\ UNCHANGED <<singleton, temp, key, todo, directory, libraries, orderly, fault>>

Insert(t, owner) ==
    /\ Return(t, "insert")
    /\ m_map' = [m_map EXCEPT ![temp[t]][key[t]] = IF @ = Null THEN owner ELSE @]
    /\ UNCHANGED <<m_instance, m_mutex, directory, orderly, fault>>

\* RequestEngine's constructor: DirMonitor, DLLoader and the monitor's thread
Start ==
    /\ watch = "none"
    /\ watch' = "open" /\ loader' = TRUE
    /\ UNCHANGED <<singleton, calls, todo, events, moves, lib, handles, m_so, orderly,
                   fault>>

\* RequestEngine::AddToFactory, once for each handler of main
AddToFactory ==
    /\ watch # "none" /\ todo # <<>>
    /\ Call(Main, Head(todo))
    /\ UNCHANGED <<singleton, todo, directory, libraries, orderly, fault>>

MainInsert ==
    /\ Insert(Main, Main)
    /\ todo' = Tail(todo)
    /\ UNCHANGED libraries

--------------------------------------------------------------------------------

\* inotify: a file is moved in; a queue that is full takes one Overflow more.
Move(f) ==
    /\ watch = "open" /\ moves < MaxMoves
    /\ moves' = moves + 1
    /\ events' = IF Len(events) < QueueLimit THEN Append(events, f)
                 ELSE IF Len(events) = QueueLimit THEN Append(events, Overflow)
                 ELSE events
    /\ UNCHANGED <<singleton, calls, todo, watch, libraries, orderly, fault>>

Batch == IF Len(events) < BatchLimit THEN Len(events) ELSE BatchLimit

\* dlopen maps the library and runs its constructor, NewRead, the first time.
Open(f) ==
    IF f \notin Libraries THEN
        /\ m_so' = Append(m_so, f)
        /\ UNCHANGED <<calls, lib, handles>>
    ELSE IF handles[f] > 0 THEN
        /\ handles' = [handles EXCEPT ![f] = @ + 1]
        /\ m_so' = Append(m_so, f)
        /\ UNCHANGED <<calls, lib>>
    ELSE
        /\ Call(Monitor, KeyOf[f])
        /\ lib' = f
        /\ UNCHANGED <<handles, m_so>>

\* Mutant of Read: the last event of the batch is handled.
ReadLast ==
    /\ watch = "open" /\ events # <<>> /\ pc[Monitor] = "idle"
    /\ events' = SubSeq(events, Batch + 1, Len(events))
    /\ IF events[Batch] # Overflow /\ loader
       THEN Open(events[Batch])
       ELSE UNCHANGED <<calls, lib, handles, m_so>>
    /\ orderly' = (orderly /\ todo = <<>>)
    /\ UNCHANGED <<singleton, todo, watch, moves, loader, fault>>

\* A read takes a batch, of which the first event is handled: NotifyAll, Load.
Read ==
    /\ watch = "open" /\ events # <<>> /\ pc[Monitor] = "idle"
    /\ events' = SubSeq(events, Batch + 1, Len(events))
    /\ IF events[1] # Overflow /\ loader
       THEN Open(events[1])
       ELSE UNCHANGED <<calls, lib, handles, m_so>>
    /\ orderly' = (orderly /\ todo = <<>>)
    /\ UNCHANGED <<singleton, todo, watch, moves, loader, fault>>

\* Mutant of LibraryInsert: the handle is closed when its scope ends.
LibraryInsertCloses ==
    /\ Insert(Monitor, lib)
    /\ lib' = Null
    /\ UNCHANGED <<todo, handles, m_so, loader>>

\* The constructor is done, dlopen returns, and the handle is kept.
LibraryInsert ==
    /\ Insert(Monitor, lib)
    /\ handles' = [handles EXCEPT ![lib] = 1]
    /\ m_so' = Append(m_so, lib) /\ lib' = Null
    /\ UNCHANGED <<todo, loader>>

\* A read that fails returns -1, which is true: the old buffer is handled again,
\* for a dispatcher that is gone.
ReadFails ==
    /\ watch = "closed" /\ pc[Monitor] = "idle"
    /\ Fault("dead", Null)
    /\ UNCHANGED <<singleton, calls, todo, directory, libraries, orderly>>

\* ~DirMonitor: the descriptor is closed, the thread is not told.
DestroyMonitor ==
    /\ watch = "open" /\ todo = <<>> /\ pc[Main] = "idle"
    /\ watch' = "closed"
    /\ UNCHANGED <<singleton, calls, todo, events, moves, libraries, orderly, fault>>

\* What ~DLLoader reaches: erase moves the next one under the iterator, ++ skips it.
Reached == {i \in 1 .. Len(m_so) : i % 2 = 1}

\* ~DLLoader, which closes what it reaches; a handle that dlopen did not give,
\* or a Load that is still running, leads anywhere.
DestroyLoader ==
    /\ loader /\ todo = <<>> /\ pc[Main] = "idle"
    /\ loader' = FALSE
    /\ IF lib # Null \/ \E i \in Reached : m_so[i] \notin Libraries
       THEN Fault("handle", Null) /\ UNCHANGED <<handles, m_so>>
       ELSE /\ handles' = [f \in Files |->
                  handles[f] - Cardinality({i \in Reached : m_so[i] = f})]
            /\ m_so' = [i \in 1 .. Len(m_so) \div 2 |-> m_so[2 * i]]
            /\ UNCHANGED fault
    /\ UNCHANGED <<singleton, calls, todo, directory, lib, orderly>>

--------------------------------------------------------------------------------

Worker(w) == Instance(w) \/ CreateFaults(w) \/ Create(w)

MainThread ==
    \/ Start \/ AddToFactory \/ Instance(Main) \/ AddFaults(Main) \/ Add(Main)
    \/ MainInsert

MonitorThread ==
    \/ Read \/ Instance(Monitor) \/ AddFaults(Monitor) \/ Add(Monitor)
    \/ LibraryInsert \/ ReadFails

\* Undefined behaviour ends what can be said.
Next ==
    /\ Defined
    /\ \/ \E w \in Workers : Worker(w) \/ \E k \in Keys : Request(w, k)
       \/ MainThread
       \/ MonitorThread
       \/ \E f \in Files : Move(f)
       \/ DestroyLoader \/ DestroyMonitor

Spec == Init /\ [][Next]_vars

\* Every thread runs on; nobody has to move a file in or to send a request.
FairSpec ==
    /\ Spec
    /\ WF_vars(Defined /\ MainThread) /\ WF_vars(Defined /\ MonitorThread)
    /\ \A w \in Workers : WF_vars(Defined /\ Worker(w))

--------------------------------------------------------------------------------

\* When main adds its handlers before any library is loaded, every request that
\* it has a handler for finds one, in the one factory there is; but a search, for
\* any key, that meets an insert is undefined, and such an insert is only ever a
\* library's, of a key that main does not have: a library that brings a handler
\* of main's again changes no map that is in use (singletone.hpp:50-68,
\* factory.hpp:22-40).
MainKeysAreServed ==
    orderly =>
        /\ fault.why = "end" => fault.key \notin Range(MainKeys)
        /\ fault.why = "map" =>
               \E u \in Threads : pc[u] = "insert" /\ key[u] \notin Range(MainKeys)

\* As long as the loader lives, a handler in a factory is code that is mapped
\* (dlloader.cpp:21-26, pnpcommands/read.cpp:20-24).
HandlersAreMapped ==
    loader =>
        \A f \in Threads : \A k \in Keys :
            m_map[f][k] \in Files => handles[m_map[f][k]] > 0

\* The library whose event is the first that a read finds is loaded, unless the
\* loader or the monitor is destroyed (dirmonitor.cpp:24-33).
FirstIsLoaded ==
    \A f \in Libraries :
        pc[Monitor] = "idle" /\ events # <<>> /\ events[1] = f
            ~> handles[f] > 0 \/ ~loader \/ watch = "closed" \/ ~Defined

\* Whoever needs the factory gets one (singletone.hpp:54-65).
EveryoneGetsAFactory ==
    \A t \in Threads : pc[t] = "load" ~> pc[t] = "use" \/ ~Defined
================================================================================
