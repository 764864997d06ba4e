----------------------------- MODULE PluginsProofs -----------------------------
(***************************************************************************)
(* Theorems about Plugins for any threads, keys, files and libraries.      *)
(***************************************************************************)
EXTENDS Plugins, FiniteSetTheorems, SequenceTheorems, TLAPS

(***************************************************************************)
(* How often a list of libraries has a file.                               *)
(***************************************************************************)
Times(q, f) == Cardinality({n \in 1 .. Len(q) : q[n] = f})

LEMMA TimesIsNumber ==
    ASSUME NEW q \in Seq(Files), NEW f
    PROVE  IsFiniteSet({n \in 1 .. Len(q) : q[n] = f}) /\ Times(q, f) \in Nat
<1>1. IsFiniteSet(1 .. Len(q))
  BY LenProperties, FS_Interval
<1>2. IsFiniteSet({n \in 1 .. Len(q) : q[n] = f})
  BY <1>1, FS_Subset
<1> QED
  BY <1>2, FS_CardinalityType DEF Times

LEMMA TimesAppend ==
    ASSUME NEW q \in Seq(Files), NEW f \in Files, NEW g
    PROVE  Times(Append(q, f), g) = IF f = g THEN Times(q, g) + 1 ELSE Times(q, g)
<1> DEFINE At(s) == {n \in 1 .. Len(s) : s[n] = g}
           r == Append(q, f)
           m == Len(q) + 1
<1>1. /\ Len(q) \in Nat /\ Len(r) = m /\ r[m] = f
      /\ \A n \in 1 .. Len(q) : r[n] = q[n]
  BY LenProperties, AppendProperties
<1> HIDE DEF r
<1>2. CASE f = g
  <2>1. 1 .. Len(r) = (1 .. Len(q)) \union {m} /\ m \notin 1 .. Len(q)
    BY <1>1
  <2>2. At(r) = At(q) \union {m} /\ m \notin At(q)
    BY <1>1, <1>2, <2>1
  <2>3. IsFiniteSet(At(q))
    BY TimesIsNumber
  <2> HIDE DEF At
  <2>4. Cardinality(At(q) \union {m}) = Cardinality(At(q)) + 1
    BY <2>2, <2>3, FS_AddElement
  <2> QED
    BY <1>2, <2>2, <2>4 DEF Times, r, At
<1>3. CASE f # g
  <2>1. 1 .. Len(r) = (1 .. Len(q)) \union {m}
    BY <1>1
  <2>2. At(r) = At(q)
    BY <1>1, <1>3, <2>1
  <2> QED
    BY <1>3, <2>2 DEF Times, r
<1> QED
  BY <1>2, <1>3

\* ~DLLoader closes a library at most as often as it is listed.
LEMMA ReachedAtMostListed ==
    ASSUME m_so \in Seq(Files), NEW f
    PROVE  LET closed == Cardinality({n \in Reached : m_so[n] = f})
           IN  closed \in Nat /\ closed <= Times(m_so, f)
<1>1. {n \in Reached : m_so[n] = f} \subseteq {n \in 1 .. Len(m_so) : m_so[n] = f}
  BY DEF Reached
<1> QED
  BY <1>1, TimesIsNumber, FS_Subset, FS_CardinalityType DEF Times

(***************************************************************************)
(* The places where the threads are agree with what they share.  A thread  *)
(* in a call has a key, and the factory once instance() has returned; the  *)
(* monitor's thread is in a call exactly while a library's constructor     *)
(* runs; the Singleton's mutex belongs to the one thread that constructs;  *)
(* and a loader that lives has each library open as often as it lists it.  *)
(***************************************************************************)
CallsConsistent ==
    \A t \in Threads :
        /\ pc[t] # "idle" => key[t] \in Keys
        /\ pc[t] \in {"use", "insert"} => temp[t] \in Threads
        /\ m_mutex = t <=> pc[t] = "new"

HandlesConsistent ==
    /\ loader => watch # "none"
    /\ loader \/ watch = "none" => \A f \in Libraries : handles[f] = Times(m_so, f)
    /\ lib # Null => handles[lib] = 0
    /\ \A f \in Files \ Libraries : handles[f] = 0

Consistent ==
    /\ TypeOK
    /\ CallsConsistent
    /\ HandlesConsistent
    /\ pc[Monitor] = "idle" <=> lib = Null
    /\ pc[Main] # "idle" => todo # <<>> /\ key[Main] = Head(todo)

LEMMA ConsistentInit == Init => Consistent
<1> SUFFICES ASSUME Init PROVE Consistent
  OBVIOUS
<1> USE PluginsAssumption DEF PluginsAssumption, Init
<1>1. m_so \in Seq(Files) /\ events \in Seq(Files \union {Overflow})
  BY EmptySeq
<1>2. todo \in Seq(Keys) /\ lib \in Libraries \union {Null} /\ moves \in 0 .. MaxMoves
  OBVIOUS
<1>3. /\ m_map \in [Threads -> [Keys -> Files \union {Main, Null}]]
      /\ pc \in [Threads -> {"idle", "load", "lock", "new", "use", "insert"}]
      /\ temp \in [Threads -> Threads \union {Null}]
      /\ key \in [Threads -> Keys \union {Null}]
      /\ handles \in [Files -> Nat]
  OBVIOUS
<1>4. fault \in [why : {"none", "map", "end", "unmapped", "handle", "dead"},
                 key : Keys \union {Null}]
  OBVIOUS
<1>5. loader \in BOOLEAN /\ orderly \in BOOLEAN
  OBVIOUS
<1>6. TypeOK
  BY <1>1, <1>2, <1>3, <1>4, <1>5 DEF TypeOK
<1>7. CallsConsistent
  BY DEF CallsConsistent, Threads
<1>8. \A f \in Libraries \union Files : handles[f] = 0
  OBVIOUS
<1>9. HandlesConsistent
  <2>1. \A f \in Libraries : {n \in 1 .. Len(m_so) : m_so[n] = f} = {}
    BY EmptySeq
  <2>2. \A f \in Libraries : Times(m_so, f) = 0
    BY <2>1, FS_EmptySet DEF Times
  <2> QED
    BY <1>8, <2>2 DEF HandlesConsistent
<1>10. pc[Monitor] = "idle" /\ lib = Null /\ pc[Main] = "idle"
  BY DEF Threads
<1> QED
  BY <1>6, <1>7, <1>9, <1>10 DEF Consistent

Positions == {"idle", "load", "lock", "new", "use", "insert"}

CallsTyped ==
    /\ pc \in [Threads -> Positions]
    /\ temp \in [Threads -> Threads \union {Null}]
    /\ key \in [Threads -> Keys \union {Null}]

\* The steps of Singleton::instance(), and the step into an insert.
LEMMA CallsStep ==
    ASSUME Consistent, NEW t \in Threads, Load(t) \/ Lock(t) \/ New(t) \/ Add(t)
    PROVE  Consistent'
<1> USE PluginsAssumption DEF PluginsAssumption, Consistent
<1>1. /\ UNCHANGED <<m_map, key, todo, events, watch, moves, lib, handles, m_so, loader,
                     orderly, fault>>
      /\ pc[t] # "idle"
  BY DEF Load, Lock, New, Add, Goto, singleton, directory, libraries
<1>2. PICK q \in Positions \ {"idle"} : pc' = [pc EXCEPT ![t] = q]
  BY DEF Load, Lock, New, Add, Goto, Positions
<1>3. HandlesConsistent'
  BY <1>1 DEF HandlesConsistent, Times
<1>4. pc \in [Threads -> Positions]
  BY DEF TypeOK, Positions
<1>5. pc' \in [Threads -> Positions] /\ \A u \in Threads : pc'[u] = "idle" <=> pc[u] = "idle"
  BY <1>1, <1>2, <1>4
<1>6. Main \in Threads /\ Monitor \in Threads
  BY DEF Threads
<1>7. /\ (pc[Monitor] = "idle" <=> lib = Null)'
      /\ (pc[Main] # "idle" => todo # <<>> /\ key[Main] = Head(todo))'
  BY <1>1, <1>5, <1>6
<1>8. CASE Load(t)
  <2>1. /\ pc[t] = "load" /\ pc' = [pc EXCEPT ![t] = IF m_instance = Null THEN "lock" ELSE "use"]
        /\ temp' = [temp EXCEPT ![t] = m_instance]
        /\ UNCHANGED <<m_instance, m_mutex>>
    BY <1>8 DEF Load, Goto, singleton
  <2>2. TypeOK'
    BY <1>1, <1>5, <2>1 DEF TypeOK, Positions
  <2>3. CallsConsistent'
    BY <1>1, <2>1 DEF CallsConsistent, TypeOK
  <2> QED
    BY <1>3, <1>7, <2>2, <2>3
<1>9. CASE Lock(t) \/ Add(t)
  <2>1. UNCHANGED <<m_instance, temp>> /\ m_mutex' \in {m_mutex, t}
    BY <1>9 DEF Lock, Add, singleton
  <2>2. TypeOK'
    BY <1>1, <1>5, <2>1 DEF TypeOK, Positions
  <2>3. CallsConsistent'
    BY <1>1, <1>9, <2>1 DEF Lock, Add, Goto, singleton, CallsConsistent, TypeOK
  <2> QED
    BY <1>3, <1>7, <2>2, <2>3
<1>10. CASE New(t)
  <2>1. /\ pc[t] = "new" /\ pc' = [pc EXCEPT ![t] = "use"]
        /\ temp' = [temp EXCEPT ![t] = t] /\ m_instance' = t /\ m_mutex' = Null
    BY <1>10 DEF New, Goto
  <2>2. TypeOK'
    BY <1>1, <1>5, <2>1 DEF TypeOK, Positions
  <2>3. CallsConsistent'
    BY <1>1, <2>1 DEF CallsConsistent, TypeOK
  <2> QED
    BY <1>3, <1>7, <2>2, <2>3
<1> QED
  BY <1>8, <1>9, <1>10

\* What begins or ends a call, but for a library's, leaves the libraries alone.
LEMMA CallStep ==
    ASSUME Consistent, NEW t \in Threads \ {Monitor}, NEW k \in Keys,
           Call(t, k) \/ Return(t, "use") \/ Return(t, "insert"),
           UNCHANGED <<m_mutex, watch, libraries>>
    PROVE  /\ CallsTyped' /\ CallsConsistent' /\ HandlesConsistent'
           /\ (pc[Monitor] = "idle" <=> lib = Null)'
<1> USE PluginsAssumption DEF PluginsAssumption, Consistent, libraries
<1>1. HandlesConsistent'
  BY DEF HandlesConsistent, Times
<1>2. PICK q \in {"idle", "load"} : pc' = [pc EXCEPT ![t] = q] /\ pc[t] \in {"idle", "use", "insert"}
  BY DEF Call, Return, Goto
<1>3. CallsTyped
  BY DEF TypeOK, CallsTyped, Positions
<1>4. pc' \in [Threads -> Positions] /\ pc'[Monitor] = pc[Monitor]
  BY <1>2, <1>3 DEF CallsTyped, Positions, Threads
<1>5. temp' \in [Threads -> Threads \union {Null}] /\ key' \in [Threads -> Keys \union {Null}]
  BY <1>3 DEF Call, Return, CallsTyped
<1>6. CallsConsistent'
  BY <1>3 DEF Call, Return, Goto, CallsTyped, CallsConsistent
<1> QED
  BY <1>1, <1>4, <1>5, <1>6 DEF CallsTyped

LEMMA InsertTyped ==
    ASSUME Consistent, NEW t \in Threads, NEW owner \in Files \union {Main}, Insert(t, owner)
    PROVE  m_map' \in [Threads -> [Keys -> Files \union {Main, Null}]]
<1>1. temp[t] \in Threads /\ key[t] \in Keys
  BY DEF Consistent, CallsConsistent, Insert, Return, Goto
<1> QED
  BY <1>1 DEF Insert, Consistent, TypeOK

LEMMA MainInsertStep ==
    ASSUME Consistent, MainInsert
    PROVE  Consistent'
<1> USE PluginsAssumption DEF PluginsAssumption, Consistent
<1>1. Main \in Threads \ {Monitor}
  BY DEF Threads
<1>2. Insert(Main, Main) /\ UNCHANGED <<m_instance, m_mutex, directory, libraries, orderly, fault>>
  BY DEF MainInsert, Insert
<1>3. key[Main] \in Keys
  BY <1>1, <1>2 DEF CallsConsistent, Insert, Return, Goto
<1>4. Return(Main, "insert")
  BY <1>2 DEF Insert
<1>5. m_map' \in [Threads -> [Keys -> Files \union {Main, Null}]]
  BY <1>1, <1>2, InsertTyped
<1>6. todo' \in Seq(Keys) /\ pc'[Main] = "idle"
  BY <1>1, <1>4, HeadTailProperties DEF MainInsert, Insert, Return, Goto, TypeOK
<1>7. /\ CallsTyped'
      /\ CallsConsistent' /\ HandlesConsistent'
      /\ (pc[Monitor] = "idle" <=> lib = Null)'
  BY <1>1, <1>2, <1>3, <1>4, CallStep DEF directory
<1>8. TypeOK'
  BY <1>2, <1>5, <1>6, <1>7 DEF TypeOK, CallsTyped, Positions, directory, libraries
<1> QED
  BY <1>6, <1>7, <1>8

LEMMA BeginOrEndStep ==
    ASSUME Consistent, NEW t \in Threads \ {Monitor}, NEW k \in Keys,
           \/ t # Main /\ (Create(t) \/ Request(t, k))
           \/ AddToFactory /\ t = Main /\ k = Head(todo)
    PROVE  Consistent'
<1> USE PluginsAssumption DEF PluginsAssumption, Consistent
<1>1. Call(t, k) \/ Return(t, "use")
  BY DEF Create, Request, AddToFactory
<1>2. UNCHANGED <<singleton, todo, directory, libraries, orderly, fault>>
  BY DEF Create, Request, AddToFactory
<1>3. /\ CallsTyped' /\ CallsConsistent' /\ HandlesConsistent'
      /\ (pc[Monitor] = "idle" <=> lib = Null)'
  BY <1>1, <1>2, CallStep DEF singleton, directory
<1>4. TypeOK'
  BY <1>2, <1>3 DEF TypeOK, CallsTyped, Positions, singleton, directory, libraries
<1>5. CASE t # Main
  <2>1. pc'[Main] = pc[Main] /\ key'[Main] = key[Main]
    BY <1>1, <1>5 DEF Call, Return, Goto, Threads, TypeOK
  <2> QED
    BY <1>2, <1>3, <1>4, <2>1
<1>6. CASE t = Main
  <2>1. todo # <<>> /\ key'[Main] = Head(todo)
    BY <1>6 DEF AddToFactory, Call, TypeOK
  <2> QED
    BY <1>2, <1>3, <1>4, <2>1
<1> QED
  BY <1>5, <1>6

LEMMA OpenStep ==
    ASSUME Consistent, NEW f \in Files, pc[Monitor] = "idle", loader, Open(f),
           UNCHANGED <<singleton, todo, watch, loader>>
    PROVE  /\ CallsTyped' /\ lib' \in Libraries \union {Null} /\ handles' \in [Files -> Nat]
           /\ m_so' \in Seq(Files)
           /\ CallsConsistent' /\ HandlesConsistent'
           /\ (pc[Monitor] = "idle" <=> lib = Null)'
           /\ pc'[Main] = pc[Main] /\ key'[Main] = key[Main]
<1> USE PluginsAssumption DEF PluginsAssumption, Consistent, singleton, calls
<1>0. CallsTyped /\ Main \in Threads /\ Monitor \in Threads
  BY DEF TypeOK, CallsTyped, Positions, Threads
<1>1. \A g : Times(Append(m_so, f), g) = IF f = g THEN Times(m_so, g) + 1 ELSE Times(m_so, g)
  BY TimesAppend DEF TypeOK
<1>2. Append(m_so, f) \in Seq(Files)
  BY AppendProperties DEF TypeOK
<1>3. CASE f \notin Libraries
  <2>1. m_so' = Append(m_so, f) /\ UNCHANGED <<pc, temp, key, lib, handles>>
    BY <1>3 DEF Open
  <2>2. \A g \in Libraries : Times(m_so', g) = Times(m_so, g)
    BY <1>1, <1>3, <2>1
  <2>3. HandlesConsistent'
    BY <2>1, <2>2 DEF HandlesConsistent
  <2>4. CallsConsistent'
    BY <2>1 DEF CallsConsistent
  <2> QED
    BY <1>0, <1>2, <2>1, <2>3, <2>4 DEF TypeOK, CallsTyped
<1>4. CASE f \in Libraries /\ handles[f] > 0
  <2>1. /\ m_so' = Append(m_so, f) /\ UNCHANGED <<pc, temp, key, lib>>
        /\ handles' = [handles EXCEPT ![f] = @ + 1]
    BY <1>4 DEF Open
  <2>2. handles' \in [Files -> Nat]
    BY <2>1 DEF TypeOK
  <2>3. \A g \in Libraries : handles'[g] = Times(m_so', g)
    BY <1>1, <1>4, <2>1 DEF HandlesConsistent, TypeOK
  <2>4. \A g \in Files \ Libraries : handles'[g] = 0
    BY <1>4, <2>1 DEF HandlesConsistent, TypeOK
  <2>5. HandlesConsistent'
    BY <2>1, <2>3, <2>4 DEF HandlesConsistent
  <2>6. CallsConsistent'
    BY <2>1 DEF CallsConsistent
  <2> QED
    BY <1>0, <1>2, <2>1, <2>2, <2>5, <2>6 DEF TypeOK, CallsTyped
<1>5. CASE f \in Libraries /\ ~(handles[f] > 0)
  <2>1. Call(Monitor, KeyOf[f]) /\ lib' = f /\ UNCHANGED <<handles, m_so>>
    BY <1>5 DEF Open
  <2>2. Monitor \in Threads /\ KeyOf[f] \in Keys /\ f # Null
    BY <1>5 DEF Threads
  <2>3. HandlesConsistent'
    <3>1. handles[f] = 0
      BY <1>5 DEF TypeOK
    <3>2. \A g \in Libraries : Times(m_so', g) = Times(m_so, g)
      BY <2>1
    <3> QED
      BY <2>1, <3>1, <3>2 DEF HandlesConsistent
  <2>4. CallsConsistent'
    BY <2>1, <2>2 DEF CallsConsistent, Call, Goto, TypeOK
  <2>5. /\ CallsTyped' /\ pc'[Monitor] # "idle" /\ lib' # Null
        /\ pc'[Main] = pc[Main] /\ key'[Main] = key[Main]
    BY <1>0, <2>1, <2>2 DEF Call, Goto, CallsTyped, Positions
  <2> QED
    BY <1>5, <2>1, <2>3, <2>4, <2>5 DEF TypeOK
<1> QED
  BY <1>3, <1>4, <1>5

LEMMA ReadStep ==
    ASSUME Consistent, Read
    PROVE  Consistent'
<1> USE PluginsAssumption DEF PluginsAssumption, Consistent
<1>1. UNCHANGED <<singleton, todo, watch, moves, loader, fault>> /\ pc[Monitor] = "idle"
  BY DEF Read
<1>2. Batch \in 0 .. Len(events)
  BY LenProperties DEF Batch, TypeOK
<1>3. events' \in Seq(Files \union {Overflow})
  BY <1>2, LenProperties, SubSeqProperties DEF Read, TypeOK
<1>4. orderly' \in BOOLEAN
  BY DEF Read, TypeOK
<1>5. events[1] \in Files \union {Overflow}
  BY EmptySeq, LenProperties DEF Read, TypeOK
<1>6. CASE events[1] # Overflow /\ loader
  <2>1. Open(events[1]) /\ events[1] \in Files
    BY <1>5, <1>6 DEF Read
  <2>2. /\ CallsTyped' /\ lib' \in Libraries \union {Null} /\ handles' \in [Files -> Nat]
        /\ m_so' \in Seq(Files)
        /\ CallsConsistent' /\ HandlesConsistent'
        /\ (pc[Monitor] = "idle" <=> lib = Null)'
        /\ pc'[Main] = pc[Main] /\ key'[Main] = key[Main]
    BY <1>1, <1>6, <2>1, OpenStep
  <2>3. TypeOK'
    BY <1>1, <1>3, <1>4, <2>2 DEF TypeOK, CallsTyped, Positions, singleton
  <2> QED
    BY <1>1, <2>2, <2>3
<1>7. CASE ~(events[1] # Overflow /\ loader)
  <2>1. UNCHANGED <<calls, lib, handles, m_so>>
    BY <1>7 DEF Read
  <2>2. TypeOK'
    BY <1>1, <1>3, <1>4, <2>1 DEF TypeOK, singleton, calls
  <2>3. CallsConsistent' /\ HandlesConsistent'
    BY <1>1, <2>1 DEF CallsConsistent, HandlesConsistent, Times, singleton, calls
  <2> QED
    BY <1>1, <2>1, <2>2, <2>3 DEF calls
<1> QED
  BY <1>6, <1>7

LEMMA LibraryInsertStep ==
    ASSUME Consistent, LibraryInsert
    PROVE  /\ Consistent'
           /\ lib \in Libraries /\ handles' = [handles EXCEPT ![lib] = 1]
           /\ temp[Monitor] \in Threads /\ key[Monitor] \in Keys
<1> USE PluginsAssumption DEF PluginsAssumption, Consistent
<1>1. Main \in Threads /\ Monitor \in Threads /\ CallsTyped
  BY DEF TypeOK, CallsTyped, Positions, Threads
<1>2. /\ Insert(Monitor, lib) /\ pc[Monitor] = "insert"
      /\ handles' = [handles EXCEPT ![lib] = 1]
      /\ m_so' = Append(m_so, lib) /\ lib' = Null
      /\ UNCHANGED <<m_instance, m_mutex, directory, todo, loader, orderly, fault>>
  BY DEF LibraryInsert, Insert, Return, Goto
<1>3. lib \in Libraries
  BY <1>2 DEF TypeOK
<1>4. temp[Monitor] \in Threads /\ key[Monitor] \in Keys
  BY <1>1, <1>2 DEF CallsConsistent
<1>5. m_map' \in [Threads -> [Keys -> Files \union {Main, Null}]]
  BY <1>1, <1>2, <1>3, InsertTyped
<1>6. /\ pc' = [pc EXCEPT ![Monitor] = "idle"] /\ temp' = [temp EXCEPT ![Monitor] = Null]
      /\ key' = [key EXCEPT ![Monitor] = Null]
  BY <1>2 DEF Insert, Return, Goto
<1>7. CallsTyped' /\ pc'[Monitor] = "idle" /\ pc'[Main] = pc[Main] /\ key'[Main] = key[Main]
  BY <1>1, <1>6 DEF CallsTyped, Positions
<1>8. handles' \in [Files -> Nat] /\ m_so' \in Seq(Files)
  BY <1>2, <1>3, AppendProperties DEF TypeOK
<1>9. TypeOK'
  BY <1>2, <1>5, <1>7, <1>8 DEF TypeOK, CallsTyped, Positions, directory
<1>10. CallsConsistent'
  BY <1>1, <1>2, <1>6 DEF CallsConsistent, CallsTyped
<1>11. HandlesConsistent'
  <2>1. handles[lib] = 0 /\ lib # Null
    BY <1>3 DEF HandlesConsistent
  <2>2. \A g : Times(m_so', g) = IF lib = g THEN Times(m_so, g) + 1 ELSE Times(m_so, g)
    BY <1>2, <1>3, TimesAppend DEF TypeOK
  <2>3. loader' \/ watch' = "none" => \A g \in Libraries : handles'[g] = Times(m_so', g)
    BY <1>2, <1>3, <2>1, <2>2 DEF HandlesConsistent, TypeOK, directory
  <2>4. \A g \in Files \ Libraries : handles'[g] = 0
    BY <1>2, <1>3 DEF HandlesConsistent, TypeOK
  <2> QED
    BY <1>2, <2>3, <2>4 DEF HandlesConsistent, directory
<1> QED
  BY <1>2, <1>3, <1>4, <1>7, <1>9, <1>10, <1>11

LEMMA DestroyLoaderStep ==
    ASSUME Consistent, DestroyLoader
    PROVE  Consistent'
<1> USE PluginsAssumption DEF PluginsAssumption, Consistent
<1>1. /\ UNCHANGED <<singleton, calls, todo, directory, lib, orderly>>
      /\ loader' = FALSE
  BY DEF DestroyLoader
<1>2. CallsConsistent'
  BY <1>1 DEF CallsConsistent, singleton, calls
<1>3. CASE lib # Null \/ \E n \in Reached : m_so[n] \notin Libraries
  <2>1. fault' = [why |-> "handle", key |-> Null] /\ UNCHANGED <<handles, m_so>>
    BY <1>3 DEF DestroyLoader, Fault
  <2>2. fault' \in [why : {"none", "map", "end", "unmapped", "handle", "dead"},
                    key : Keys \union {Null}]
    BY <2>1
  <2>3. TypeOK'
    BY <1>1, <2>1, <2>2 DEF TypeOK, singleton, calls, directory
  <2>4. HandlesConsistent'
    <3>1. loader' = FALSE /\ watch' # "none" /\ lib' = lib
      BY <1>1 DEF HandlesConsistent, DestroyLoader, directory
    <3> QED
      BY <2>1, <3>1 DEF HandlesConsistent
  <2> QED
    BY <1>1, <1>2, <2>3, <2>4 DEF calls
<1>4. CASE lib = Null /\ \A n \in Reached : m_so[n] \in Libraries
  <2> DEFINE Closed(f) == Cardinality({n \in Reached : m_so[n] = f})
             L == Len(m_so) \div 2
  <2>1. /\ handles' = [f \in Files |-> handles[f] - Closed(f)]
        /\ m_so' = [n \in 1 .. L |-> m_so[2 * n]]
        /\ fault' = fault
    BY <1>4 DEF DestroyLoader
  <2>2. m_so \in Seq(Files) /\ handles \in [Files -> Nat] /\ loader
    BY DEF TypeOK, DestroyLoader
  <2>3. \A f \in Files : Closed(f) \in Nat /\ Closed(f) <= Times(m_so, f)
    BY <2>2, ReachedAtMostListed
  <2>4. \A f \in Files \ Libraries : Closed(f) = 0
    <3> SUFFICES ASSUME NEW f \in Files \ Libraries PROVE Closed(f) = 0
      OBVIOUS
    <3>1. {n \in Reached : m_so[n] = f} = {}
      BY <1>4
    <3> QED
      BY <3>1, FS_EmptySet
  <2> HIDE DEF Closed
  <2>5. \A f \in Libraries : handles[f] = Times(m_so, f)
    BY <2>2 DEF HandlesConsistent
  <2>6. \A f \in Files : handles[f] - Closed(f) \in Nat
    <3> SUFFICES ASSUME NEW f \in Files PROVE handles[f] - Closed(f) \in Nat
      OBVIOUS
    <3>1. handles[f] \in Nat /\ Closed(f) \in Nat
      BY <2>2, <2>3
    <3>2. CASE f \in Libraries
      BY <2>3, <2>5, <3>1, <3>2
    <3>3. CASE f \notin Libraries
      BY <2>4, <3>1, <3>3
    <3> QED
      BY <3>2, <3>3
  <2>7. handles' \in [Files -> Nat]
    BY <2>1, <2>6
  <2>8. m_so' \in Seq(Files)
    <3>1. Len(m_so) \in Nat /\ m_so \in [1 .. Len(m_so) -> Files]
      BY <2>2, LenProperties
    <3>2. ASSUME NEW m \in Nat PROVE m \div 2 \in Nat /\ 2 * (m \div 2) <= m
      BY <3>2, Z3
    <3>3. L \in Nat /\ 2 * L <= Len(m_so)
      BY <3>1, <3>2
    <3> HIDE DEF L
    <3>4. \A n \in 1 .. L : m_so[2 * n] \in Files
      BY <3>1, <3>3
    <3>5. m_so' \in [1 .. L -> Files]
      BY <2>1, <3>4
    <3> QED
      BY <3>3, <3>5, IsASeq
  <2>9. TypeOK'
    BY <1>1, <2>1, <2>7, <2>8 DEF TypeOK, singleton, calls, directory
  <2>10. HandlesConsistent'
    <3>1. loader' = FALSE /\ watch' # "none" /\ lib' = Null
      BY <1>1, <1>4, <2>2 DEF HandlesConsistent, directory
    <3>2. \A f \in Files \ Libraries : handles'[f] = 0
      BY <2>1, <2>4 DEF HandlesConsistent
    <3> QED
      BY <3>1, <3>2 DEF HandlesConsistent
  <2> QED
    BY <1>1, <1>2, <2>9, <2>10 DEF calls
<1> QED
  BY <1>3, <1>4

\* What only changes the directory, starts the monitor, or goes wrong.
LEMMA OutsideStep ==
    ASSUME Consistent,
           \/ Start \/ DestroyMonitor \/ ReadFails
           \/ \E f \in Files : Move(f)
           \/ \E t \in Threads : AddFaults(t) \/ CreateFaults(t)
    PROVE  Consistent' /\ UNCHANGED <<m_instance, m_map, calls, todo, handles, orderly>>
<1> USE PluginsAssumption DEF PluginsAssumption, Consistent
<1>1. UNCHANGED <<singleton, calls, todo, lib, handles, m_so, orderly>>
  BY DEF Start, DestroyMonitor, ReadFails, Move, AddFaults, CreateFaults, libraries, directory
<1>2. CallsConsistent' /\ (pc[Monitor] = "idle" <=> lib = Null)'
      /\ (pc[Main] # "idle" => todo # <<>> /\ key[Main] = Head(todo))'
  BY <1>1 DEF CallsConsistent, singleton, calls
<1>3. \A f \in Libraries : Times(m_so', f) = Times(m_so, f)
  BY <1>1
<1>4. CASE Start
  <2>1. watch = "none" /\ watch' = "open" /\ loader' = TRUE /\ UNCHANGED <<events, moves, fault>>
    BY <1>4 DEF Start
  <2>2. TypeOK'
    BY <1>1, <2>1 DEF TypeOK, singleton, calls
  <2>3. HandlesConsistent'
    BY <1>1, <1>3, <2>1 DEF HandlesConsistent
  <2> QED
    BY <1>1, <1>2, <2>2, <2>3 DEF singleton
<1>5. CASE DestroyMonitor
  <2>1. watch = "open" /\ watch' = "closed" /\ UNCHANGED <<events, moves, loader, fault>>
    BY <1>5 DEF DestroyMonitor, libraries
  <2>2. TypeOK'
    BY <1>1, <2>1 DEF TypeOK, singleton, calls
  <2>3. HandlesConsistent'
    BY <1>1, <1>3, <2>1 DEF HandlesConsistent
  <2> QED
    BY <1>1, <1>2, <2>2, <2>3 DEF singleton
<1>6. ASSUME NEW f \in Files, Move(f)
      PROVE  Consistent'
  <2>1. moves' \in 0 .. MaxMoves /\ UNCHANGED <<watch, loader, fault>>
    BY <1>6 DEF Move, libraries, TypeOK
  <2>2. events' \in Seq(Files \union {Overflow})
    BY <1>6, AppendProperties DEF Move, TypeOK
  <2>3. TypeOK'
    BY <1>1, <2>1, <2>2 DEF TypeOK, singleton, calls
  <2>4. HandlesConsistent'
    BY <1>1, <1>3, <2>1 DEF HandlesConsistent
  <2> QED
    BY <1>1, <1>2, <2>3, <2>4
<1>7. ASSUME NEW t \in Threads, ReadFails \/ AddFaults(t) \/ CreateFaults(t)
      PROVE  Consistent'
  <2>1. UNCHANGED <<directory, loader>>
    BY <1>7 DEF ReadFails, AddFaults, CreateFaults, libraries
  <2>2. PICK why \in {"dead", "map", "end", "unmapped"}, k \in Keys \union {Null} : Fault(why, k)
    <3>1. CASE ReadFails
      BY <3>1 DEF ReadFails
    <3>3. CASE AddFaults(t)
      <4>1. key[t] \in Keys
        BY <3>3 DEF AddFaults, CallsConsistent
      <4> QED
        BY <3>3, <4>1 DEF AddFaults
    <3>4. CASE CreateFaults(t)
      <4>1. key[t] \in Keys
        BY <3>4 DEF CreateFaults, CallsConsistent
      <4> QED
        BY <3>4, <4>1 DEF CreateFaults
    <3> QED
      BY <1>7, <3>1, <3>3, <3>4
  <2>3. fault' \in [why : {"none", "map", "end", "unmapped", "handle", "dead"},
                    key : Keys \union {Null}]
    BY <2>2 DEF Fault
  <2>4. TypeOK'
    BY <1>1, <2>1, <2>3 DEF TypeOK, singleton, calls, directory
  <2>5. HandlesConsistent'
    BY <1>1, <1>3, <2>1 DEF HandlesConsistent, directory
  <2> QED
    BY <1>1, <1>2, <2>4, <2>5
<1>8. UNCHANGED <<m_instance, m_map, calls, todo, handles, orderly>> /\ Main \in Threads
  BY <1>1 DEF singleton, Threads
<1>9. ASSUME ReadFails \/ \E t \in Threads : AddFaults(t) \/ CreateFaults(t)
      PROVE  Consistent'
  BY <1>7, <1>8, <1>9
<1> QED
  BY <1>4, <1>5, <1>6, <1>8, <1>9

(***************************************************************************)
(* Types, and where the threads and the libraries are, for any number of   *)
(* threads, keys and libraries: a thread that inserts or looks up has a    *)
(* factory and a key, and what the loader closes it has open, as often as  *)
(* it closes it (dlloader.cpp:10-26).                                      *)
(***************************************************************************)
THEOREM PluginsConsistent == Spec => []Consistent
<1>1. Init => Consistent
  BY ConsistentInit
<1>2. Consistent /\ [Next]_vars => Consistent'
  <2> SUFFICES ASSUME Consistent, [Next]_vars PROVE Consistent'
    OBVIOUS
  <2>1. Main \in Threads \ {Monitor} /\ Monitor \in Threads /\ Workers \subseteq Threads \ {Main, Monitor}
    BY PluginsAssumption DEF PluginsAssumption, Threads
  <2>2. ASSUME NEW t \in Threads, Instance(t) \/ Add(t) PROVE Consistent'
    BY <2>2, CallsStep DEF Instance
  <2>3. ASSUME NEW w \in Workers, NEW k \in Keys, Request(w, k) PROVE Consistent'
    BY <2>1, <2>3, BeginOrEndStep
  <2>4. ASSUME NEW w \in Workers, Create(w) PROVE Consistent'
    <3>1. key[w] \in Keys
      BY <2>1, <2>4 DEF Create, Return, Goto, Consistent, CallsConsistent
    <3> QED
      BY <2>1, <2>4, <3>1, BeginOrEndStep
  <2>5. CASE AddToFactory
    <3>1. Head(todo) \in Keys
      BY <2>5, HeadTailProperties DEF AddToFactory, Consistent, TypeOK
    <3> QED
      BY <2>1, <2>5, <3>1, BeginOrEndStep
  <2>6. CASE UNCHANGED vars
    BY <2>6 DEF vars, Consistent, TypeOK, CallsConsistent, HandlesConsistent, Times
  <2> QED
    BY <2>1, <2>2, <2>3, <2>4, <2>5, <2>6, MainInsertStep, ReadStep, LibraryInsertStep,
       DestroyLoaderStep, OutsideStep
    DEF Next, Worker, MainThread, MonitorThread
<1> QED
  BY <1>1, <1>2, PTL DEF Spec

--------------------------------------------------------------------------------

(***************************************************************************)
(* Before RequestEngine is constructed there is no loader and no handler   *)
(* of a library; this makes the property inductive.                        *)
(***************************************************************************)
Mapped ==
    loader \/ watch = "none" =>
        \A f \in Threads : \A k \in Keys :
            m_map[f][k] \in Files => handles[m_map[f][k]] > 0

LEMMA MappedNext ==
    ASSUME Consistent, Consistent', Mapped, [Next]_vars
    PROVE  Mapped'
<1> USE PluginsAssumption DEF PluginsAssumption
<1>1. CASE Read
  <2>1. UNCHANGED <<m_map, watch, loader>>
    BY <1>1 DEF Read, singleton
  <2>2. handles' = handles \/ \E f \in Files : handles' = [handles EXCEPT ![f] = @ + 1]
    <3>1. events[1] \in Files \union {Overflow}
      BY <1>1, EmptySeq, LenProperties DEF Read, Consistent, TypeOK
    <3> QED
      BY <1>1, <3>1 DEF Read, Open
  <2>3. \A f \in Files : handles[f] > 0 => handles'[f] > 0
    <3>1. handles \in [Files -> Nat]
      BY DEF Consistent, TypeOK
    <3> QED
      BY <2>2, <3>1
  <2>4. m_map \in [Threads -> [Keys -> Files \union {Main, Null}]]
    BY DEF Consistent, TypeOK
  <2> QED
    BY <2>1, <2>3, <2>4 DEF Mapped
<1>2. CASE LibraryInsert
  <2>1. /\ lib \in Libraries /\ handles' = [handles EXCEPT ![lib] = 1]
        /\ temp[Monitor] \in Threads /\ key[Monitor] \in Keys
    BY <1>2, LibraryInsertStep
  <2>2. /\ m_map' = [m_map EXCEPT ![temp[Monitor]][key[Monitor]] = IF @ = Null THEN lib ELSE @]
        /\ UNCHANGED <<watch, loader>>
    BY <1>2 DEF LibraryInsert, Insert, directory
  <2>3. ASSUME NEW f \in Threads, NEW k \in Keys PROVE m_map'[f][k] \in {m_map[f][k], lib}
    BY <2>1, <2>2 DEF Consistent, TypeOK
  <2>4. \A f \in Files : f = lib \/ handles[f] > 0 => handles'[f] > 0
    BY <2>1 DEF Consistent, TypeOK
  <2> QED
    BY <2>2, <2>3, <2>4 DEF Mapped
<1>3. CASE MainInsert
  <2>1. temp[Main] \in Threads /\ key[Main] \in Keys
    BY <1>3 DEF MainInsert, Insert, Return, Goto, Consistent, CallsConsistent, Threads
  <2>2. /\ m_map' = [m_map EXCEPT ![temp[Main]][key[Main]] = IF @ = Null THEN Main ELSE @]
        /\ UNCHANGED <<watch, loader, handles>>
    BY <1>3 DEF MainInsert, Insert, directory, libraries
  <2>3. ASSUME NEW f \in Threads, NEW k \in Keys PROVE m_map'[f][k] \in {m_map[f][k], Main}
    BY <2>1, <2>2 DEF Consistent, TypeOK
  <2> QED
    BY <2>2, <2>3 DEF Mapped
<1>4. CASE DestroyLoader
  <2>1. loader' = FALSE /\ watch' # "none"
    BY <1>4 DEF DestroyLoader, directory, Consistent, HandlesConsistent
  <2> QED
    BY <2>1 DEF Mapped
<1>5. ASSUME \/ Start \/ DestroyMonitor \/ ReadFails
             \/ \E f \in Files : Move(f)
             \/ \E t \in Threads : AddFaults(t) \/ CreateFaults(t)
      PROVE  Mapped'
  <2>1. UNCHANGED <<m_map, handles>>
    BY <1>5, OutsideStep
  <2>2. loader' \/ watch' = "none" => loader \/ watch = "none"
    BY <1>5 DEF Start, DestroyMonitor, ReadFails, Move, AddFaults, CreateFaults, directory, libraries
  <2> QED
    BY <2>1, <2>2 DEF Mapped
<1>6. ASSUME \/ AddToFactory
             \/ \E t \in Threads : Instance(t) \/ Add(t) \/ Create(t) \/ \E k \in Keys : Request(t, k)
      PROVE  Mapped'
  <2>1. UNCHANGED <<m_map, handles, loader, watch>>
    BY <1>6 DEF AddToFactory, Instance, Load, Lock, New, Add, Create, Request,
                singleton, directory, libraries
  <2> QED
    BY <2>1 DEF Mapped
<1>7. CASE UNCHANGED vars
  BY <1>7 DEF vars, Mapped
<1>8. Main \in Threads /\ Monitor \in Threads /\ Workers \subseteq Threads
  BY DEF Threads
<1> QED
  BY <1>1, <1>2, <1>3, <1>4, <1>5, <1>6, <1>7, <1>8 DEF Next, Worker, MainThread, MonitorThread

(***************************************************************************)
(* While the loader lives no handler in any factory is of a library that   *)
(* was unmapped (dlloader.cpp:21-26, pnpcommands/read.cpp:20-24).          *)
(***************************************************************************)
THEOREM HandlersStayMapped == Spec => []HandlersAreMapped
<1>1. Init => Mapped
  BY PluginsAssumption DEF PluginsAssumption, Init, Mapped
<1>2. Consistent /\ Mapped /\ Consistent' /\ [Next]_vars => Mapped'
  BY MappedNext
<1>3. Mapped => HandlersAreMapped
  BY DEF Mapped, HandlersAreMapped
<1> QED
  BY <1>1, <1>2, <1>3, PluginsConsistent, PTL DEF Spec

--------------------------------------------------------------------------------

(***************************************************************************)
(* The handlers of main: as long as nothing was loaded before main was     *)
(* done, main was alone when it made the factory, so there is one factory  *)
(* before any other thread asks, every thread gets that one, and it has    *)
(* each handler that main is not still to add.                             *)
(***************************************************************************)
OneFactory ==
    /\ m_instance \in {Null, Main}
    /\ m_instance = Null => todo # <<>> /\ pc[Main] \notin {"use", "insert"}
    /\ m_instance = Main => \A t \in Threads : pc[t] \notin {"lock", "new"}
    /\ \A t \in Threads : pc[t] \in {"use", "insert"} => temp[t] = Main

\* What an undefined search was for, and what disturbed it.
Spared ==
    /\ fault.why = "end" => fault.key \notin Range(MainKeys)
    /\ fault.why = "map" =>
           \E u \in Threads : pc[u] = "insert" /\ key[u] \notin Range(MainKeys)

Serving ==
    orderly /\ MainKeys # <<>> =>
        /\ todo # <<>> => \A t \in Threads \ {Main} : pc[t] = "idle"
        /\ OneFactory
        /\ \A k \in Range(MainKeys) : k \in Range(todo) \/ m_map[Main][k] # Null
        /\ Spared

\* A search is disturbed only by somebody who inserts.
Disturbed == fault.why = "map" => \E u \in Threads : pc[u] = "insert"

LEMMA RangeOfTail ==
    ASSUME NEW q \in Seq(Keys), q # <<>>
    PROVE  Range(q) = {Head(q)} \union Range(Tail(q))
<1>1. /\ Len(q) \in Nat \ {0} /\ DOMAIN q = 1 .. Len(q)
      /\ Tail(q) \in Seq(Keys) /\ Len(Tail(q)) = Len(q) - 1
      /\ Head(q) = q[1] /\ \A n \in 1 .. Len(Tail(q)) : Tail(q)[n] = q[n + 1]
  BY EmptySeq, LenProperties, HeadTailProperties
<1>2. DOMAIN Tail(q) = 1 .. Len(q) - 1
  BY <1>1, LenProperties
<1> DEFINE t == Tail(q)
<1> HIDE DEF t
<1>3. /\ DOMAIN t = 1 .. Len(q) - 1 /\ \A n \in 1 .. Len(q) - 1 : t[n] = q[n + 1]
      /\ Head(q) = q[1]
  BY <1>1, <1>2 DEF t
<1>4. ASSUME NEW n \in 1 .. Len(q) PROVE q[n] \in {Head(q)} \union Range(t)
  <2>1. CASE n = 1
    BY <1>3, <2>1
  <2>2. CASE n # 1
    <3>1. n - 1 \in 1 .. Len(q) - 1 /\ t[n - 1] = q[n]
      BY <1>1, <1>3, <2>2
    <3> QED
      BY <1>3, <3>1 DEF Range
  <2> QED
    BY <2>1, <2>2
<1>5. ASSUME NEW n \in 1 .. Len(q) - 1 PROVE t[n] \in Range(q)
  <2>1. n + 1 \in 1 .. Len(q) /\ t[n] = q[n + 1]
    BY <1>1, <1>3
  <2> QED
    BY <1>1, <2>1 DEF Range
<1>6. Head(q) \in Range(q)
  BY <1>1, <1>3 DEF Range
<1>7. Range(q) \subseteq {Head(q)} \union Range(t)
  BY <1>1, <1>4 DEF Range
<1>8. Range(t) \subseteq Range(q)
  BY <1>3, <1>5 DEF Range
<1> QED
  BY <1>6, <1>7, <1>8 DEF t

\* What a step that changes neither the factories nor todo has to keep.
LEMMA ServingKept ==
    ASSUME Serving, Defined, orderly, MainKeys # <<>>, UNCHANGED <<m_map, todo, fault>>,
           (todo # <<>> => \A t \in Threads \ {Main} : pc[t] = "idle")', OneFactory'
    PROVE  Serving'
  BY DEF Serving, Spared, Defined

LEMMA InstanceServes ==
    ASSUME Consistent, Serving, Defined, orderly, MainKeys # <<>>,
           NEW t \in Threads, Load(t) \/ Lock(t) \/ New(t) \/ Add(t)
    PROVE  Serving'
<1> USE PluginsAssumption DEF PluginsAssumption
<1>1. /\ UNCHANGED <<m_map, todo, fault>> /\ pc[t] # "idle"
  BY DEF Load, Lock, New, Add, Goto, singleton
<1>2. /\ OneFactory
      /\ todo # <<>> => \A u \in Threads \ {Main} : pc[u] = "idle"
      /\ pc \in [Threads -> Positions] /\ temp \in [Threads -> Threads \union {Null}]
      /\ Main \in Threads /\ Main # Null
  BY DEF Serving, Consistent, TypeOK, Positions, Threads
<1>3. todo # <<>> => t = Main
  BY <1>1, <1>2
<1>4. m_instance = Null => t = Main /\ \A u \in Threads \ {Main} : pc[u] = "idle"
  BY <1>2, <1>3 DEF OneFactory
<1>5. (todo # <<>> => \A u \in Threads \ {Main} : pc[u] = "idle")'
  <2>1. \A u \in Threads \ {t} : pc'[u] = pc[u]
    BY <1>2 DEF Load, Lock, New, Add, Goto
  <2> QED
    BY <1>1, <1>2, <1>3, <2>1
<1>6. CASE Load(t)
  <2>1. /\ pc[t] = "load" /\ pc' = [pc EXCEPT ![t] = IF m_instance = Null THEN "lock" ELSE "use"]
        /\ temp' = [temp EXCEPT ![t] = m_instance] /\ UNCHANGED <<m_instance, todo>>
    BY <1>6 DEF Load, Goto, singleton
  <2>2. OneFactory'
    BY <1>2, <1>4, <2>1 DEF OneFactory, Positions
  <2> QED
    BY <1>1, <1>5, <2>2, ServingKept
<1>7. CASE Lock(t)
  <2>1. /\ pc[t] = "lock" /\ pc' = [pc EXCEPT ![t] = "new"]
        /\ UNCHANGED <<m_instance, temp, todo>>
    BY <1>7 DEF Lock, Goto
  <2>2. m_instance = Null
    BY <1>2, <2>1 DEF OneFactory
  <2>3. OneFactory'
    BY <1>2, <1>4, <2>1, <2>2 DEF OneFactory, Positions
  <2> QED
    BY <1>1, <1>5, <2>3, ServingKept
<1>8. CASE New(t)
  <2>1. /\ pc[t] = "new" /\ pc' = [pc EXCEPT ![t] = "use"]
        /\ temp' = [temp EXCEPT ![t] = t] /\ m_instance' = t /\ todo' = todo
    BY <1>8 DEF New, Goto
  <2>2. m_instance = Null
    BY <1>2, <2>1 DEF OneFactory
  <2>3. OneFactory'
    BY <1>2, <1>4, <2>1, <2>2 DEF OneFactory, Positions
  <2> QED
    BY <1>1, <1>5, <2>3, ServingKept
<1>9. CASE Add(t)
  <2>1. /\ pc[t] = "use" /\ pc' = [pc EXCEPT ![t] = "insert"]
        /\ UNCHANGED <<m_instance, temp, todo>>
    BY <1>9 DEF Add, Goto, singleton
  <2>2. OneFactory'
    BY <1>2, <2>1 DEF OneFactory, Positions
  <2> QED
    BY <1>1, <1>5, <2>2, ServingKept
<1> QED
  BY <1>6, <1>7, <1>8, <1>9

\* A call begins, or a lookup returns; a library's begins when main is done.
LEMMA CallServes ==
    ASSUME Consistent, Serving, Defined, orderly, MainKeys # <<>>,
           NEW t \in Threads, NEW q \in {"idle", "load"}, pc' = [pc EXCEPT ![t] = q],
           IF t = Main THEN pc[Main] = "idle" /\ todo # <<>> ELSE todo = <<>>,
           NEW v, temp' = [temp EXCEPT ![t] = v], UNCHANGED <<m_instance, m_map, todo, fault>>
    PROVE  Serving'
<1>1. /\ OneFactory
      /\ todo # <<>> => \A u \in Threads \ {Main} : pc[u] = "idle"
      /\ pc \in [Threads -> Positions] /\ temp \in [Threads -> Threads \union {Null}]
  BY DEF Serving, Consistent, TypeOK, Positions
<1>2. (todo # <<>> => \A u \in Threads \ {Main} : pc[u] = "idle")'
  BY <1>1
<1>3. OneFactory'
  BY <1>1 DEF OneFactory, Positions
<1> QED
  BY <1>2, <1>3, ServingKept

LEMMA MainInsertServes ==
    ASSUME Consistent, Serving, Defined, orderly, MainKeys # <<>>, MainInsert
    PROVE  Serving'
<1> USE PluginsAssumption DEF PluginsAssumption
<1>1. /\ OneFactory
      /\ todo # <<>> => \A u \in Threads \ {Main} : pc[u] = "idle"
      /\ pc \in [Threads -> Positions] /\ temp \in [Threads -> Threads \union {Null}]
      /\ Main \in Threads /\ Main # Null
      /\ m_map \in [Threads -> [Keys -> Files \union {Main, Null}]]
  BY DEF Serving, Consistent, TypeOK, Positions, Threads
<1>2. /\ pc[Main] = "insert" /\ pc' = [pc EXCEPT ![Main] = "idle"]
      /\ temp' = [temp EXCEPT ![Main] = Null] /\ todo' = Tail(todo)
      /\ m_map' = [m_map EXCEPT ![temp[Main]][key[Main]] = IF @ = Null THEN Main ELSE @]
      /\ UNCHANGED <<m_instance, fault>>
  BY DEF MainInsert, Insert, Return, Goto
<1>3. /\ todo # <<>> /\ key[Main] = Head(todo) /\ key[Main] \in Keys /\ temp[Main] = Main
  BY <1>1, <1>2 DEF Consistent, CallsConsistent, OneFactory
<1>4. m_instance = Main
  BY <1>1, <1>2 DEF OneFactory
<1>5. OneFactory'
  BY <1>1, <1>2, <1>4 DEF OneFactory, Positions
<1>6. (todo # <<>> => \A u \in Threads \ {Main} : pc[u] = "idle")'
  BY <1>1, <1>2, <1>3
<1>7. Range(todo) = {Head(todo)} \union Range(todo')
  BY <1>2, <1>3, RangeOfTail DEF Consistent, TypeOK
<1>8. /\ m_map'[Main][key[Main]] # Null
      /\ \A k \in Keys : m_map[Main][k] # Null => m_map'[Main][k] # Null
  BY <1>1, <1>2, <1>3
<1>9. ASSUME NEW k \in Range(MainKeys) PROVE k \in Range(todo') \/ m_map'[Main][k] # Null
  <2>1. k \in Keys
    BY RangeOfSeq
  <2>2. k \in Range(todo) \/ m_map[Main][k] # Null
    BY DEF Serving
  <2> QED
    BY <1>3, <1>7, <1>8, <2>1, <2>2
<1>10. Spared'
  BY <1>2 DEF Spared, Defined
<1> QED
  BY <1>5, <1>6, <1>9, <1>10 DEF Serving

LEMMA LibraryInsertServes ==
    ASSUME Consistent, Serving, Defined, orderly, MainKeys # <<>>, LibraryInsert
    PROVE  Serving'
<1> USE PluginsAssumption DEF PluginsAssumption
<1>1. /\ OneFactory
      /\ todo # <<>> => \A u \in Threads \ {Main} : pc[u] = "idle"
      /\ pc \in [Threads -> Positions] /\ temp \in [Threads -> Threads \union {Null}]
      /\ Main \in Threads /\ Main # Null /\ Monitor \in Threads \ {Main}
      /\ m_map \in [Threads -> [Keys -> Files \union {Main, Null}]]
  BY DEF Serving, Consistent, TypeOK, Positions, Threads
<1>2. /\ pc[Monitor] = "insert" /\ pc' = [pc EXCEPT ![Monitor] = "idle"]
      /\ temp' = [temp EXCEPT ![Monitor] = Null]
      /\ m_map' = [m_map EXCEPT ![temp[Monitor]][key[Monitor]] = IF @ = Null THEN lib ELSE @]
      /\ UNCHANGED <<m_instance, todo, fault>>
  BY DEF LibraryInsert, Insert, Return, Goto
<1>3. key[Monitor] \in Keys /\ temp[Monitor] = Main /\ todo = <<>>
  BY <1>1, <1>2 DEF Consistent, CallsConsistent, OneFactory
<1>4. OneFactory'
  BY <1>1, <1>2, <1>3 DEF OneFactory, Positions
<1>5. (todo # <<>> => \A u \in Threads \ {Main} : pc[u] = "idle")'
  BY <1>1, <1>2, <1>3
<1>6. \A k \in Keys : m_map[Main][k] # Null => m_map'[Main][k] # Null
  BY <1>1, <1>2, <1>3
<1>7. ASSUME NEW k \in Range(MainKeys) PROVE k \in Range(todo') \/ m_map'[Main][k] # Null
  <2>1. k \in Keys
    BY RangeOfSeq
  <2>2. k \in Range(todo) \/ m_map[Main][k] # Null
    BY DEF Serving
  <2> QED
    BY <1>2, <1>6, <2>1, <2>2
<1>8. Spared'
  BY <1>2 DEF Spared, Defined
<1> QED
  BY <1>4, <1>5, <1>7, <1>8 DEF Serving

\* A key that the factory does not have is no key of main's, once main is done;
\* and while main is not, nobody else is in the factory.
LEMMA FaultsElsewhere ==
    ASSUME Consistent, Serving, Defined, orderly, MainKeys # <<>>,
           NEW t \in Threads, AddFaults(t) \/ (t # Main /\ CreateFaults(t))
    PROVE  Spared'
<1>1. /\ OneFactory
      /\ todo # <<>> => \A u \in Threads \ {Main} : pc[u] = "idle"
      /\ pc[Main] # "idle" => todo # <<>>
      /\ \A k \in Range(MainKeys) : k \in Range(todo) \/ m_map[Main][k] # Null
      /\ pc[t] = "use"
  BY DEF Serving, Consistent, AddFaults, CreateFaults
<1>2. todo = <<>> => \A k \in Range(MainKeys) : m_map[Main][k] # Null
  <2>1. Range(<<>>) = {}
    BY DEF Range
  <2> QED
    BY <1>1, <2>1
<1>3. ASSUME NEW u \in Inserting(t) PROVE key[u] \notin Range(MainKeys)
  <2>1. u \in Threads \ {t} /\ pc[u] = "insert" /\ m_map[temp[u]][key[u]] = Null
    BY DEF Inserting
  <2>2. todo = <<>>
    BY <1>1, <2>1
  <2>3. temp[u] = Main
    BY <1>1, <2>1 DEF OneFactory
  <2> QED
    BY <1>2, <2>1, <2>2, <2>3
<1>4. ASSUME Inserting(t) # {}, Fault("map", key[t]), UNCHANGED calls PROVE Spared'
  <2>1. PICK u \in Inserting(t) : key[u] \notin Range(MainKeys)
    BY <1>3, <1>4
  <2>2. u \in Threads /\ pc'[u] = "insert" /\ key'[u] = key[u]
    BY <1>4 DEF Inserting, calls
  <2> QED
    BY <1>4, <2>1, <2>2 DEF Spared, Fault
<1>5. CASE AddFaults(t)
  BY <1>4, <1>5 DEF AddFaults
<1>6. CASE t # Main /\ CreateFaults(t)
  <2>1. todo = <<>> /\ temp[t] = Main
    BY <1>1, <1>6 DEF OneFactory
  <2>2. ASSUME m_map[temp[t]][key[t]] = Null, Fault("end", key[t]) PROVE Spared'
    BY <1>2, <2>1, <2>2 DEF Fault, Spared
  <2>3. ASSUME Fault("unmapped", key[t]) PROVE Spared'
    BY <2>3 DEF Fault, Spared
  <2> QED
    BY <1>4, <1>6, <2>2, <2>3 DEF CreateFaults
<1> QED
  BY <1>5, <1>6

\* Nothing happens after a fault, and a fault moves no thread.
LEMMA DisturbedNext == Disturbed /\ [Next]_vars => Disturbed'
<1> SUFFICES ASSUME Disturbed, [Next]_vars, fault'.why = "map"
             PROVE  \E u \in Threads : pc'[u] = "insert"
  BY DEF Disturbed
<1>1. CASE UNCHANGED vars
  BY <1>1 DEF Disturbed, vars
<1>2. ASSUME NEW t \in Threads, AddFaults(t) \/ CreateFaults(t)
      PROVE  \E u \in Threads : pc'[u] = "insert"
  <2>1. pc' = pc
    BY <1>2 DEF AddFaults, CreateFaults, calls
  <2>2. Inserting(t) # {}
    BY <1>2 DEF AddFaults, CreateFaults, Fault
  <2> QED
    BY <2>1, <2>2 DEF Inserting
<1>3. CASE ReadFails \/ DestroyLoader
  <2>1. fault' = fault \/ fault'.why \in {"dead", "handle"}
    BY <1>3 DEF ReadFails, DestroyLoader, Fault
  <2>2. pc' = pc
    BY <1>3 DEF ReadFails, DestroyLoader, calls
  <2> QED
    BY <2>1, <2>2 DEF Disturbed
<1>4. CASE Next /\ fault' = fault
  BY <1>4 DEF Next, Defined
<1> QED
  BY <1>1, <1>2, <1>3, <1>4
     DEF Next, Worker, MainThread, MonitorThread, Instance, Load, Lock, New, Create, Request, Start,
         AddToFactory, Add, MainInsert, Insert, Read, LibraryInsert, Move, DestroyMonitor, Threads

LEMMA ServingNext ==
    ASSUME Consistent, Serving, [Next]_vars
    PROVE  Serving'
<1> USE PluginsAssumption DEF PluginsAssumption
<1>1. Main \in Threads /\ Monitor \in Threads \ {Main} /\ Workers \subseteq Threads \ {Main, Monitor}
  BY DEF Threads
<1>2. orderly' => orderly
  BY DEF Next, Worker, MainThread, MonitorThread, Instance, Load, Lock, New, CreateFaults, Create,
         Request, Start, AddToFactory, AddFaults, Add, MainInsert, Insert, Read, LibraryInsert,
         ReadFails, Move, DestroyLoader, DestroyMonitor, vars, Consistent, TypeOK
<1> SUFFICES ASSUME orderly', orderly, MainKeys # <<>>, Defined PROVE Serving'
  <2>1. CASE UNCHANGED vars
    BY <2>1 DEF vars, singleton, calls, Serving, OneFactory, Spared
  <2>2. CASE Next
    BY <1>2, <2>2 DEF Serving, Next
  <2> QED
    BY <2>1, <2>2
<1>3. /\ OneFactory
      /\ todo # <<>> => \A u \in Threads \ {Main} : pc[u] = "idle"
      /\ pc[Main] # "idle" => todo # <<>>
  BY DEF Serving, Consistent
<1>4. ASSUME NEW t \in Threads, Instance(t) \/ Add(t) PROVE Serving'
  BY <1>4, InstanceServes DEF Instance
<1>5. ASSUME NEW w \in Workers, Create(w) PROVE Serving'
  <2>1. /\ pc[w] = "use" /\ pc' = [pc EXCEPT ![w] = "idle"] /\ temp' = [temp EXCEPT ![w] = Null]
        /\ UNCHANGED <<m_instance, m_map, todo, fault>>
    BY <1>5 DEF Create, Return, Goto, singleton
  <2>2. w # Main /\ todo = <<>>
    BY <1>1, <1>3, <2>1
  <2> QED
    BY <1>1, <2>1, <2>2, CallServes
<1>6. ASSUME NEW w \in Workers, NEW k \in Keys, Request(w, k) PROVE Serving'
  <2>1. /\ todo = <<>> /\ pc' = [pc EXCEPT ![w] = "load"] /\ temp' = temp
        /\ UNCHANGED <<m_instance, m_map, todo, fault>>
    BY <1>6 DEF Request, Call, Goto, singleton
  <2>2. temp' = [temp EXCEPT ![w] = temp[w]]
    BY <2>1 DEF Consistent, TypeOK
  <2> QED
    BY <1>1, <2>1, <2>2, CallServes
<1>7. CASE AddToFactory
  <2>1. /\ todo # <<>> /\ pc[Main] = "idle" /\ pc' = [pc EXCEPT ![Main] = "load"] /\ temp' = temp
        /\ UNCHANGED <<m_instance, m_map, todo, fault>>
    BY <1>7 DEF AddToFactory, Call, Goto, singleton
  <2>2. temp' = [temp EXCEPT ![Main] = temp[Main]]
    BY <2>1 DEF Consistent, TypeOK
  <2> QED
    BY <1>1, <2>1, <2>2, CallServes
<1>8. CASE Read
  <2>1. todo = <<>> /\ UNCHANGED <<m_instance, m_map, todo, fault>>
    BY <1>8 DEF Read, singleton
  <2>2. \/ pc' = pc /\ temp' = temp
        \/ pc' = [pc EXCEPT ![Monitor] = "load"] /\ temp' = temp
    BY <1>8 DEF Read, Open, Call, Goto, calls
  <2>3. /\ temp' = [temp EXCEPT ![Monitor] = temp[Monitor]]
        /\ pc = [pc EXCEPT ![Monitor] = pc[Monitor]]
        /\ pc[Monitor] = "idle"
    BY <1>8, <2>2 DEF Consistent, TypeOK, Read
  <2>4. \E q \in {"idle", "load"} : pc' = [pc EXCEPT ![Monitor] = q]
    BY <2>2, <2>3
  <2> QED
    BY <1>1, <2>1, <2>3, <2>4, CallServes
<1>9. ASSUME NEW t \in Threads, AddFaults(t) \/ (t # Main /\ CreateFaults(t)) PROVE Serving'
  <2>1. UNCHANGED <<m_instance, m_map, pc, temp, todo>>
    BY <1>9 DEF AddFaults, CreateFaults, singleton, calls
  <2>2. Spared'
    BY <1>9, FaultsElsewhere
  <2> QED
    BY <2>1, <2>2 DEF Serving, OneFactory
<1>10. CASE ReadFails \/ DestroyLoader
  <2>1. UNCHANGED <<m_instance, m_map, pc, temp, todo>>
    BY <1>10 DEF ReadFails, DestroyLoader, singleton, calls
  <2>2. fault'.why \notin {"map", "end"}
    BY <1>10 DEF ReadFails, DestroyLoader, Fault, Defined
  <2> QED
    BY <2>1, <2>2 DEF Serving, OneFactory, Spared
<1>11. ASSUME Start \/ DestroyMonitor \/ (\E f \in Files : Move(f)) \/ UNCHANGED vars
       PROVE  Serving'
  <2>1. UNCHANGED <<m_instance, m_map, pc, temp, todo, fault>>
    BY <1>11 DEF Start, DestroyMonitor, Move, vars, singleton, calls
  <2> QED
    BY <2>1 DEF Serving, OneFactory, Spared, Defined
<1> QED
  BY <1>1, <1>4, <1>5, <1>6, <1>7, <1>8, <1>9, <1>10, <1>11, MainInsertServes, LibraryInsertServes
  DEF Next, Worker, MainThread, MonitorThread

(***************************************************************************)
(* For any threads and libraries: when main adds its handlers before any   *)
(* library is loaded, every request that it has a handler for finds one,   *)
(* unless its search meets an insert into the map, which only a library    *)
(* makes, for a key that main does not have (singletone.hpp:50-68,         *)
(* factory.hpp:22-40).                                                     *)
(***************************************************************************)
THEOREM MainKeysStayServed == Spec => []MainKeysAreServed
<1>1. Init => Serving /\ Disturbed
  <2> SUFFICES ASSUME Init PROVE Serving /\ Disturbed
    OBVIOUS
  <2>1. (\A t \in Threads : pc[t] = "idle") /\ fault.why = "none"
    BY DEF Init
  <2>2. MainKeys # <<>> => OneFactory
    BY <2>1, PluginsAssumption DEF Init, OneFactory, PluginsAssumption, Threads
  <2> QED
    BY <2>1, <2>2 DEF Init, Serving, Spared, Disturbed
<1>2. Consistent /\ Serving /\ Disturbed /\ [Next]_vars => Serving' /\ Disturbed'
  BY ServingNext, DisturbedNext
<1>3. Serving /\ Disturbed => MainKeysAreServed
  <2>1. MainKeys = <<>> => Range(MainKeys) = {}
    BY DEF Range
  <2> QED
    BY <2>1 DEF Serving, Spared, Disturbed, MainKeysAreServed
<1> QED
  BY <1>1, <1>2, <1>3, PluginsConsistent, PTL DEF Spec
================================================================================
