-------------------------------- MODULE Observer --------------------------------
(***************************************************************************)
(* Dispatcher<Event> and CallbackBase<Event> (observer.hpp).  A dispatcher *)
(* has a list of pointers to callbacks, a callback a pointer back to its   *)
(* dispatcher, and both destructors use them to undo the registration.     *)
(*                                                                         *)
(* NotifyAll runs the owner's function of each callback from inside its    *)
(* loop.  That function may call every operation of this module, so        *)
(* between two steps of a loop any other action may happen.  An operation  *)
(* is one action.  Nobody calls NotifyAll on a dispatcher from inside its  *)
(* own loop, and objects are identified by their addresses.                *)
(*                                                                         *)
(* ~Dispatcher too runs a function of the owner of each callback, for      *)
(* StopObserving.  That one is taken to call nothing of this module, as is *)
(* true of every owner in the repository, so the destructor is one action. *)
(***************************************************************************)
EXTENDS Integers, Sequences, SequencesExt

CONSTANTS
    Dispatchers,  \* addresses of dispatchers
    Callbacks,    \* addresses of callbacks
    NoDispatcher, \* the null pointer
    MaxListed     \* bound on the length of a list

ASSUME ObserverAssumption ==
    /\ NoDispatcher \notin Dispatchers
    /\ MaxListed \in Nat

VARIABLES
    disp,           \* the dispatchers that exist
    cbs,            \* the callbacks that exist
    m_subscribers,  \* each dispatcher's list, front first
    m_dispatcher,   \* each callback's pointer to its dispatcher
    cursor,         \* NotifyAll's iterator: a position, NoLoop or Freed
    undefined,      \* memory of a destroyed object or node was used
    owed,           \* history: who was there when the loop began, still is,
                    \* and was not told yet
    reattached      \* history: attached while a dispatcher still listed it

lists == <<m_subscribers, m_dispatcher, cursor, owed>>
vars == <<disp, cbs, lists, undefined, reattached>>

NoLoop == 0
Freed == -1  \* the node under the iterator was erased

TypeOK ==
    /\ disp \subseteq Dispatchers
    /\ cbs \subseteq Callbacks
    /\ m_subscribers \in [Dispatchers -> Seq(Callbacks)]
    /\ m_dispatcher \in [Callbacks -> Dispatchers \union {NoDispatcher}]
    /\ cursor \in [Dispatchers -> Nat \union {Freed}]
    /\ undefined \in BOOLEAN
    /\ owed \in [Dispatchers -> SUBSET Callbacks]
    /\ reattached \subseteq Callbacks

\* The callbacks that d's list points to.
Listed(d) == Range(m_subscribers[d])

Init ==
    /\ disp = {} /\ cbs = {}
    /\ m_subscribers = [d \in Dispatchers |-> <<>>]
    /\ m_dispatcher = [c \in Callbacks |-> NoDispatcher]
    /\ cursor = [d \in Dispatchers |-> NoLoop]
    /\ undefined = FALSE
    /\ owed = [d \in Dispatchers |-> {}]
    /\ reattached = {}

--------------------------------------------------------------------------------

NewDispatcher(d) ==
    /\ d \in Dispatchers \ disp
    /\ disp' = disp \union {d}
    /\ UNCHANGED <<cbs, lists, undefined, reattached>>

NewCallback(c) ==
    /\ c \in Callbacks \ cbs
    /\ cbs' = cbs \union {c}
    /\ UNCHANGED <<disp, lists, undefined, reattached>>

\* Mutant of Attach: push_back.
AttachBack(d, c) ==
    /\ d \in disp /\ c \in cbs
    /\ Len(m_subscribers[d]) < MaxListed
    /\ m_dispatcher' = [m_dispatcher EXCEPT ![c] = d]
    /\ m_subscribers' = [m_subscribers EXCEPT ![d] = Append(@, c)]
    /\ reattached' = IF \E e \in Dispatchers : c \in Listed(e)
                     THEN reattached \union {c} ELSE reattached
    /\ UNCHANGED <<disp, cbs, cursor, undefined, owed>>

\* The callback forgets the dispatcher it had; the new node goes to the front,
\* which leaves a running loop at the node it is at.
Attach(d, c) ==
    /\ d \in disp /\ c \in cbs
    /\ Len(m_subscribers[d]) < MaxListed
    /\ m_dispatcher' = [m_dispatcher EXCEPT ![c] = d]
    /\ m_subscribers' = [m_subscribers EXCEPT ![d] = <<c>> \o @]
    /\ cursor' = [cursor EXCEPT ![d] = IF @ > 0 THEN @ + 1 ELSE @]
    /\ reattached' = IF \E e \in Dispatchers : c \in Listed(e)
                     THEN reattached \union {c} ELSE reattached
    /\ UNCHANGED <<disp, cbs, undefined, owed>>

\* Where the iterator of a loop is after the node at position i was erased.
Shift(at, i) == CASE at = i -> Freed [] at > i -> at - 1 [] OTHER -> at

\* The node at position i goes, and the callback it held has no dispatcher.
EraseAt(d, i) ==
    LET c == m_subscribers[d][i] IN
    /\ m_subscribers' = [m_subscribers EXCEPT ![d] = RemoveAt(@, i)]
    /\ m_dispatcher' = [m_dispatcher EXCEPT ![c] = NoDispatcher]
    /\ cursor' = [cursor EXCEPT ![d] = Shift(@, i)]
    /\ owed' = [owed EXCEPT ![d] = @ \ {c}]

\* Detach's search: the first node of d's list that holds c is erased, and
\* nothing happens when there is none.
Erase(d, c) ==
    \/ c \notin Listed(d) /\ UNCHANGED lists
    \/ \E i \in DOMAIN m_subscribers[d] :
          /\ m_subscribers[d][i] = c
          /\ \A j \in 1 .. (i - 1) : m_subscribers[d][j] # c
          /\ EraseAt(d, i)

Detach(d, c) ==
    /\ d \in disp /\ c \in cbs
    /\ Erase(d, c)
    /\ UNCHANGED <<disp, cbs, undefined, reattached>>

\* Mutant of DestroyCallback: the destructor leaves the list alone.
DestroyCallbackOnly(c) ==
    /\ c \in cbs
    /\ cbs' = cbs \ {c}
    /\ m_dispatcher' = [m_dispatcher EXCEPT ![c] = NoDispatcher]
    /\ UNCHANGED <<disp, m_subscribers, cursor, undefined, owed, reattached>>

\* ~CallbackBase: m_dispatcher->Detach(this), when there is a dispatcher.
DestroyCallback(c) ==
    /\ c \in cbs
    /\ cbs' = cbs \ {c}
    /\ \/ m_dispatcher[c] = NoDispatcher /\ UNCHANGED <<lists, undefined>>
       \/ /\ m_dispatcher[c] # NoDispatcher
          /\ Erase(m_dispatcher[c], c)
          /\ undefined' = (undefined \/ m_dispatcher[c] \notin disp)
    /\ UNCHANGED <<disp, reattached>>

\* Mutant of DestroyDispatcher: SetDispatcher(0) is not called.
DestroyDispatcherOnly(d) ==
    /\ d \in disp
    /\ disp' = disp \ {d}
    /\ m_subscribers' = [m_subscribers EXCEPT ![d] = <<>>]
    /\ cursor' = [cursor EXCEPT ![d] = IF @ = NoLoop THEN NoLoop ELSE Freed]
    /\ owed' = [owed EXCEPT ![d] = {}]
    /\ UNCHANGED <<cbs, m_dispatcher, undefined, reattached>>

\* ~Dispatcher: StopObserving and SetDispatcher(0) on every callback it lists.
DestroyDispatcher(d) ==
    /\ d \in disp
    /\ disp' = disp \ {d}
    /\ m_dispatcher' = [c \in Callbacks |->
                          IF c \in Listed(d) THEN NoDispatcher ELSE m_dispatcher[c]]
    /\ undefined' = (undefined \/ ~(Listed(d) \subseteq cbs))
    /\ m_subscribers' = [m_subscribers EXCEPT ![d] = <<>>]
    /\ cursor' = [cursor EXCEPT ![d] = IF @ = NoLoop THEN NoLoop ELSE Freed]
    /\ owed' = [owed EXCEPT ![d] = {}]
    /\ UNCHANGED <<cbs, reattached>>

--------------------------------------------------------------------------------

\* The loop is at node i with a call owed to left: it calls Update there, or
\* ends behind the last node.
Visit(d, i, left) ==
    \/ /\ i > Len(m_subscribers[d])
       /\ cursor' = [cursor EXCEPT ![d] = NoLoop]
       /\ owed' = [owed EXCEPT ![d] = left]
       /\ UNCHANGED undefined
    \/ /\ i \in DOMAIN m_subscribers[d]
       /\ cursor' = [cursor EXCEPT ![d] = i]
       /\ owed' = [owed EXCEPT ![d] = left \ {m_subscribers[d][i]}]
       /\ undefined' = (undefined \/ m_subscribers[d][i] \notin cbs)

\* NotifyAll is called: it = begin().
NotifyAll(d) ==
    /\ d \in disp
    /\ cursor[d] = NoLoop
    /\ Visit(d, 1, Listed(d))
    /\ UNCHANGED <<disp, cbs, m_subscribers, m_dispatcher, reattached>>

\* Update returned: it++.
Step(d) ==
    /\ cursor[d] > 0
    /\ Visit(d, cursor[d] + 1, owed[d])
    /\ UNCHANGED <<disp, cbs, m_subscribers, m_dispatcher, reattached>>

\* Update returned and it++ reads the link of a node that is gone: the program
\* dies, which ends the behaviour, or the loop ends, or it goes on somewhere.
StepFreed(d) ==
    /\ cursor[d] = Freed
    /\ \E i \in 0 .. Len(m_subscribers[d]) : cursor' = [cursor EXCEPT ![d] = i]
    /\ undefined' = TRUE
    /\ UNCHANGED <<disp, cbs, m_subscribers, m_dispatcher, owed, reattached>>

Next ==
    \/ \E d \in Dispatchers :
          \/ NewDispatcher(d) \/ DestroyDispatcher(d)
          \/ NotifyAll(d) \/ Step(d) \/ StepFreed(d)
          \/ \E c \in Callbacks : Attach(d, c) \/ Detach(d, c)
    \/ \E c \in Callbacks : NewCallback(c) \/ DestroyCallback(c)

Spec == Init /\ [][Next]_vars

--------------------------------------------------------------------------------

\* A callback that has a dispatcher has one that exists and lists it: its
\* destructor finds what it looks for, whatever was attached, detached and
\* destroyed before (observer.hpp:121-130).
BackPointers ==
    \A c \in Callbacks, d \in Dispatchers : m_dispatcher[c] = d =>
        c \in cbs /\ d \in disp /\ c \in Listed(d)

\* A dispatcher lists no destroyed callback, except one that was attached while
\* it was still listed: a callback has one pointer and leaves one list only.
NoDangling ==
    \A d \in Dispatchers : Listed(d) \subseteq cbs \union reattached

\* The nodes of d's list that a running loop still has before it.
Behind(d) ==
    IF cursor[d] = NoLoop THEN {} ELSE (cursor[d] + 1) .. Len(m_subscribers[d])

\* NotifyAll tells everyone it owes a call, once: who is behind the iterator is
\* owed a call, who is not is owed none, also while callbacks come and go, as
\* long as the program is defined and nobody was attached while listed.
EveryoneOnce ==
    ~undefined /\ reattached = {} =>
        \A d \in Dispatchers : cursor[d] # Freed =>
            owed[d] = {m_subscribers[d][i] : i \in Behind(d)}
================================================================================
