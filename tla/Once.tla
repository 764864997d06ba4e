---------------------------------- MODULE Once ----------------------------------
(***************************************************************************)
(* What a singleton promises to its users: one object is made, and whoever *)
(* asks gets that object, or the mark that it is gone.                     *)
(***************************************************************************)
CONSTANTS
    Users,
    Objects,  \* the objects that might be made
    Nothing,  \* no object, a user that has none
    Mark      \* stands for the object after its end

VARIABLES
    object,   \* the object, once there is one
    got       \* what each user was given last

vars == <<object, got>>

Init ==
    /\ object = Nothing
    /\ got = [u \in Users |-> Nothing]

Make(o) ==
    /\ object = Nothing
    /\ object' = o
    /\ UNCHANGED got

Give(u) ==
    /\ object # Nothing
    /\ got' = [got EXCEPT ![u] = object]
    /\ UNCHANGED object

End ==
    /\ object \in Objects
    /\ object' = Mark
    /\ UNCHANGED got

Next ==
    \/ \E o \in Objects : Make(o)
    \/ \E u \in Users : Give(u)
    \/ End

Spec == Init /\ [][Next]_vars
================================================================================
