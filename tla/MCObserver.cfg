CONSTANTS
    d1 = d1
    d2 = d2
    c1 = c1
    c2 = c2
    c3 = c3
    NoDispatcher = NoDispatcher
    MaxListed = 3
    Dispatchers <- MCDispatchers
    Callbacks <- MCCallbacks

SPECIFICATION Spec
SYMMETRY MCSymmetry
CONSTRAINT MCDefined
INVARIANT BackPointers
INVARIANT NoDangling
INVARIANT EveryoneOnce
