\* Objects and closure variables of one runtime, collected at any time.
SPECIFICATION Spec
CONSTANTS
    Values = {v1, v2, v3}
    Shared = {ctx}
    Context = ctx
    MaxRefs = 1
    MaxLeaks = 1
    MaxEdges = 5
INVARIANTS
    TypeOK
    PinnedKept
    NoDangling
    CountsExact
    AssertsHold
PROPERTY
    CollectionExact
SYMMETRY Interchangeable
CHECK_DEADLOCK FALSE
