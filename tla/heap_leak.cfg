\* A runtime is freed after a reference was forgotten.
SPECIFICATION Spec
CONSTANTS
    Values = {v1, v2, v3}
    Shared = {ctx}
    Context = ctx
    MaxRefs = 1
    MaxLeaks = 1
    MaxEdges = 5
INVARIANT RuntimeEmpties
SYMMETRY Interchangeable
CHECK_DEADLOCK FALSE
