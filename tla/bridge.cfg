SPECIFICATION Spec
CONSTANTS
  MaxArgs = 2
  MaxCalls = 2
  Unconvertible = TRUE
INVARIANTS TypeOK FaultSources LeavesStack ArgumentsArrive
