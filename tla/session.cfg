SPECIFICATION Spec
CONSTANTS
  Persons = {ann, bob}
  Seats = {s1, s2}
  MaxContexts = 2
  MaxListeners = 2
  Gap = 2
  None = None
INVARIANTS TypeOK LinesReachCreator LinesSpaced CloseSound
CHECK_DEADLOCK FALSE
