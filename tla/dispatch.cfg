SPECIFICATION FairSpec
CONSTANTS
  c1 = c1
  c2 = c2
  Chips = {c1, c2}
  Wire <- Ring
  Funcs = {f}
  Events = {"tick", "input", "other"}
  OpLimit = 1
  MaxListeners = 2
  TriggerLimit = 1
  MaxTries = 1
  Pasted = Pasted
  None = None
INVARIANTS TypeOK ListenersDistinct FailureStops
PROPERTY DispatchEnds
