SPECIFICATION Spec
CONSTANTS
  c1 = c1
  c2 = c2
  Chips = {c1}
  Wire <- Loop
  Funcs = {f, g}
  Events = {"tick", "input"}
  OpLimit = 2
  MaxListeners = 2
  TriggerLimit = 1
  MaxTries = 1
  Pasted = Pasted
  None = None
INVARIANT RunningCallbackLive
