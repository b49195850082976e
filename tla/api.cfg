SPECIFICATION Spec
CONSTANTS
  Components = {2, 3}
INVARIANT AgreesWithHelp
