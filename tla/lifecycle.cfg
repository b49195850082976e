SPECIFICATION Spec
CONSTANTS
  Chips = {c1}
  Props = {b1}
  Players = {p1,p2}
  Scripts = {s1,s2}
  MaxContexts = 2
  MaxRequests = 1
  None = None
SYMMETRY Sym
INVARIANTS TypeOK HandleOwned RunningHasContext SavedIsRunning
PROPERTIES OrphanSources PoolRefined UpdateKeepsChip
