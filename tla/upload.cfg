SPECIFICATION FairSpec
CONSTANTS
  one = one
  two = two
  Scripts <- MCScripts
  Chunks <- MCChunks
  Heavy = {one}
  Chips = {c1,c2}
  None = None
  MaxSent = 2
  MaxRequests = 1
INVARIANTS TypeOK IntactUnlessTorn LatestClickRuns NoResidue ShownIsLatest
PROPERTY ValidationAnswered
