CONSTANTS
  Traces <- MCTraces
  Tids <- MCTids
  NThreads = 1
  MaxShared = 1
  MaxAlone = 5
  Ties = {}
SPECIFICATION Spec
INVARIANTS
  NoneLeft
