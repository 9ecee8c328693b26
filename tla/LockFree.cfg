SPECIFICATION Spec
CONSTANTS
  Workers = {w1, w2}
  MapFile <- MCMapFile
  Procs <- MCProcs
  Traces <- MCTraces
  Dotted = {"com.apple.x"}
  Torn = "?"
  Null = Null
  MaxBuilds = 1
INVARIANT LookupsFindInfo
CHECK_DEADLOCK FALSE
