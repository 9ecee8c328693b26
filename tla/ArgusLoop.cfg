SPECIFICATION Spec
CONSTANTS
  Workers = {w1, w2, w3}
  MapFile <- MCMapFile
  Procs <- MCProcs
  Traces <- MCTraces
  Dotted = {"com.apple.x"}
  Torn = "?"
  Null = Null
  MaxBuilds = 3
SYMMETRY Symmetry
INVARIANTS
  TypeOK
  OnlyEnteringThreadsAreMissed
  OnlyContestedNamesVary
  IdentityAcrossBuilds
  DeletedGroupsAreLeft
CHECK_DEADLOCK FALSE
