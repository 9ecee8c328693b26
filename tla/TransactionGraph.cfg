CONSTANTS
  Traces <- MCTraces
  EventIds <- MCEventIds
  Asserts = TRUE
  MainKnown = {"ui"}
SPECIFICATION Spec
INVARIANTS
  TypeOK
  NodesAreReachable
  CompleteUnlessEnteredLate
  CrashesOnly
