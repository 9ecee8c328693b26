CONSTANTS
  Traces <- MCTraces
  EventIds <- MCEventIds
  Asserts = FALSE
  MainKnown = {"ui"}
SPECIFICATION Spec
INVARIANTS
  NodesAreFiled
