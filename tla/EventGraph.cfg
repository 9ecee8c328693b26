SPECIFICATION FairSpec
CONSTANTS
  Workers = {w1, w2}
  EventIds <- MCEventIds
  Traces <- MCAll
INVARIANTS TypeOK NoDuplicateEdges EdgesAreTheConnections EndpointsComplete WakeupsHaveSource
PROPERTIES EdgesAreStable ImplementsEdgeTable
