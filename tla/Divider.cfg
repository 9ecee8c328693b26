SPECIFICATION Spec
CONSTANTS
  Threads <- MCThreads
  Peers = {"a", "b"}
  NoPeer = NoPeer
INVARIANTS
  TypeOK
  GroupsPartitionEvents
  SegmentsAreTheirOwn
  PeersTogether
  RoundsTogether
  EndsMatchTheStack
PROPERTY WaitClosesGroup
