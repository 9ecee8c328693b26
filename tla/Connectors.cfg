SPECIFICATION Spec
CONSTANTS
  Families <- MCFamilies
  QueueVars <- MCQueueVars
INVARIANTS
  TypeOK
  ConnectsWhatHappened
  PairsAreMutual
  ReadsTakeTheirWrites
  EpisodesAreOfOneRequest
