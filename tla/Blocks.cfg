SPECIFICATION Spec
CONSTANTS
  Families <- MCFamilies
  QueueVars <- MCQueueVars
INVARIANTS
  BlocksAreTied
