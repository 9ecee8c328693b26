SPECIFICATION Spec
CONSTANTS
  Families <- MCFamilies
INVARIANTS
  WholeOperations
  FreedMeansUndelivered
CHECK_DEADLOCK FALSE
