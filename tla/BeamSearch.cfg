SPECIFICATION FairSpec
CONSTANTS
  Graphs <- MCGraphs
  Beams <- MCBeams
  Lookbacks = {0, 1, 2}
  Weights <- MCWeights
  MaxLen = 5
CHECK_DEADLOCK FALSE
INVARIANTS PathsAreCausal ResultIsMaximal AllCausesFound
PROPERTY SearchEnds
