CONSTANTS
  Traces <- MCAll
  Tids <- MCTids
  NThreads = 2
  MaxShared = 3
  MaxAlone = 5
  Ties = {2, 3}
SPECIFICATION FairSpec
INVARIANTS
  TypeOK
  LastWakerWins
  InOrder
  CleaningIsExact
  CrashesOnly
PROPERTY Ends
