SPECIFICATION CFairSpec
CONSTANTS
  N = 3
  MaxSem = 3
  Environments <- Faults
INVARIANTS CTypeOK NoGap
PROPERTY EveryoneRuns
