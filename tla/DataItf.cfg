SPECIFICATION DSpec
CONSTANTS
  Delay = 1
  ExternalDelay = 1
  Rate = 2
  MaxTurn = 3
  Environments <- AllWays
CHECK_DEADLOCK FALSE
INVARIANTS DTypeOK Synchronous NotStranded
PROPERTIES NeverEarly ImplementsLine
