SPECIFICATION HSpec
CONSTANTS
  Processors <- TwoPes
  Waves <- TwoWaves
  Mops <- OneEach
  Links <- Chains
  XitfId <- OwnIds
  Capacity = 2
  Bandwidth = 2
  MaxLoads = 3
  Environments <- Users
CHECK_DEADLOCK FALSE
INVARIANTS HTypeOK Accounted Gapless IndexesAgree
