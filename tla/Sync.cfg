SPECIFICATION SFairSpec
CONSTANTS
  SlotLen = 5
  Second = 20
  Period = 3
  Limit = 9
  MaxBehind = 6
  Skews <- Far
  Setups <- All
CHECK_DEADLOCK FALSE
INVARIANTS STypeOK SlotsAgree
PROPERTY KeepsAsking
