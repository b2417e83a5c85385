SPECIFICATION FFairSpec
CONSTANTS
  Pes = {"r", "a", "b", "c"}
  Root = "r"
  Networks <- Sound
  Room = 6
CHECK_DEADLOCK FALSE
INVARIANTS FTypeOK UniqueIds ProcessorsUnderUs
PROPERTY Discovered
