SPECIFICATION LFairSpec
CONSTANTS
  Apps = {"a1", "a2", "a3"}
  ObjsOf <- Mixed
  ExeOf <- MixedExe
  Packets = 2
  MaxQueue = 3
  Environments <- Both
CHECK_DEADLOCK FALSE
INVARIANTS LTypeOK LaunchedOnce
PROPERTIES LoadCompletes LaunchedIsComplete
