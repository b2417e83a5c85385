SPECIFICATION VFairSpec
CONSTANTS
  a = a
  b = b
  Objects <- Two
  MaxVars = 3
  MaxReports = 2
  MaxQueue = 3
  Environments <- Users
INVARIANTS VTypeOK Registered NothingLeft
PROPERTY CallsEnd
