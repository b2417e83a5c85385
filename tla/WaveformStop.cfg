SPECIFICATION WFairSpec
CONSTANTS
  o1 = o1
  o2 = o2
  Objects = {o1}
  ObjList <- One
  Limit = 1
  MaxQueue = 3
  MaxCmds = 3
  Orderable = {"RUN", "STOP"}
  Dates = {0}
  Failures = {}
PROPERTY StopCompletes
