SPECIFICATION WSpec
CONSTANTS
  o1 = o1
  o2 = o2
  Objects = {o1}
  ObjList <- One
  Limit = 1
  MaxQueue = 2
  MaxCmds = 3
  Orderable = {"INIT", "RUN", "STEP", "STOP"}
  Dates = {0}
  Failures = {"error", "crash", "load"}
INVARIANTS WTypeOK ViewIsReal
