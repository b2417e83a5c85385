SPECIFICATION WSpec
CONSTANTS
  o1 = o1
  o2 = o2
  Objects = {o1}
  ObjList <- One
  Limit = 1
  MaxQueue = 2
  MaxCmds = 2
  Orderable = {"RUN", "STEP"}
  Dates = {0}
  Failures = {}
PROPERTY AbortOnlyOnFailure
