SPECIFICATION WSpec
CONSTANTS
  o1 = o1
  o2 = o2
  Objects = {o1, o2}
  ObjList <- Two
  Limit = 1
  MaxQueue = 2
  MaxCmds = 1
  Orderable = {"RUN"}
  Dates = {0}
  Failures = {"crash"}
INVARIANT StartBarrier
