SPECIFICATION FairSpec
CONSTANTS
  Objects = {o1}
  Limit = 1
  MaxQueue = 1
  Orderable = {"RUN", "STEP", "STOP"}
  Dates = {0, 1}
  Failures = {"error", "crash"}
INVARIANTS TypeOK ForgottenIsDead
PROPERTIES OrderNotOverwritten OkReportIsTrue ImplementsHandshake ChangeEnds DeadIsRemoved
