CONSTANTS
  op1 = op1
  op2 = op2
  Operations = {op1, op2}
  MaxCalls = 2
  Retention = 4
  MaxEntries = 2
  MaxKeys = 3
  MaxIntents = 2
  NoLease = NoLease
  NoCall = NoCall
SPECIFICATION LeasesSpec
CHECK_DEADLOCK FALSE
INVARIANTS
  LaterSubmissionNewTask
