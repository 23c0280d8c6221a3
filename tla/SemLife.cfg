SPECIFICATION FairSemSpec
CONSTANTS
  Procs = {p1, p2, p3}
  BigCount = 4
  MaxSets = 2
  Openers = {p3}
  Children = {p3}
INVARIANT CreationSerial
INVARIANT UseExclusive
INVARIANT CountsUsers
PROPERTY RemovedUnused
PROPERTY CreateReturns
CHECK_DEADLOCK FALSE
