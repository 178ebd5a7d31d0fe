\* Everything may happen during a cleanup, which may be cut off.
SPECIFICATION RuntimeSpec
CONSTANTS
  Publisher = publisher
  Worker = worker
  Task = t1
  Funds = 2
  MaxAssignments = 2
  MaxHolds = 1
  MaxTime = 1
  CutOffs = TRUE
INVARIANTS
  DeliveredWorkIsKept
PROPERTIES
  OnlyAbandonedWorkIsRefunded
  AbandonedHoldsAreRefunded
CHECK_DEADLOCK FALSE
