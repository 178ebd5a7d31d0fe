\* A publisher that holds first and does not settle reviews by hand.
SPECIFICATION FairGatewaySpec
CONSTANTS
  Publisher = publisher
  Worker = worker
  Reviewer = reviewer
  Task = t1
  Handlers = {x1, x2}
  Funds = 3
  MaxAssignments = 3
  MaxReviews = 1
  MaxHolds = 2
  ReviewTimes = {0}
  ByHand = {"ReleaseExecute"}
  HoldsFirst = TRUE
  Drops = FALSE
  KeysExpire = FALSE
PROPERTIES
  DueWorkIsPaid
CHECK_DEADLOCK FALSE
