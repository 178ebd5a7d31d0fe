\* The publisher releases a review hold by hand while a settlement runs.
SPECIFICATION FairGatewaySpec
CONSTANTS
  Publisher = publisher
  Worker = worker
  Reviewer = reviewer
  Task = t1
  Handlers = {x1, x2}
  Funds = 3
  MaxAssignments = 2
  MaxReviews = 1
  MaxHolds = 2
  ReviewTimes = {0}
  ByHand = {"ReleaseReview"}
  HoldsFirst = TRUE
  Drops = FALSE
  KeysExpire = FALSE
PROPERTIES
  DueWorkIsPaid
CHECK_DEADLOCK FALSE
