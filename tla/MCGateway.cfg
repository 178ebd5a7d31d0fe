\* Two review sessions and two holds, everything may happen.
SPECIFICATION GatewaySpec
CONSTANTS
  Publisher = publisher
  Worker = worker
  Reviewer = reviewer
  Task = t1
  Handlers = {x1, x2}
  Funds = 3
  MaxAssignments = 2
  MaxReviews = 2
  MaxHolds = 2
  ReviewTimes = {0}
  ByHand = {"ReleaseExecute", "ReleaseReview", "Refund"}
  HoldsFirst = FALSE
  Drops = TRUE
  KeysExpire = TRUE
SYMMETRY Symmetry
INVARIANTS
  HoldsNameTheirWork
  PaidReviewWasGiven
  PaidWorkWasAccepted
CHECK_DEADLOCK FALSE
