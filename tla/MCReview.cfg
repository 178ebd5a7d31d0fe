\* Two sessions, with ids 9 and 10, of two targets or of one.
SPECIFICATION ReviewSpec
CONSTANTS
  Reviewers = {v1, v2}
  Targets = {e1, e2}
  ReviewTimes = {0, 1}
  PriorReviews = 8
  MaxReviews = 10
SYMMETRY Symmetry
INVARIANTS
  ReviewTypeOK
  OneVerdictEach
PROPERTIES
  NeverLatestAgain
CHECK_DEADLOCK FALSE
