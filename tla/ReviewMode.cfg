SPECIFICATION Spec
CHECK_DEADLOCK FALSE
CONSTANTS
  None = None
  Players = {p, q}
  Cards = {c1, c2}
  Ratings = {good, hard}
  MaxOpenings = 2
  MaxRatings = 2
  MaxBacklog = 1
SYMMETRY Symmetric
INVARIANT TypeOK
INVARIANT ExclusiveReviewMode
INVARIANT AnswerSeenFirst
INVARIANT AppliedIsTrue
INVARIANT OneAcceptedRating
