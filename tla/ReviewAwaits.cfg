SPECIFICATION FairSpec
CHECK_DEADLOCK FALSE
CONSTANTS
  None = None
  Players = {p}
  Cards = {c1}
  Ratings = {good}
  MaxOpenings = 2
  MaxRatings = 2
  MaxBacklog = 1
PROPERTY EveryRatingAnswered
