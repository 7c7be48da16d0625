SPECIFICATION Spec
CONSTANTS
  None = None
  home = home
  card1 = card1
  card2 = card2
  Workers = {w1, w2}
  Txs = {t1}
  Identities = {card1}
  away = away
  Collections = {home}
  CollectionOf <- OneCollection
  Ratings = {good}
  KnownRatings = {good}
  MaxResends = 1
  MaxCrashes = 0
  ConcurrentRepeats = TRUE
  ReconcileWhileServing = FALSE
INVARIANT AtMostOnce
