SPECIFICATION Spec
CONSTANTS
  None = None
  home = home
  card1 = card1
  card2 = card2
  Workers = {w1, w2}
  Txs = {t1, t2}
  Identities = {card1, card2}
  away = away
  Collections = {home, away}
  CollectionOf <- TwoCollections
  Ratings = {good, bogus}
  KnownRatings = {good}
  MaxResends = 1
  MaxCrashes = 1
  ConcurrentRepeats = FALSE
  ReconcileWhileServing = FALSE
SYMMETRY Symmetric
INVARIANT TypeOK
INVARIANT AtMostOnce
INVARIANT AppliedIsTrue
INVARIANT MemoryMatchesJournal
INVARIANT IInv
PROPERTY CompletedForever
PROPERTY RatesOnce
