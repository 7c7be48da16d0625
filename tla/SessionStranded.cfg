SPECIFICATION Spec
CONSTANTS
  None = None
  Workers = {w1}
  Threads = {b1, b2}
  Cards = {card1, card2}
  Adapters = {"saving"}
  Endings = {"paused", "stopped"}
  MaxStarts = 2
  MaxDecks = 2
  MaxCrashes = 0
  OverlapStarts = 1
  PastDisturbance = TRUE
SYMMETRY Symmetric
INVARIANT NothingStranded
