SPECIFICATION Spec
CONSTANTS
  None = None
  Workers = {w1, w2}
  Threads = {b1, b2}
  Cards = {card1, card2}
  Adapters = {"saving", "draft"}
  Endings = {"stopped"}
  MaxStarts = 2
  MaxDecks = 2
  MaxCrashes = 1
  OverlapStarts = 1
  PastDisturbance = FALSE
SYMMETRY Symmetric
INVARIANT TypeOK
INVARIANT AnnouncedDeckStands
INVARIANT CardsStayFindable
PROPERTY RefusalRestores
PROPERTY ForeignDeckUntouched
