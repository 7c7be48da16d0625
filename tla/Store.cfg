SPECIFICATION Spec
CONSTANTS
  None = None
  map = map
  Entities = {e1, e2}
  Maps = {map}
  MapOf <- OneMap
  Cards = {c1, c2}
  Texts = {t}
  Values = {v}
  Locators = {l1, l2}
  HISTORY_LIMIT = 2
  MaxChanges = 3
  MaxEvents = 1
SYMMETRY Symmetric
INVARIANT TypeOK
INVARIANT CursorStands
INVARIANT UndoApplies
PROPERTY HistoryReverses
INVARIANT OneLine
