SPECIFICATION Spec
CONSTANTS
  None = None
  Places = {p1, p2}
  Workers = {w1}
  MaxFiles = 3
  MaxUuids = 2
  MaxMoves = 1
  MaxOpens = 3
  MaxFaults = 1
  MaxExits = 1
CHECK_DEADLOCK FALSE
INVARIANT TypeOK
INVARIANT ReportedIsRegistered
INVARIANT ReportedIsOpen
INVARIANT NamedCollection
PROPERTY UuidNotStolen
PROPERTY AbsentReported
