SPECIFICATION Spec
CONSTANTS
  None = None
  Torn = Torn
  Retention <- Limits
  MaxId = 5
  MaxChanges = 4
  MaxSchema = 2
  MaxFaults = 2
  MaxExits = 3
CHECK_DEADLOCK FALSE
INVARIANT TypeOK
INVARIANT ListedIsWhole
INVARIANT InterruptedIsSeen
PROPERTY OriginalKept
PROPERTY NewestKept
