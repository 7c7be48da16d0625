SPECIFICATION Spec
CONSTANTS
  None = None
  Torn = Torn
  Retention <- Limits
  MaxId = 3
  MaxChanges = 1
  MaxSchema = 1
  MaxFaults = 2
  MaxExits = 2
CHECK_DEADLOCK FALSE
INVARIANT NotInvented
