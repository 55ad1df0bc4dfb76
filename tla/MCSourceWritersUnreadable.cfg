CONSTANTS
  NFiles   = 2
  MaxEdits = 1
  MaxStuck = 1
SPECIFICATION Spec
INVARIANT FailedFixRestores
CHECK_DEADLOCK FALSE
