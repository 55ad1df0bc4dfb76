CONSTANTS
  NFiles   = 3
  MaxEdits = 2
  MaxStuck = 1
SPECIFICATION Spec
INVARIANTS AllOrNothing NothingLeftBehind
PROPERTIES SeenEditsKept Terminates
CHECK_DEADLOCK FALSE
