CONSTANTS
  NFiles   = 3
  OldFiles = {1, 2, 3}
  NewFiles = {1, 3}
  Launcher = 1
  Probed   = {1, 3}
  Windows  = TRUE
SPECIFICATION Spec
INVARIANT RecoveryFilesRemain
CHECK_DEADLOCK FALSE
