CONSTANTS
  NFiles   = 4
  OldFiles = {1, 2, 3}
  NewFiles = {1, 3, 4}
  Launcher = 1
  Probed   = {1, 3}
  Windows  = TRUE
SPECIFICATION FairSpec
INVARIANTS TypeOK RestoredExactly Recoverable ReceiptLast
PROPERTIES UnownedKept Terminates CancelRollsBack ImplementsContract
CHECK_DEADLOCK FALSE
