CONSTANTS
  Uris        = {lib}
  Lib         = lib
  Texts       = {importing, faulty}
  Bad         = {faulty}
  Importing   = {importing}
  Ids         = {r1, r2}
  MaxRevision = 2
  MaxWrites   = 0
SPECIFICATION Spec
INVARIANTS AnsweredOnce WakeUpPending
PROPERTIES NoStaleAnswer RequestsAnswered
CHECK_DEADLOCK FALSE
