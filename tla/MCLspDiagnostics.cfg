CONSTANTS
  Uris        = {app, lib}
  Lib         = lib
  Texts       = {importing, faulty}
  Bad         = {faulty}
  Importing   = {importing}
  Ids         = {}
  MaxRevision = 2
  MaxWrites   = 1
SPECIFICATION Spec
PROPERTIES OpenConverge WorkerStops
CHECK_DEADLOCK FALSE
