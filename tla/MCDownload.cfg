SPECIFICATION Spec
CONSTANTS
    Limit = 1
    MaxRedirects = 1
    Uploads = 2
INVARIANTS
    DeliveredWhole
    StagedIsPublished
    NothingLeftRunning
PROPERTIES
    CancelEnds
    BothEnd
\* The update ends.
CHECK_DEADLOCK FALSE
