CONSTANTS
    MaxScrapes = 2
SPECIFICATION Spec
INVARIANTS
    TypeOK
    CleanExit
PROPERTIES
    StopsAfterSignal
    WindowIsPublished
CHECK_DEADLOCK FALSE
