CONSTANTS
    Level <- MCLevel
    Threshold = 1
    MinRequest = 2
    MaxTime = 5
    MaxCount = 3
    MaxEvents = 4
    None = None
SPECIFICATION Spec
INVARIANTS
    TypeOK
    PublishedIsOneWindow
    RequestsAreSpells
    CounterIsBounded
