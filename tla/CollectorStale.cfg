CONSTANTS
    a = a
    b = b
    None = None
    Unknown = Unknown
    Slot <- MCSlot
    Board <- MCBoard
    NvmlIndex <- MCIndex
    OptionalGroup = {"operational"}
    MaxAge = 0
    Home <- HomesShared
    Faults = {"watch"}
SPECIFICATION Spec
INVARIANT
    MissedIsForgotten
