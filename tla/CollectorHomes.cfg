CONSTANTS
    a = a
    b = b
    None = None
    Unknown = Unknown
    Slot <- MCSlot
    Board <- MCBoard
    NvmlIndex <- MCIndex
    OptionalGroup = {"operational"}
    MaxAge = 0
    Home <- HomesApart
    Faults <- ButIndex
SPECIFICATION ClockSpec
INVARIANTS
    TypeOK
    SeriesAreActive
    ReadyMeansComplete
    ReadyShowsEveryGPU
    GaugesMatchPass
PROPERTIES
    NoSeriesLossWhileListed
    HungGoesUnready
    KeepsPromise
    Recovers
