CONSTANTS
    nil = nil
    nan = nan
    One = 2
    Int64Blank <- MCInt64Blank
    FP64Blank <- MCFP64Blank
    NotFinite = nan
    Nil = nil
    Field <- MCField
    Cards <- MCCards
    Devices <- MCDevices
    RawOf <- MCRawOf
    MaxValues = 3
SPECIFICATION Spec
INVARIANTS
    TypeOK
    NumbersAreSensible
    AvailableGaugeIsLatest
