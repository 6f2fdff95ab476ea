CONSTANTS
    legacy = legacy
    dcp = dcp
    pcie = pcie
    None = None
    Field = {legacy, dcp}
    Metric = {pcie}
    MetricOf <- MCMetricOf
    Preferred <- MCPreferred
    MaxGap <- MCMaxGap
    MaxTime = 5
SPECIFICATION Spec
INVARIANTS
    TypeOK
    SpansAreExact
    FieldTimeOnce
    ObservedWithinLife
