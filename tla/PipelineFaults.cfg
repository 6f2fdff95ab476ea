CONSTANTS
    util = util
    legacy = legacy
    dcp = dcp
    fast = fast
    rates = rates
    prof = prof
    active = active
    pcie = pcie
    None = None
    Field = {util, dcp}
    Group = {fast, prof}
    Rank <- MCRank
    GroupOf <- MCGroupOf
    Fast = fast
    Interval <- MCInterval
    KeepAge = 2
    Failing = {fast, prof}
    Blank = {dcp}
    MaxTime = 4
    Metric = {active, pcie}
    MetricOf <- MCMetricOf
    Preferred <- MCPreferred
    MaxGap <- MCMaxGap
SPECIFICATION PipelineSpec
INVARIANTS
    TypeOK
    ShownUnlessDropped
    AvailableIsRecent
    QuietTimeIsIntegrated
PROPERTIES
    ValuesDelivered
    IntegralsKept
