CONSTANTS
    r = r
    a = a
    b = b
    c = c
    d = d
    p = p
    q = q
    Field = {r, a, b, c, d, p, q}
    Required = {r}
    Candidates <- MCCandidates
    Profiling = {p, q}
    Families <- MCFamilies
    MetricGroups <- MCMetricGroups
    Flaky = TRUE
SPECIFICATION Spec
INVARIANTS
    TypeOK
    KeptIsMaximal
    NoGroupLeaks
    ProbesBounded
    WatcherIsWhole
