CONSTANTS
    util = util
    temp = temp
    fast = fast
    operational = operational
    Field = {util, temp}
    Group = {fast, operational}
    Rank <- MCRank
    GroupOf <- MCGroupOf
    Fast = fast
    Interval <- MCInterval
    KeepAge = 4
    Failing = {}
    Blank = {}
    MaxTime = 4
SPECIFICATION Spec
INVARIANT
    LatestReadWasValid
