CONSTANTS
    util = util
    temp = temp
    fast = fast
    operational = operational
    Field = {util, temp}
    Group = {fast, operational}
    Rank <- MCRank
    GroupOf <- MCGroupOf
    Fast = fast
    Interval <- MCInterval
    KeepAge = 4
    Failing = {fast, operational}
    Blank = {temp}
    MaxTime = 4
SPECIFICATION Spec
INVARIANT
    ReturnedIsCounted
