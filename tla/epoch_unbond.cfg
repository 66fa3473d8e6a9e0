SPECIFICATION Spec
CONSTANTS
    o1 = o1
    o2 = o2
    d1 = d1
    Owner = {o1, o2}
    Delegator = {}
    NoOwner = NoOwner
    MaxMixId = 2
    MinimumPledge = 1
    MaxPledge = 1
    MaxReward = 0
    ActiveSetSizes = {}
    RewardedSetSizes = {}
    IntervalLengths = {}
    Forced = {TRUE, FALSE}
    AssignedLayers = {1}
    InitParams <- BothActive
    InitEpochs = 2
    MaxEpochEvents = 2
    MaxIntervalEvents = 1
    MaxEpochs = 3
    MaxElapsed = 2
CHECK_DEADLOCK FALSE
INVARIANT
    UnbondExecutes
