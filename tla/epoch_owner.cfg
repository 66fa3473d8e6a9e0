SPECIFICATION OpSpec
CONSTANTS
    o1 = o1
    o2 = o2
    d1 = d1
    Owner = {o1}
    Delegator = {}
    NoOwner = NoOwner
    MaxMixId = 1
    MinimumPledge = 1
    MaxPledge = 1
    MaxReward = 0
    ActiveSetSizes = {1, 2}
    RewardedSetSizes = {2}
    IntervalLengths = {1, 3}
    Forced = {TRUE, FALSE}
    AssignedLayers = {}
    InitParams <- BothActive
    InitEpochs = 2
    MaxEpochEvents = 1
    MaxIntervalEvents = 2
    MaxEpochs = 2
    MaxElapsed = 2
    Limit = 1
    Leftover = 0
    MaxFaults = 1
CHECK_DEADLOCK FALSE
PROPERTIES
    EpochNamesFresh
    EpochAdvances
    EveryNodeRewarded
