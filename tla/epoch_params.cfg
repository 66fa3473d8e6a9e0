SPECIFICATION Spec
CONSTANTS
    o1 = o1
    o2 = o2
    d1 = d1
    Owner = {}
    Delegator = {}
    NoOwner = NoOwner
    MaxMixId = 0
    MinimumPledge = 1
    MaxPledge = 2
    MaxReward = 1
    ActiveSetSizes = {1, 2}
    RewardedSetSizes = {1, 2}
    IntervalLengths = {}
    Forced = {TRUE, FALSE}
    AssignedLayers = {}
    InitParams <- OneStandby
    InitEpochs = 2
    MaxEpochEvents = 2
    MaxIntervalEvents = 1
    MaxEpochs = 2
    MaxElapsed = 2
CHECK_DEADLOCK FALSE
INVARIANT
    ParamEventsValid
