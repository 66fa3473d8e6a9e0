SPECIFICATION Spec
CONSTANTS
    o1 = o1
    o2 = o2
    d1 = d1
    Owner = {o1, o2}
    Delegator = {d1}
    NoOwner = NoOwner
    MaxMixId = 2
    MinimumPledge = 1
    MaxPledge = 2
    MaxReward = 1
    ActiveSetSizes = {}
    RewardedSetSizes = {}
    IntervalLengths = {}
    Forced = {TRUE, FALSE}
    AssignedLayers = {1}
    InitParams <- BothActive
    InitEpochs = 2
    MaxEpochEvents = 2
    MaxIntervalEvents = 1
    MaxEpochs = 2
    MaxElapsed = 2
SYMMETRY OwnerSymmetry
CHECK_DEADLOCK FALSE
INVARIANTS
    TypeOK
    BondEventsExecutable
    DelegationsCounted
    PledgeCovered
    NotYetRewarded
PROPERTIES
    RollsUpToDate
