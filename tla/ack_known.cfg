SPECIFICATION FairSpec
CONSTANTS
    Frag = {f1, f2}
    Anonymous = {}
    Connection = {f2}
    Key = {k1, k2, k3}
    NoFrag = NoFrag
    NoKey = NoKey
    MaxAttempts = 2
    StaleLanes = {"General"}
INVARIANTS NoPanic NeverStuck
PROPERTIES EventuallyAcked
CHECK_DEADLOCK FALSE
