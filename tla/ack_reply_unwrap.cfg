SPECIFICATION Spec
CONSTANTS
    Frag = {a1}
    Anonymous = {a1}
    Connection = {}
    Key = {k1, k2}
    NoFrag = NoFrag
    NoKey = NoKey
    MaxAttempts = 3
    StaleLanes = {}
INVARIANT NoPanic
CHECK_DEADLOCK FALSE
