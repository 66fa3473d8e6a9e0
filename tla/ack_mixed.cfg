SPECIFICATION Spec
CONSTANTS
    Frag = {f1, a1}
    Anonymous = {a1}
    Connection = {}
    Key = {k1, k2, k3}
    NoFrag = NoFrag
    NoKey = NoKey
    MaxAttempts = 3
    StaleLanes = {"General", "Retransmission"}
INVARIANTS TypeOK TimerKeysAgree TimerUsesSentDelay OneTransmission
PROPERTIES RemovedForGood
SYMMETRY Symmetry
CHECK_DEADLOCK FALSE
