SPECIFICATION Spec
CHECK_DEADLOCK FALSE
CONSTANTS
    NoEntry = NoEntry
    Reply = {1, 2}
    MinThreshold = 2
    MaxThreshold = 6
    MinRequest = 2
    MaxRequest = 3
    MaxAllowed = 3
    BatchSize = 2
    Environments <- MCEnvironments
INVARIANTS
    TypeOK
    SpentSurbsAreGone
    RepliesReadable
    PendingReceptionJustified
PROPERTIES
    RepliesLeave
    
