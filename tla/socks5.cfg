SPECIFICATION Spec
CONSTANTS
    MaxReasonableOffset = 2
    Environments <- AllEnvironments
CHECK_DEADLOCK FALSE
INVARIANTS
    TypeOK
PROPERTIES
    ImplementsStream
    HalfOpenEnds
    EndDelivered
