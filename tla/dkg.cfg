SPECIFICATION Spec
CHECK_DEADLOCK FALSE
CONSTANTS
    a = a
    b = b
    c = c
    None = None
    Dealer <- MCDealer
    Index <- MCIndex
    Chunk <- MCChunk
    Environments <- MCEnvironments
INVARIANTS
    TypeOK
    ProgressMatchesStorage
    VerifiedKeysAgree
    KeyPersisted

    
