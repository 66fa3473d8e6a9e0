SPECIFICATION FairSpec
CONSTANTS
    c1 = c1
    c2 = c2
    c3 = c3
    Conn = {c1, c2, c3}
    NoConn = NoConn
    Gone = Gone
    r1 = r1
    Receiver = {r1}
    m1 = m1
    m2 = m2
    Msg = {m1, m2}
    NoMsg = NoMsg
    k1 = k1
    Credential = {k1}
    NoCredential = NoCredential
    RetrievalLimit = 1
    Environments <- AllEnvironments
CHECK_DEADLOCK FALSE
INVARIANTS
    TypeOK
    AckedMessagesKept
    InboxFlushed
    CreditedOnce
    KeysImplyRow
    OverdraftBounded
PROPERTIES
    SupersededHandlersEnd
