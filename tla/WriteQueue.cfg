SPECIFICATION FairSpec
CONSTANTS
    Window <- MCWindow
    MaxPacket = 1
    Overhead = 1
    QueueLimit = 2
    SockCap = 3
    MaxData <- MCData
CHECK_DEADLOCK FALSE
INVARIANTS
    CreditConserved
    QueueBounded
PROPERTY
    DeliveredUnlessStalled
