SPECIFICATION FairSpec
CONSTANTS
    RecvWindow = 6
    MaxPacket = 3
    MaxData <- MCData
CHECK_DEADLOCK FALSE
INVARIANTS
    NoExit
PROPERTIES
    ImplementsStream
    AllDelivered
