SPECIFICATION FairSpec
CONSTANTS
    FDs = {3, 4, 5}
    SockCap = 1
    MaxWin = 1
    MaxIn = 3
    MaxOut = 3
    RequestAfterEof = FALSE
CHECK_DEADLOCK FALSE
PROPERTY
WriteReturns
