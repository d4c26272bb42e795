SPECIFICATION FairSpec
CONSTANTS
    FDs = {3, 4, 5}
    SockCap = 1
    MaxWin = 1
    MaxIn = 1
    MaxOut = 1
    RequestAfterEof = FALSE
PROPERTY
CloseLeadsToRemoval
