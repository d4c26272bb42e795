SPECIFICATION FairSpec
CONSTANTS
    FDs = {3, 4, 5, 6}
    SockCap = 2
    MaxWin = 2
    MaxIn = 3
    MaxOut = 4
    RequestAfterEof = TRUE
INVARIANTS
    TypeOK
    BackendFdIntact
    NothingLeaks
    OutputComplete
    WorkerFileIntact
PROPERTIES
    CloseCarriesStatus
    EofLeadsToClose
    EndLeadsToOver
