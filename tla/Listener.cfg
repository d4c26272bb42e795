SPECIFICATION FairSpec
CONSTANTS
    NListen = 2
    TotalFds = 8
    Addrs = {a1, a2}
    MAX_UNAUTH_CLIENTS = 3
    MAX_UNAUTH_PER_IP = 2
    MaxConn = 4
    MaxSig = 2
CHECK_DEADLOCK FALSE
INVARIANTS
    TypeOK
    
    ParentFds
    PreauthBounded
PROPERTIES
    ServedWhileFdsLast
    SlotsRecovered
