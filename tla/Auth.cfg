SPECIFICATION AuthSpec
CONSTANTS
    Users = {root, u, blank, nobody}
    Valid = {root, u, blank}
    Root = {root, nobody}
    Blank = {blank}
    MaxPubkeyQueries = 3
    Tries = {0, 1, 2, 4}
    Builds = {FALSE, TRUE}
CHECK_DEADLOCK FALSE
INVARIANTS
    LoginProven
    GuessesBounded
