SPECIFICATION Spec
CONSTANTS
    a = a
    aPart = aPart
    b = b
    bPart = bPart
    bPartPart = bPartPart
    Workers = {w1, w2}
    Names <- MCNames
    Paths <- MCPaths
    PartName <- MCPartName
    MaxSize = 1
    MaxFiles = 3
    MaxCrash = 1
SYMMETRY Symmetry
INVARIANTS
    TypeOK
    AtomicReplace
    NoPartLeft
PROPERTY
    AckMeansStoredIfAlone
