CONSTANTS
    t1 = t1
    t2 = t2
    h1 = h1
    h2 = h2
    Threads <- MCThreads
    Handles <- MCHandles
    NoThread = NoThread
    NullHandle = NullHandle
    FileNetids <- MCFileNetids
    Files <- MCFiles
    FirstCap = 2
SPECIFICATION Spec
SYMMETRY Symmetry
INVARIANT RefcountIsExact
INVARIANT HandedOutStaysValid
INVARIANT NoPartialTable
PROPERTY NotFoundIsTrue
PROPERTY ImplementsDB
