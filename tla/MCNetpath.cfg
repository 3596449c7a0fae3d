CONSTANTS
    t1 = t1
    t2 = t2
    h1 = h1
    h2 = h2
    a1 = a1
    a2 = a2
    Threads <- MCThreads
    Handles <- MCHandles
    NullHandle = NullHandle
    Netids <- MCNetids
    Loads <- MCLoads
    Paths <- MCPaths
    Addresses <- MCAddresses
    NoEntry = NoEntry
SPECIFICATION Spec
SYMMETRY Symmetry
INVARIANT ReturnedStaysValid
PROPERTY OnlyAbsentIsSkipped
PROPERTY UsesDatabaseByItsRules
