CONSTANTS
    t1 = t1
    t2 = t2
    CommandLines <- MCCommandLines
    Short <- MCShort
    Long <- MCLong
    Colon = TRUE
    MaxScans = 1
    Threads <- MCThreads
    NoThread = NoThread
    Contents = {"prog", "a", "b", "c", "e", "f"}
    Titles = {"title"}
    Layouts <- MCBlocks
SPECIFICATION ProgramSpec
SYMMETRY Symmetry
CHECK_DEADLOCK FALSE
INVARIANT ScanIsRight
INVARIANT OrdersKept
INVARIANT RescanAgrees
PROPERTY TitleHarmsNothing
