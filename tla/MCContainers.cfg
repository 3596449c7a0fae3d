CONSTANTS
    Memory = 13
    Header = 1
    Alignment = 2
    ChunkSize = 4
    Slack = 1
    MaxLength = 2
    MaxObjects = 3
    Keys <- MCKeys
    Data = {1, 2}
    Nels = {0, 4, 9, 254}
    UintRange = 256
    Strings <- MCStrings
    Delim = ":"
    Ahead <- MCAhead
    MaxArgc = 2
    MaxLen = 6
    InitialSize = 1
    HeapSize = 2
    ElementSize = 2
    SizeMax = 13
    MaxItems = 4
    Nodes = {0, 1, 2, 3}
    Sources <- MCSources
    Files <- MCFiles
    Numerals <- MCNumerals
    Asked <- MCAsked
    MallocPlaces = {1, 2, 3}
    FirstAliases = 2
    PointerSize = 4
    MaxBuflen = 16
SPECIFICATION Spec
INVARIANT ObjectsSurvive
INVARIANT SearchIsMap
INVARIANT VectorIsItsStrings
INVARIANT ElementsHaveOneOwner
INVARIANT ArrayIsTheSet
INVARIANT ServicesAreTheFile
