CONSTANTS
    Calls <- MCCalls
    FileSizes <- MCFileSizes
    BufferSize = 3
    MaxSignals = 2
CHECK_DEADLOCK FALSE
SPECIFICATION FairSpec
INVARIANT StreamInOrder
INVARIANT BytesAccountedFor
PROPERTY CleanupRestoresOffset
PROPERTY Returns
