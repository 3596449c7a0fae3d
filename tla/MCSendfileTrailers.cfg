CONSTANTS
    Calls <- MCCalls
    FileSizes <- MCFileSizes
    BufferSize = 3
    MaxSignals = 2
CHECK_DEADLOCK FALSE
SPECIFICATION Spec
INVARIANT TrailersComplete
