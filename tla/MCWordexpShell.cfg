CONSTANTS
    Outputs <- MCOutputs
    Capacity = 2
    ErrBuf = 1
CHECK_DEADLOCK FALSE
SPECIFICATION FairAskSpec
INVARIANT NothingLeftBehind
INVARIANT SuccessIsComplete
PROPERTY WaitsOnlyForStderr
