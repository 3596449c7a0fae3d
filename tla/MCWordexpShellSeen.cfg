CONSTANTS
    Outputs <- MCOutputs
    Capacity = 2
    ErrBuf = 1
CHECK_DEADLOCK FALSE
SPECIFICATION AskSpec
INVARIANT PrintedErrorIsSeen
