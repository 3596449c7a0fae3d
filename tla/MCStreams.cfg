CONSTANTS
    t1 = t1
    t2 = t2
    Threads <- MCThreads
    NoThread = NoThread
    Fds <- MCFds
    MaxCalls = 3
    Thunks = {1}
    MaxOthers = 1
SPECIFICATION StreamsSpec
SYMMETRY Symmetry
CHECK_DEADLOCK FALSE
INVARIANT DescriptorsHaveOneOwner
INVARIANT ShellIsConnected
