CONSTANTS
    Signals <- MCSignals
    Caught <- MCCaught
    Restarting <- MCRestarting
    Fds = {1, 2}
    NoMask = NoMask
    Forever = Forever
    Timeouts <- MCTimeouts
    NsPerMs = 3
    MsPerSec = 2
    IntMax = 3
SPECIFICATION PpollFairSpec
CHECK_DEADLOCK FALSE
INVARIANT MaskRestored
INVARIANT NoLostSignal
INVARIANT ResultIsTrue
INVARIANT TimeoutIsExact
PROPERTY SignalWakes
