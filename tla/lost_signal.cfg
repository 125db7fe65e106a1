SPECIFICATION FairSpec
CONSTANTS
    Loops = {l1, l2}
    Main = main
    Coros = {c1, c2}
    Fds = {}
    None = none
    Hops = FALSE
    FdTimeouts = {}
    DelayTimeouts = {0}
    SharedFds = FALSE
    Pinned = FALSE
    Shutdown = FALSE
    MaxAwaits = 2
    MaxTime = 0
    Modulus = 16
PROPERTIES TimedWaitsEnd
CHECK_DEADLOCK FALSE
