SPECIFICATION FairSpec
CONSTANTS
    Loops = {l1}
    Main = main
    Coros = {c1, c2}
    Fds = {f1}
    None = none
    Hops = TRUE
    FdTimeouts = {0, 1}
    DelayTimeouts = {1, 2}
    SharedFds = FALSE
    Pinned = TRUE
    Shutdown = FALSE
    MaxAwaits = 2
    MaxTime = 2
    Modulus = 16
PROPERTIES TimedWaitsEnd
CHECK_DEADLOCK FALSE
