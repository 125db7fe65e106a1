SPECIFICATION FairSpec
CONSTANTS
    Loops = {l1}
    Main = main
    Coros = {c1, c2}
    Fds = {}
    None = none
    Hops = TRUE
    FdTimeouts = {}
    DelayTimeouts = {}
    SharedFds = FALSE
    Pinned = FALSE
    Shutdown = FALSE
    MaxAwaits = 1
    MaxTime = 0
    Modulus = 16
PROPERTIES QueueDrains
CHECK_DEADLOCK FALSE
