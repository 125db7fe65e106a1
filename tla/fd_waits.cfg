SPECIFICATION FairSpec
CONSTANTS
    Loops = {l1, l2}
    Main = main
    Coros = {c1, c2}
    Fds = {f1, f2}
    None = none
    Hops = FALSE
    FdTimeouts = {0}
    DelayTimeouts = {}
    SharedFds = FALSE
    Pinned = FALSE
    Shutdown = FALSE
    MaxAwaits = 1
    MaxTime = 0
    Modulus = 16
INVARIANTS ScheduledIsRegistered
PROPERTIES ReadyWaitsEnd
CHECK_DEADLOCK FALSE
