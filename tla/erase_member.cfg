SPECIFICATION Spec
CONSTANTS
    Loops = {l1}
    Main = main
    Coros = {c1, c2}
    Fds = {f1}
    None = none
    Hops = TRUE
    FdTimeouts = {1}
    DelayTimeouts = {}
    SharedFds = FALSE
    Pinned = FALSE
    Shutdown = FALSE
    MaxAwaits = 2
    MaxTime = 2
    Modulus = 16
INVARIANTS EraseOnlyMembers
CHECK_DEADLOCK FALSE
