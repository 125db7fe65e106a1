SPECIFICATION Spec
CONSTANTS
    Loops = {l1, l2}
    Main = main
    Coros = {c1, c2}
    Fds = {f1}
    None = none
    Hops = TRUE
    FdTimeouts = {0, 1}
    DelayTimeouts = {1}
    SharedFds = TRUE
    Pinned = FALSE
    Shutdown = TRUE
    MaxAwaits = 1
    MaxTime = 1
    Modulus = 16
INVARIANTS TypeOK ExclusiveResume LoadAccounting
SYMMETRY Symmetry
CHECK_DEADLOCK FALSE
