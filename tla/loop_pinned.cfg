SPECIFICATION Spec
CONSTANTS
    Loops = {l1}
    Main = main
    Coros = {c1, c2, c3}
    Fds = {f1, f2}
    None = none
    Hops = TRUE
    FdTimeouts = {0, 1}
    DelayTimeouts = {1, 2}
    SharedFds = FALSE
    Pinned = TRUE
    Shutdown = FALSE
    MaxAwaits = 2
    MaxTime = 2
    Modulus = 16
INVARIANTS TimerListIntact IndInv
SYMMETRY Symmetry
CHECK_DEADLOCK FALSE
