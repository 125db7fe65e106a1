SPECIFICATION Spec
CONSTANTS
    Loops = {l1, l2}
    Main = main
    Coros = {c1, c2}
    Fds = {f1}
    None = none
    Hops = FALSE
    FdTimeouts = {0}
    DelayTimeouts = {1}
    SharedFds = TRUE
    Pinned = FALSE
    Shutdown = FALSE
    MaxAwaits = 2
    MaxTime = 1
    Modulus = 16
INVARIANTS NoDanglingEvent NoDanglingTimer
SYMMETRY Symmetry
CHECK_DEADLOCK FALSE
