SPECIFICATION PrimSpec
CONSTANTS
    Coros = {c1, c2, c3}
    None = none
    MaxLocks = 2
    Waiters = {w1, w2}
    Setters = {s1, s2}
    NoOne = noone
    MaxWaits = 2
    MaxSets = 2
    Users = {u1, u2, u3}
    Half = 4
    MaxCalls = 2
    Works = {k1, k2, k3}
    Nobody = nobody
    Tasks = {t1, t2}
    Callers = {i1, i2}
    Asked <- MCAsked
    Concurrency = 2
    Cap = 64
    MaxLoad = 2
INVARIANTS MutualExclusion NoWaiterLost WaitersAccounted
    SetsConserved JoinedAfterWork ResumedOnce StartedOnce
PROPERTIES IsFifo WaitersServed SetReleasesAll SyncWaitReturns
    AwaiterGoesOn
CHECK_DEADLOCK FALSE
