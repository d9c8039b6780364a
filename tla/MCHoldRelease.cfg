SPECIFICATION FairSpec
CONSTANTS
    w1 = w1
    c1 = c1
    outer1 = outer1
    inner1 = inner1
    innerC = innerC
    other = other
    Workers = {w1}
    Callers = {c1}
    Locks = {outer1, inner1, innerC, other}
    Others = {other}
    Outer <- MCOuter
    Inner <- MCInner
    Free = Free
    Orphan = Orphan
    TTL = 3
    Timeout = 1
    MaxCrashes = 1
INVARIANTS
    LeaseIsExclusive
    ReleaseSafe
    WorkerWaitsForItself
PROPERTIES
    CrashedHolderExpires
    ReleaseReturns
