SPECIFICATION Spec
CONSTANTS
    N = 3
    Parent <- ChainParent
    First = {1, 2, 3}
    Written <- MCWritten
    MaxVersions = 3
    Workloads <- AbortResumed
    MaxKey = 2
    MaxFail = 2
    MaxWrite = 4
INVARIANTS
    NothingLost
CHECK_DEADLOCK FALSE
