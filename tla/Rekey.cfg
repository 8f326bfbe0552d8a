SPECIFICATION Spec
CONSTANTS
    N = 4
    Parent <- ChainParent
    First = {1, 2, 3}
    Written <- MCWritten
    MaxVersions = 3
    Workloads <- MCWorkloads
    MaxKey = 3
    MaxFail = 2
    MaxWrite = 5
INVARIANTS
    TreeWhole
    PlanKept
PROPERTIES
    RetiresUnreached
    RekeyEnds
CHECK_DEADLOCK FALSE
