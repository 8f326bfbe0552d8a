SPECIFICATION Spec
CONSTANTS
    N = 4
    Parent <- MCParent
    a = a
    b = b
    here = here
    there = there
    Machines <- MCMachines
    Procs <- MCProcs
    Tries = 2
    Day = 2
    Granularity = 1
    Idle = 4
    Workloads <- MCWorkloads
INVARIANTS
    AddedStaysListed
    DiscoversListed
    HeldKept
    AncestorsOutlive
CHECK_DEADLOCK FALSE
