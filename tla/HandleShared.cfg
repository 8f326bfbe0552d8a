SPECIFICATION Spec
CONSTANTS
    a = a
    b = b
    Threads <- MCThreads
    Workloads <- MCWorkloads
    Page = 1
    MaxDescs = 3
    MaxVer = 2
    MaxRows = 5
INVARIANTS
    ViewSound
PROPERTIES
    NothingUnseen
    NotFoundIsTrue
    AlarmsExplained
CHECK_DEADLOCK FALSE
