SPECIFICATION MCSpec
CONSTANTS
    Empty = Empty
    Own = Own
    Secrets = {s1}
    Ops = {"mint", "delete"}
    MaxAsks = 2
    MaxLinks = 2
    Workloads <- MCWorkloads
    Procs = {"gv1", "gv2"}
    Keys = {"k1", "k2"}
    Jobs <- MCJobs
    MaxIno = 2
INVARIANTS
    NoBlindOverwrite
    WholeAlone
    KeysKept
PROPERTIES
    Decides
    NothingLingers
CHECK_DEADLOCK FALSE
