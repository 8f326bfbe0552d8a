SPECIFICATION Spec
CONSTANTS
    Tokens = {"t1", "t2"}
    Handles = {"o1", "o2"}
    Workloads <- MCWorkloads
    Secrets = {"a", "b"}
    Configs = {"c"}
    Hmac <- MCHmac
    Page = 1
    Tries = 2
    MaxGen = 3
    MaxWrite = 1
INVARIANTS
    RevokedShutOut
    WithinGrant
    ViewsWhole
    NothingStranded
CHECK_DEADLOCK FALSE
