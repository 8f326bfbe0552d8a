SPECIFICATION MCSpec
CONSTANTS
    VaultId = {a}
    TokenId = {t1}
    Nonce = {n1}
    Thread = {h1, h2}
    Scope = {"admin"}
    Op = {"put_secret", "rotate", "delete", "revoke", "register", "get_secret"}
    Skew = 1
    Idle = 2
    Granularity = 0
    MaxStall = 1
    MaxPk = 1
    MaxTime = 3
    MaxGeneration = 2
    MaxSigned = 2
    Sent <- MCSent
    Extra <- MCExtra
    MaxSeen = 3
    Place = {pa, pb}
    Name = {na, nb}
    Holder = {ta, tb}
    MaxSealed = 2
SYMMETRY Symmetry
INVARIANTS
    ServedOnce
    OnlyTheirs
    RoutedAsAsked
    RefusalsUnderstood
    WritesLandOnWhatWasSeen
    OpensInPlace
    SignedAsSent
CHECK_DEADLOCK FALSE
