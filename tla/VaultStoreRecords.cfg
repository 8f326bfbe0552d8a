SPECIFICATION Spec
CONSTANTS
    VaultId = {v1}
    TokenId = {}
    Kind = {"secret"}
    Name = {n1, n2}
    Value = {1, 2}
    NameBytes = 1
    WriteTime = {0}
    MaxVersions <- MCMaxVersions
    MaxLive <- MCMaxLive
    MaxValue <- MCMaxValue
    MaxTokens = 1
    MaxVaultBytes = 5
    TouchGranularity = 0
    MaxPk = 1
    MaxTime = 0
    MaxVersion = 3
    MaxGeneration = 2
    MaxRevision = 5
    MaxAudit = 5
    MaxJournal = 2
SYMMETRY Symmetry
INVARIANTS
    TypeOK
    HeadsAgree
    StorageExact
PROPERTIES
    VersionsAssignedOnce
    RotationLosesNothing
CHECK_DEADLOCK FALSE
