SPECIFICATION Spec
CONSTANTS
    VaultId = {v1}
    TokenId = {t1, t2}
    Kind = {"secret", "config"}
    Name = {n1}
    Value = {1}
    NameBytes = 1
    WriteTime = {0}
    MaxVersions <- MCMaxVersions
    MaxLive <- MCMaxLive
    MaxValue <- MCMaxValue
    MaxTokens = 1
    MaxVaultBytes = 5
    TouchGranularity = 0
    MaxPk = 1
    MaxTime = 1
    MaxVersion = 2
    MaxGeneration = 2
    MaxRevision = 3
    MaxAudit = 4
    MaxJournal = 2
SYMMETRY Symmetry
INVARIANTS
    GenerationUniform
    NoOrphans
    DescriptorChain
CHECK_DEADLOCK FALSE
