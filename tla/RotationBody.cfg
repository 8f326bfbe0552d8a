SPECIFICATION Spec
CONSTANTS
    Limits <- MCLimits
    NameLen = 1
    ValueCt = 256
    Digits = 11
INVARIANT RotationFits
CHECK_DEADLOCK FALSE
