SPECIFICATION Spec
CONSTANTS
    Kinds <- MCStream
    Protocols <- MCBoth
    PendingMax = 1
    Vectors <- MCVectors
    Limits <- MCLimits
    MaxBytes = 3
    MaxReads = 1
    MaxStack = 2
CHECK_DEADLOCK FALSE
INVARIANTS
    StreamExact
    PauseWillEnd
    HalfCloseIsLast
PROPERTIES
    PauseHonoured
