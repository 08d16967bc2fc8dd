SPECIFICATION Spec
CONSTANTS
    Kinds <- MCStream
    Protocols <- MCPlain
    PendingMax = 1
    Vectors <- MCByte
    Limits <- OneLimit
    MaxBytes = 3
    MaxReads = 0
    MaxStack = 2
CHECK_DEADLOCK FALSE
INVARIANTS
    EofKeepsData
