SPECIFICATION FairSpec
CONSTANTS
    Kinds <- MCKinds
    Protocols <- MCPlain
    PendingMax = 1
    Vectors <- MCByte
    Limits <- OneLimit
    MaxBytes = 2
    MaxReads = 0
    MaxStack = 1
CHECK_DEADLOCK FALSE
PROPERTIES
    CloseEnds
