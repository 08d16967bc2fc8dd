SPECIFICATION Spec
CONSTANTS
    Soon = {s1, s2, s3}
    Native = {n1}
    None = None
    BatchLimit = 2
    IoBatchLimit = 3
    CallbackLimit = 3
    MaxHandles = 1
    MaxDns = 1
    MaxOom = 1
SYMMETRY Symmetry
INVARIANT NeverSleepsOnWork
PROPERTY ImplementsQueue
CHECK_DEADLOCK FALSE
