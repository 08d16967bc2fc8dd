SPECIFICATION FairSpec
CONSTANTS
    Soon = {s1, s2}
    Native = {n1}
    None = None
    BatchLimit = 2
    IoBatchLimit = 3
    CallbackLimit = 3
    MaxHandles = 1
    MaxDns = 0
    MaxOom = 0
PROPERTIES ThreadsafeRuns StopEndsRun
CHECK_DEADLOCK FALSE
