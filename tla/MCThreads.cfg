\* The loop and two other threads over two handles; two requests of either kind.
\* A deallocated loop stops.
SPECIFICATION ThreadsSpec
CONSTANTS
    Threads = {loop, t1, t2}
    Runners = {loop}
    Handles = {h1, h2}
    None = None
    Nesting = 1
    Requests = {r1, r2}
    Kinds <- Both
    Reentrant <- Both
INVARIANTS BorrowedWhileRunning ReaperIsNative
PROPERTIES SettledOnReturn WaitEnds CloseReturns StorageReclaimed
CHECK_DEADLOCK FALSE
