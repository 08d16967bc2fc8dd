\* Four timers at once with three deadlines, so that one is scheduled before,
\* between and after others: within a millisecond, on one, and beyond the range
\* of libuv's timer.  Finalizers nest, deadlines pass meanwhile.
SPECIFICATION Spec
CONSTANTS
    Handles = {t1, t2, t3, t4}
    MinCancelled = 1
    GuardMs = 1
    TicksPerMs = 2
    MaxMs = 4
    Deadlines = {1, 2, 9}
    MaxClock = 4
    MaxSeq = 4
    MaxReady = 1
    MaxFrames = 2
    Nobody = Nobody
SYMMETRY Symmetry
INVARIANTS ArmedInTime
PROPERTIES InDeadlineOrder NoneDropped
