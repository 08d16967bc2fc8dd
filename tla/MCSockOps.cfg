\* Two operations and three watchers, with and without the program's own.  A
\* closed loop stops.
SPECIFICATION SockSpec
CONSTANTS
    Handles = {h1, h2, h3}
    Nothing = Nothing
    MaxQueue = 2
    MaxClosing = 1
    Ops = {o1, o2}
    Program = Program
SYMMETRY Symmetry
INVARIANTS PollMatchesSlots QueuedIsRegistered WaiterIsWatched
CHECK_DEADLOCK FALSE
