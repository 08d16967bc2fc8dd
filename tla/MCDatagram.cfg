\* Empty datagrams and two lengths against marks from 0 to 2, three requests at a
\* time.  A closed endpoint stops.
SPECIFICATION FairSpec
CONSTANTS
    Lengths = {0, 1, 2}
    Marks = {0, 1, 2}
    DefaultHigh = 2
    None = None
    MaxQueue = 3
INVARIANTS PauseCanEnd DrainsBeforeClose
PROPERTY CloseEnds
CHECK_DEADLOCK FALSE
