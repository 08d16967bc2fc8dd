CONSTANTS
    Loops = {a, b}
    Sigs = {s1, s2}
    None = None
    MaxFails = 2
    MaxDepth = 2
SYMMETRY Symmetry
SPECIFICATION Spec
INVARIANTS WakeFdValid SignalsAccounted RollbackComplete
CHECK_DEADLOCK FALSE
