SPECIFICATION Spec
CONSTANTS
    N = 3
    Silent = {2}
    MaxBinds = 1
    FileLen = 2
    MaxWrites = 3
    Marks <- MCMarks
    Pools = {e1}
    Jobs = {j1, j2}
    Children = {c1, c2}
    Loops = {l1, l2}
    Pids = {p1, p2}
    Nothing = Nothing
    Servers = {s1, s2}
    Hosts = 2
    Addresses = 2
    Gone = Gone
    MaxRecords = 3
INVARIANTS
    NothingLeaks
    FailuresInOrder
    FileExact
    DefaultDrained
    SignalsOwnChild
    UnlinksOwnPath
    HandshakeGetsAll
PROPERTIES
    CallsEnd
    WriterResumes
    ChildReported
CHECK_DEADLOCK FALSE
