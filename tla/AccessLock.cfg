CONSTANTS
    p1 = p1
    p2 = p2
    p3 = p3
    c1 = c1
    c2 = c2
    c3 = c3
    c4 = c4
    near = near
    far = far
    Proc = {p1, p2, p3}
    Host <- MCHost
    HostOf <- MCHostOf
    Comp = {c1, c2, c3, c4}
    ProcOf <- MCProcOf
    NoFile = NoFile
    MaxAttempts = 2
    Settings <- MCSettings
SPECIFICATION FairSpec
INVARIANTS TypeOK OneWriter WriterOnDisk
PROPERTIES ReleasedIsGone JustTimeout ImplementsLease CallsReturn
CHECK_DEADLOCK FALSE
