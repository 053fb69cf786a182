CONSTANTS
    p1 = p1
    p2 = p2
    p3 = p3
    d1 = d1
    d2 = d2
    near = near
    far = far
    Proc <- TwoNear
    Host <- MCHost
    HostOf <- MCHostOf
    Path = {d1}
    NoFile = NoFile
    Calls <- LockOnly
    Overlap <- AllCalls
    IOErrors = FALSE
    DestroyHeld = TRUE
    MaxBorn = 1
SPECIFICATION Spec
INVARIANTS MutualExclusion
CHECK_DEADLOCK FALSE
