CONSTANTS
    p1 = p1
    p2 = p2
    p3 = p3
    d1 = d1
    d2 = d2
    near = near
    far = far
    Proc <- MCProc
    Host <- MCHost
    HostOf <- MCHostOf
    Path = {d1}
    NoFile = NoFile
    Calls <- LockingCalls
    Overlap = {}
    IOErrors = FALSE
    DestroyHeld = FALSE
    MaxBorn = 2
SPECIFICATION Spec
INVARIANTS HolderOnDisk
PROPERTIES NoFalseRefusal ImplementsLease
CHECK_DEADLOCK FALSE
