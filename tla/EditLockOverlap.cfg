CONSTANTS
    p1 = p1
    p2 = p2
    p3 = p3
    d1 = d1
    d2 = d2
    near = near
    far = far
    Proc <- TwoNear
    Host <- MCHost
    HostOf <- MCHostOf
    Path = {d1, d2}
    NoFile = NoFile
    Calls <- Changing
    Overlap <- AllButRename
    IOErrors = TRUE
    DestroyHeld = TRUE
    MaxBorn = 1
SPECIFICATION FairSpec
INVARIANTS LockFilesAreRemembered
PROPERTIES CleanExit CallsReturn
CHECK_DEADLOCK FALSE
