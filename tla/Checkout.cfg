CONSTANTS
    u1 = u1
    u2 = u2
    k1 = k1
    k2 = k2
    lib = lib
    v1 = v1
    f0 = f0
    f1 = f1
    Dir = {lib, v1}
    File = {f0, f1}
    Root = lib
    Parent <- ViewAndFile
    Admin = Admin
    User = {u1, u2}
    Nobody = Nobody
    Client = {k1, k2}
    UserOf <- MCUserOf
    Plugin = {k1}
    Tracked = {f0, f1}
    Overlap = FALSE
    MaxTargets = 2
    Settings <- MCSettings
SPECIFICATION Spec
INVARIANTS Exclusive CheckedOutWritable
PROPERTIES ReleasesOverlaps OthersKeepTheirs DoneIsProtected
CHECK_DEADLOCK FALSE
