CONSTANTS
    s1 = s1
    c1 = c1
    v1 = v1
    f = f
    g = g
    amp = amp
    k1 = k1
    k2 = k2
    lib = lib
    other = other
    a = a
    b = b
    t = t
    Session = {s1}
    Cell = {c1}
    View = {v1}
    Name = {f, g, amp}
    Special = {amp}
    Limit = 1000000
    Buffer = 2
    NoXml = NoXml
    NoLib = NoLib
    Absent = Absent
    Empty = Empty
    Overlap = FALSE
    Settings <- MCSettings
    MaxEscape = 2
    Client = {k1, k2}
    Lib = {lib, other}
    TheLib = lib
    CellName = {a}
    ViewName = {b}
    TypeName = {t}
    MaxBehind = 2
    Nobody = Nobody
SPECIFICATION FairSpec
INVARIANTS OwnData RepliesMatch MadeIsFound
PROPERTIES ImplementsCatalog CallsReturn
CHECK_DEADLOCK FALSE
