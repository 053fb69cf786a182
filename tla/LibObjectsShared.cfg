\* Two processes in one cell view, in three pairs of roles.
CONSTANTS
    s1 = s1
    s2 = s2
    c1 = c1
    v1 = v1
    sch = sch
    part = part
    schematic = schematic
    other = other
    Session = {s1, s2}
    Cell = {c1}
    View = {v1}
    Name = {sch, part}
    Plain = {}
    Oa = {sch, part}
    Type = {schematic, other}
    PrimaryOf <- MCPrimaryOf
    NoName = NoName
    NoType = NoType
    Nobody = Nobody
    Roles <- SharedRoles
    MaxInode = 2
SPECIFICATION Spec
SYMMETRY Exchange
INVARIANTS
    TypeOK
    NoOrphanLock
    CacheOfAFile
    ContentKept
CHECK_DEADLOCK FALSE
