CONSTANTS
    p1 = p1
    p2 = p2
    near = near
    cell = cell
    view = view
    cv = cv
    own = own
    sch = sch
    part = part
    Proc = {p1, p2}
    Host = {near}
    HostOf <- MCHostOf
    Path = {own, sch, part}
    NoFile = NoFile
    Calls <- MCCalls
    Overlap = {}
    IOErrors = FALSE
    DestroyHeld = FALSE
    MaxBorn = 1
    Box = {cell, view, cv}
    Inner <- MCInner
    CellView = {cv}
    BoxOf <- MCBoxOf
    PrimaryOf <- MCPrimaryOf
    Plain = {}
    Oa = {sch, part}
    Volatile = {part}
    NoPath = NoPath
SPECIFICATION CSpec
SYMMETRY Exchange
PROPERTIES TrueMeansAll NothingLeft
CHECK_DEADLOCK FALSE
