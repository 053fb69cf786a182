CONSTANTS
    a = a
    b = b
    shared = shared
    readOnly = readOnly
    Lib = {a, b}
    Mode = {shared, readOnly}
    Attribute <- MCAttribute
    Variable <- MCVariable
    User <- MCUser
    ThisFile <- ThisFileText
    ThisTool <- ThisToolText
    RootWith <- MCRootWith
    Bad = {"${unclosed"}
    Blanks <- MCBlanks
    Single <- MCSingle
    Comment <- MCComment
    Env <- MCEnv
    StrmDirs <- MCStrmDirs
    PathDirs <- MCPathDirs
    Me = "me"
    PasswdHome <- MCPasswdHome
    Cwd <- MCCwd
    Exists <- MCExists
    Raw <- MCRaw
    Path <- MCPath
    Root <- MCRoot
    Resolve <- MCResolve
    Wild <- MCWild
    Readable <- MCReadable
    Real <- MCReal
    Join <- MCJoin
    Cut <- MCCut
    Rest <- MCRest
    Again <- MCAgain
    File <- MCFile
    Top <- top
    Shared = shared
    NoPath = NoPath
    Nowhere = NoPath
    None = None
    Texts <- MCTexts
    MaxLoads = 2
    MaxEdits = 1
SPECIFICATION FairSpec
INVARIANTS NoFileTwice KnownIsListed ImplicitUnderRoot
PROPERTIES LoadEnds LoadMeans SaveKeeps
CHECK_DEADLOCK FALSE
