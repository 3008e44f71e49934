SPECIFICATION Spec
CONSTANTS
    Kinds = {k1, k2}
    Times = {1, 2}
    p = p
    q = q
    r = r
    Names <- MCNames
    PathOf <- MCPathOf
    LikeIn <- MCLikeIn
    RawReports <- MCRawReports
    Limit = 2
    TopLimit = 2
    MaxBuilds = 3
    MaxReports = 2
INVARIANTS
    TypeOK
    StartPageComplete
    SameAsDao
    PkgResultsMostRecent
    BrokenByComplete
    DepPagesAgree
    CutsKeepTheTop
SYMMETRY Symmetry
CHECK_DEADLOCK FALSE
