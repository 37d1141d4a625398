SPECIFICATION Spec
CONSTANTS
    p1 = p1
    p2 = p2
    None = None
    Proc = {p1}
    N = 1
    ForceModes = {TRUE, FALSE}
    SymlinkModes = {TRUE, FALSE}
    Made = {1}
    Lead = 1
    SameSecond = FALSE
    MaxTime = 3
    MaxVer = 3
INVARIANT
    SuccessIsFresh
PROPERTY
    RefinesOrderedStore
