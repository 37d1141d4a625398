SPECIFICATION Spec
CONSTANTS
    p1 = p1
    p2 = p2
    None = None
    Proc = {p1}
    N = 1
    ForceModes = {FALSE}
    SymlinkModes = {TRUE}
    Made = {}
    Lead = 0
    SameSecond = FALSE
    MaxTime = 3
    MaxVer = 2
INVARIANT
    NotModifiedMeansCurrent
