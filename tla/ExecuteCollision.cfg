SPECIFICATION Spec
CONSTANTS
    p1 = p1
    p2 = p2
    None = None
    Proc = {p1}
    N = 1
    ForceModes = {TRUE, FALSE}
    SymlinkModes = {TRUE}
    Made = {}
    Lead = 0
    SameSecond = TRUE
    MaxTime = 2
    MaxVer = 2
INVARIANT
    ExposedComplete
