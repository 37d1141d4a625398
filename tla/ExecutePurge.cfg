SPECIFICATION PurgeSpec
CONSTANTS
    None = None
    Proc = {p1}
    N = 1
    ForceModes = {TRUE, FALSE}
    SymlinkModes = {TRUE}
    Made = {}
    Lead = 0
    SameSecond = FALSE
    MaxTime = 2
    MaxVer = 2
    Age = 1
PROPERTY
    PurgeIsSafe
