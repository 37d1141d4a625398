SPECIFICATION Spec
CONSTANTS
    None = None
    Handler = {h1}
    Client = {c1}
    BadName = {}
    Domain = {d1}
    Unknown = {}
    Queries = {"PKCS12"}
    Optional = {"bundle", "chain"}
    MaxVer = 2
    MaxTime = 1
INVARIANTS
    StampNotAheadOfContent
    CalmMeansCurrent
