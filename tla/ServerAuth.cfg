SPECIFICATION Spec
CONSTANTS
    None = None
    Handler = {h1}
    Client = {c1, c2}
    BadName = {con}
    Domain = {d1, d2}
    Unknown = {other}
    Queries = {"PEM", "PKCS12", "badformat", "badcompat"}
    Optional = {}
    MaxVer = 1
    MaxTime = 0
INVARIANTS
    TypeOK
    PrivateOnlyIfListed
