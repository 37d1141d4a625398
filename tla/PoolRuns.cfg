SPECIFICATION FairSpec
CONSTANTS
    None = None
    Inputs <- AllInputs
    MaxJobs = 2
CHECK_DEADLOCK FALSE
INVARIANTS
    TypeOK
    HooksExclusive
    SuccessMeansDone
    NoSendOnClosed
    AllErrorsCounted
    NamesStayBelow
    RequestsAreSound
    ManualAsDescribed
    NeverStuck
PROPERTIES
    Progress
    RefinesBatch
    Terminates
