SPECIFICATION Spec
CONSTANTS
    None = None
    Conn = {c1, c2, c3}
    MaxSignals = 2
CHECK_DEADLOCK FALSE
INVARIANTS
    TypeOK
    GracefulExit
    Exit0OnlyIfAsked
PROPERTY
    EndsWhenDone
