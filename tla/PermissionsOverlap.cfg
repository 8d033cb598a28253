CONSTANTS
    None = None
    me = me
    other = other
    Clients = {me, other}
    Me = me
    MaxDelay = 2
    IdleReset = 3
    MaxFailures = 2
    MaxOpens = 1
    MaxEdits = 1
    MaxEvents = 1
SPECIFICATION Spec
INVARIANTS
    TypeOK
    PolicyWhole
    ShownIsFile
    EarnedDelayPaid
CHECK_DEADLOCK FALSE
