CONSTANTS
    None = None
    me = me
    other = other
    Clients = {me, other}
    Me = me
    MaxDelay = 2
    IdleReset = 3
    MaxFailures = 2
    MaxOpens = 0
    MaxEdits = 1
    MaxEvents = 1
SPECIFICATION FairSpec
INVARIANTS
    PolicyWhole
    ShownIsFile
    EarnedDelayPaid
PROPERTIES
    LoginsAnswered
    DialogFreed
CHECK_DEADLOCK FALSE
