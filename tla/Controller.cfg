CONSTANTS
    k1 = k1  k2 = k2  k3 = k3
    None = None
    Calls = {k1, k2, k3}
    Sdks = {1, 2, 3}
\* A disposed controller whose operations have settled really stops.
CHECK_DEADLOCK FALSE
SPECIFICATION FairSpec
INVARIANTS
    OneSdkSession
    DisposalComplete
    ListensToItsSession
    StartedTurnsEnd
PROPERTIES
    CallsSettle
