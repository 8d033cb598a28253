CONSTANTS
    k1 = k1  k2 = k2  k3 = k3
    None = None
    Calls = {k1}
    Sdks = {1}
\* A disposed controller whose operations have settled really stops.
CHECK_DEADLOCK FALSE
SPECIFICATION Spec

INVARIANTS
    DisposeReleasesSession
