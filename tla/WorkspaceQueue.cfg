CONSTANTS
    s1 = s1  s2 = s2  s3 = s3
    r1 = r1  r2 = r2
    None = None
    Sessions = {s1}
    Controllers = {1, 2}
    Requests = {r1, r2}
    Offered = {"open", "delete", "disposeAll"}
    MaxLoaded = 1
    MaxRevision = 2
SPECIFICATION FairSpec
INVARIANTS
    ReservationsHeldByRunning
PROPERTIES
    MutationsSettle
