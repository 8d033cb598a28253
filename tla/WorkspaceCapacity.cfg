CONSTANTS
    s1 = s1  s2 = s2  s3 = s3
    r1 = r1  r2 = r2
    None = None
    Sessions = {s1, s2, s3}
    Controllers = {1, 2, 3}
    Requests = {r1}
    Offered = {"create", "open", "fork"}
    MaxLoaded = 2
    MaxRevision = 3
SPECIFICATION Spec
SYMMETRY Symmetry
INVARIANTS
    CapacityRespected
PROPERTIES
    EvictionSparesFocusedAndBusy
    ForkAllOrNothing
