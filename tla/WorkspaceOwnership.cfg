CONSTANTS
    s1 = s1  s2 = s2  s3 = s3
    r1 = r1  r2 = r2
    None = None
    Sessions = {s1, s2}
    Controllers = {1, 2, 3}
    Requests = {r1}
    Offered = {"open", "rename", "delete", "revert", "disposeAll"}
    MaxLoaded = 1
    MaxRevision = 4
SPECIFICATION Spec
SYMMETRY Symmetry
INVARIANTS
    LiveIffOwner
    HistoryNeverRegresses
PROPERTIES
    SoftDeleteAllOrNothing
    ImplementsRegistry
