CONSTANTS
    s1 = s1  s2 = s2  s3 = s3
    c1 = c1  c2 = c2
    q1 = q1  q2 = q2  q3 = q3
    Local = Local
    None = None
    Sessions = {s1, s2, s3}
    Clients = {Local, c1}
    Requests = {q1, q2}
    Offered = {"mutate", "fork", "revert", "open", "delete"}
    MaxLoaded = 2
SPECIFICATION Spec
SYMMETRY Symmetry
INVARIANTS
    BrowsersKnowOwners
    LeaseNeverOutlivesRequests
    ExclusiveUnlessRevoked
    FocusInWorkingSet
