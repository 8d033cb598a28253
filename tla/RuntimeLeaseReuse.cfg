CONSTANTS
    s1 = s1  s2 = s2  s3 = s3
    c1 = c1  c2 = c2
    q1 = q1  q2 = q2  q3 = q3
    Local = Local
    None = None
    Sessions = {s1, s2}
    Clients = {Local, c1}
    Requests = {q1, q2, q3}
    Offered = {"mutate", "fork", "revert", "open", "delete"}
    MaxLoaded = 1
SPECIFICATION Spec
SYMMETRY Symmetry
PROPERTIES
    LeaseKeptWhileInFlight
