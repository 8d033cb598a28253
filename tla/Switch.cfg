CONSTANTS
    None = None
    s1 = s1
    s2 = s2
    n1 = n1
    Files = {s1, s2}
    Fresh = {n1}
    MaxChoices = 2
    MaxEvents = 1
    Open = {s1}
    Room = 2
SPECIFICATION FairSpec
PROPERTIES
    ViewSettles
    ViewExists
CHECK_DEADLOCK FALSE
