CONSTANTS
    q1 = q1  q2 = q2  b1 = b1  b2 = b2
    None = None
    Prompts = {q1}
    Browsers = {b1, b2}
    Room = 0
SPECIFICATION Spec
SYMMETRY Symmetry
INVARIANTS
    TypeOK
    NoPromptForgotten
    OnlyUsersAllow
PROPERTIES
    FirstResolutionStands
