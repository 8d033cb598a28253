CONSTANTS
    q1 = q1  q2 = q2  b1 = b1  b2 = b2
    None = None
    Prompts = {q1, q2}
    Browsers = {b1}
    Room = 0
SPECIFICATION FairSpec
INVARIANTS
    NoPromptForgotten
    OnlyUsersAllow
PROPERTIES
    FirstResolutionStands
    PromptsAppear
    DialogsClose
