CONSTANTS
    None = None
    MaxChoices = 2
    Replies = 2
SPECIFICATION FairSpec
INVARIANTS
    ChoiceNeverLost
PROPERTIES
    NewerPendingStands
    DeferredTried
    BadgeSettles
