CONSTANTS
    None = None
    MaxChoices = 3
    Replies = 2
SPECIFICATION Spec
PROPERTIES
    LastLevelStands
