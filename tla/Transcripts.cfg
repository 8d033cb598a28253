CONSTANTS
    None = None
    Prompts = {1, 2}
    TextOf <- SameTexts
    Own = {1}
    Fetches = {1, 2}
    Room = 1
\* Nothing happens any more once the prompts are used up.
CHECK_DEADLOCK FALSE
SPECIFICATION FairSpec
INVARIANTS
    TranscriptMatchesBranch
PROPERTIES
    HistoryNeverGoesBack
    ComposerFreed
