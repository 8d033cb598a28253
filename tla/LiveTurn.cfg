CONSTANTS
    None = None
    MaxTurns = 2
    MaxMessages = 3
    MaxDeltas = 2
    MaxTools = 2
    MaxChunks = 1
    Failing = {2}
SPECIFICATION Spec
INVARIANTS
    InStep
    ToolsShownOnce
    HistoryShowsTheTurn
CHECK_DEADLOCK FALSE
