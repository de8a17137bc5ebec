CONSTANTS
    Handlers = {h1, h2}
    LogTailLines = 1
    MaxEchoLines = 2
    MaxClicks = 1
    MaxLines = 2
    MaxBatches = 1
SPECIFICATION FairSpec
CHECK_DEADLOCK FALSE
INVARIANTS
    TypeOK PanelFollows ClosedPageFallsQuiet
PROPERTY
    ActionIsShown
