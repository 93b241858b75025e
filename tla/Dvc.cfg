CONSTANTS
    Scenarios = {"ends", "panel", "control", "audio", "sync"}
    Titles <- AllTitles
    MaxTime = 2
    PrimingDelay = 1
    PauseDelay = 1
    MaxOwed = 2
SPECIFICATION FairClocks
INVARIANTS
    DvcInv
    StreamsInOrder
PROPERTIES
    OneTimeline
    EiiSeparate
    PlaysEnd
CHECK_DEADLOCK FALSE
