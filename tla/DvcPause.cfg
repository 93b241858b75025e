CONSTANTS
    Scenarios = {"control"}
    Titles <- AllTitles
    MaxTime = 2
    PrimingDelay = 1
    PauseDelay = 1
    MaxOwed = 2
SPECIFICATION ScenarioSpec
PROPERTIES
    PausedKeepsPictures
CHECK_DEADLOCK FALSE
