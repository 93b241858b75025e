SPECIFICATION FairScenarios
CONSTANTS
    HostWrites <- AllWrites
    Keys = {k1}
    NoKey = nokey
    Modifiers = {plain}
    NoModifiers = plain
    Attachments = {TRUE, FALSE}
    PlayerKeys = {play}
    Positions = {0, 1}
    MaxPosition = 1
    Motions <- MovingMotions
    Buttons = {0}
    Videos = {2}
    Discs = {TRUE}
    DiscTypes = {}
    ReadbackDelay = 1
    DriveStatusDelay = 2
    PollInterval = 1
    TickLengths = {1}
    MaxQueue = 2
    Scenarios = {"queries", "payload"}
PROPERTIES QueriesAnswered CommandCompletes
CHECK_DEADLOCK FALSE
