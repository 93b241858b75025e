SPECIFICATION ScenarioSpec
CONSTANTS
    HostWrites <- AllWrites
    Keys = {k1}
    NoKey = nokey
    Modifiers = {plain, shift}
    NoModifiers = plain
    Attachments = {TRUE, FALSE}
    PlayerKeys = {play}
    Positions = {0, 1}
    MaxPosition = 1
    Motions <- MovingMotions
    Buttons = {0}
    Videos = {2}
    Discs = {TRUE, FALSE}
    DiscTypes = {4}
    ReadbackDelay = 1
    DriveStatusDelay = 2
    PollInterval = 1
    TickLengths = {1}
    MaxQueue = 2
    Scenarios = {"channelC", "drive", "input", "parser"}
INVARIANTS SlaveInv NothingStale
PROPERTIES OverrunsNamed RepliesKept ImplementsChannelC
CHECK_DEADLOCK FALSE
