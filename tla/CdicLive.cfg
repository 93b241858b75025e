SPECIFICATION FairScenarios
CONSTANTS
    Scenarios = {"stop", "silent"}
    Commands = {"23", "27", "28", "29", "2A", "2B"}
    Starts = {0}
    Files = {0, 1}
    ChannelWrites <- Channel0
    AudioChannels <- AudioOnOff
    DbufWrites <- AnyDbuf
    AudctlWrites <- AnyBits
    BufferWrites <- AnyBuffer
    MapCodings <- MapBytes
    Discs <- AllDiscs
    NoDisc = nodisc
    MaxLba = 3
    SpinupTicks = 0
    QInterval = 2
PROPERTIES StopReachesMap StopEndsRead
CHECK_DEADLOCK FALSE
