SPECIFICATION ScenarioSpec
CONSTANTS
    Scenarios = {"map", "read", "plain", "stream", "mix", "cdda"}
    Commands = {"23", "27", "28", "29", "2A", "2B"}
    Starts = {0}
    Files = {0, 1}
    ChannelWrites <- Channel0
    AudioChannels <- AudioOnOff
    DbufWrites <- AnyDbuf
    AudctlWrites <- AnyBits
    BufferWrites <- AnyBuffer
    MapCodings <- MapBytes
    Discs <- AllDiscs
    NoDisc = nodisc
    MaxLba = 5
    SpinupTicks = 1
    QInterval = 2
INVARIANTS CdicInv
PROPERTIES NoLostInterrupt MapUndisturbed DeliveriesKept StaysAligned
CHECK_DEADLOCK FALSE
