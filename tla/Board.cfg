SPECIFICATION BoardSpec
CONSTANTS
    IcaLines = 2
    TotalLines = 8
    MaskLines = 1
    Pal = TRUE
    Slot = 4
    IcaMax = 6
    MemoryTop = 64
    Wide = 4
    Narrow = 3
    BlinkUnit = 2
    Image <- MCImage
    Main = "main"
    Ipl = {0, 3, 5, 7}
    MaxFrames = 3
    Code <- MCCode
    W = 3
    Decimal <- MCDecimal
    ChainWords = 2
    Base = 2
    Bottom = 14
    Displacement = 2
    Words <- MCWords
    Wirings <- MCWirings
    PageSize = 4
    PageCount = 20
    OnChipBase = 160
    Holes <- MCHoles
    Window <- MCWindow
    Value8 = {0, 1, 2, 3}
    Blank = 0
    OpenBus = 3
    Firmware <- MCFirmware
    NvramCells = 2
    ClockCells = 1
    Vectors = 2
    Key = {1, 2}
    Modifier = {0, 1}
    Up = 0
    NoKey = 0
    BitTime = 1
    Character = 2
    Recognition = 2
    PowerOn = 5
    MaxTicks = 3
    MaxPending = 3
    Ordinary <- MCOrdinary
    Capacities = {0, 1, 2}
    MaxEvents = 3
    MaxCards = 2
    Pcl = {1, 2}
    Nil = 0
    Buffers = {2, 6}
    BufferSize = 4
    Memory = {0, 1, 2, 3, 4, 5, 6, 7}
    Payload = {1, 2}
    RealTime = 2
    MaxRegions = 2
    Decoders = {"audio", "video"}
    MaxAccesses = 2
    FileSizes = {2, 3}
    Offsets = {0, 1, 2}
    Gap = 2
    MaxLines = 6
    Discs <- MCDiscs
    MaxDepth = 2
    Unused = 99
    Multiplier = {0, 1, 2}
INVARIANTS
    CpuInv
    AluInv
    KeyboardInv
    DiagnosticsInv
    DiscInv
PROPERTIES
    McdKept
    MapKept
    OperandsKept
CHECK_DEADLOCK FALSE
