SPECIFICATION FrontendSpec
CONSTANTS
    Disc <- MCDisc
    Profile <- MCProfile
    Hint <- MCHint
    MixedPreference <- MCMixedPreference
    Rom <- MCRom
    BoardOf <- MCBoardOf
    RomStandard <- MCRomStandard
    FirstRom = "cdi220f2"
    MaxSaves = 2
    PhotoDisc <- MCPhotoDisc
    Images <- MCImages
    HasCdiApp <- MCHasCdiApp
    MaxTier = 0
    MaxPending = 2
    CdiButton = {1, 2}
    SelectButton = 1
    BackButton = 2
    HostKey = {"left shift", "right shift"}
    KeyCode <- MCKeyCode
    MaxEvents = 3
    Slots = 2
    Title = {1, 2}
    Capacity = 4
    BatchFrames = 3
    MaxFrames = 6
INVARIANTS
    PlayerInv
    PhotoInv
    HostInv
    SwapNeedsSlip
PROPERTIES
    NoSaveTakenBack
    SaveReachesDisk
    DecodeAnswered
    SelectionKept
