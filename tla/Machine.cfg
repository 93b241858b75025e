SPECIFICATION FairScenarios
CONSTANTS
    Scenarios = {"lines", "pin", "serial", "dma"}
    Levels = {0, 4}
    Masks = {0, 4}
    Bytes = {a, b}
    NoByte = nobyte
    MaxQueue = 2
    Counts = {0, 2}
    InputLimit = 2
    WordCycles = 2
    MaxSlice = 3
INVARIANTS MachineInv InterruptHasSource
PROPERTIES EdgeReachesLatch OwnerNotPreempted DmaCompletes
CHECK_DEADLOCK FALSE
