SPECIFICATION Spec
CONSTANTS
    ta = ta
    tb = tb
    tc = tc
    p1 = p1
    p2 = p2
    r1 = r1
    r2 = r2
    r3 = r3
    r4 = r4
    NULL = NULL
    HwTasks <- MCTwoHwTasks
    Partitions <- MCPartitions
    Requests <- MCFourRequests
    Slots <- MCSlots
    TaskPartition <- MCTwoTaskPartition
    SlotPartition <- MCSlotPartition
    AlwaysRcfg = TRUE
    MaxClock = 1
    Faults = {"rcfg_start", "rcfg_read", "notify"}
    RaceFree = TRUE
SYMMETRY ClientSymmetry
VIEW LiveState
INVARIANTS
    OnePlace
    FriOrdered
    PartitionFifo
    FailsCleanly
PROPERTIES
    AlwaysReconfigured
