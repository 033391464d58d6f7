SPECIFICATION Spec
CONSTANTS
    ta = ta
    tb = tb
    tc = tc
    p1 = p1
    p2 = p2
    r1 = r1
    r2 = r2
    r3 = r3
    r4 = r4
    NULL = NULL
    HwTasks <- MCHwTasks
    Partitions <- MCPartitions
    Requests <- MCRequests
    Slots <- MCSlots
    TaskPartition <- MCTaskPartition
    SlotPartition <- MCSlotPartition
    AlwaysRcfg = FALSE
    MaxClock = 2
    Faults = {}
    RaceFree = TRUE
SYMMETRY ClientSymmetry
VIEW LiveState
INVARIANTS
    TypeOK
    SlotsOwned
    ExecutionSound
    SkipSound
    StaysUp
    DevcfgNotIdle
    WorkConserving
