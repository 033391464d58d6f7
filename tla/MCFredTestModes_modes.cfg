SPECIFICATION TestFairSpec
CONSTANTS
    ta = ta
    tb = tb
    tc = tc
    p1 = p1
    p2 = p2
    r1 = r1
    r2 = r2
    r3 = r3
    r4 = r4
    NULL = NULL
    HwTasks <- MCHwTasks
    Partitions <- MCPartitions
    Requests <- MCOneRequest
    Slots <- MCSlots
    TaskPartition <- MCTaskPartition
    SlotPartition <- MCSlotPartition
    AlwaysRcfg = FALSE
    MaxClock = 1
    Faults = {}
    RaceFree = TRUE
    SlotDrivers = {"master", "null"}
    TaskOrder <- MCTaskOrder
VIEW TestView
INVARIANTS
    TokenConserved
    NeverQueued
    DriversAgree
PROPERTIES
    InTurnAndFresh
    EveryTaskTested
