SPECIFICATION DriversFairSpec
CONSTANTS
    ta = ta
    tb = tb
    tc = tc
    p1 = p1
    p2 = p2
    r1 = r1
    r2 = r2
    r3 = r3
    r4 = r4
    NULL = NULL
    HwTasks <- MCTwoHwTasks
    Partitions <- MCPartitions
    Requests <- MCRequests
    Slots <- MCTightSlots
    TaskPartition <- MCTwoTaskPartition
    SlotPartition <- MCTightSlotPartition
    AlwaysRcfg = FALSE
    MaxClock = 1
    Faults = {}
    RaceFree = TRUE
    SlotDrivers = {"master"}
VIEW DriversView
INVARIANTS
    DriversAgree
    CompletionVisible
    AccessOnlyCoupled
PROPERTIES
    EveryRequestAnswered
    ImplementsService
