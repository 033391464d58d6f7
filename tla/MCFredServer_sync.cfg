SPECIFICATION FairServerSpec
CONSTANTS
    ta = ta
    tc = tc
    p1 = p1
    p2 = p2
    r1 = r1
    r2 = r2
    NULL = NULL
    HwTasks <- MCHwTasks
    Partitions <- MCPartitions
    Requests <- MCRequests
    Slots <- MCSlots
    TaskPartition <- MCTaskPartition
    SlotPartition <- MCSlotPartition
    BufferCounts <- MCBufferCounts
    AlwaysRcfg = FALSE
    MaxClock = 0
    Faults = {}
    RaceFree = TRUE
    MaxBind = 1
    MaxInbox = 1
    ClientFaults = {}
    ServerFaults = {}
VIEW LiveServerState
INVARIANTS
    ServerTypeOK
    OneReplyPerMessage
    FreedNotReferenced
    BuffersOwned
    ServerStaysUp
PROPERTIES
    RefinesScheduler
    EveryMessageAnswered
