SPECIFICATION ServerSpec
CONSTANTS
    ta = ta
    tc = tc
    p1 = p1
    p2 = p2
    r1 = r1
    r2 = r2
    NULL = NULL
    HwTasks <- MCOneHwTask
    Partitions <- MCOnePartition
    Requests <- MCRequests
    Slots <- MCOneSlot
    TaskPartition <- MCOneTaskPartition
    SlotPartition <- MCOneSlotPartition
    BufferCounts <- MCOneBufferCounts
    AlwaysRcfg = FALSE
    MaxClock = 0
    Faults = {"rcfg_start", "rcfg_read"}
    RaceFree = FALSE
    MaxBind = 1
    MaxInbox = 1
    ClientFaults = {"pipelining", "crash"}
    ServerFaults = {"alloc", "accept", "signal"}
SYMMETRY ClientSymmetry
VIEW RacingServerState
INVARIANTS
    OneReplyPerMessage
PROPERTIES
    BatchFresh
