SPECIFICATION StartupSpec
CONSTANTS
    ArchFiles <- MCArchFiles
    TaskFiles <- MCTaskFiles
    Modes <- MCModes
    MaxPartitions = 3
    MaxHwTasks = 3
    MaxSlots = 3
    MaxSources = 9
    MaxClients = 3
    MaxDataBuffs = 2
    DefTimeout = 100
    Word = 4096
    NULL = NULL
INVARIANTS
    StartupTypeOK
    RunningComplete
    SourcesLive
    NothingLeft
    FreesAreSafe
    ConfigRead
