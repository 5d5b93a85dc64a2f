CONSTANTS
    Ports = 2
    Kinds <- MCKinds
    RING_LEN = 6
    MAX_SLOTS = 2
    MAX_DEVICES = 2
    MaxLate = 1
    MaxErrors = 1
    MaxReports = 2
    Clusters <- MCClusters
    Fats <- MCFats
    MAX_EXTENTS = 2
    DumpLen = 2
    Hids = 2
    MaxReads = 2
    MaxDumpLate = 2
    MaxDumpErrors = 1
SPECIFICATION MCFairSpec
INVARIANTS SlotsReturned QueuedIsPending DumpTrue
PROPERTIES RingsInOrder OnlyCrashFile WaitsEnd
CHECK_DEADLOCK FALSE
