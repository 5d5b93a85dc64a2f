CONSTANTS
    Ports = 2
    Kinds <- MCKinds
    RING_LEN = 6
    MAX_SLOTS = 2
    MAX_DEVICES = 2
    MaxLate = 1
    MaxErrors = 1
    MaxReports = 2
    Clusters <- MCClusters
    Fats <- MCFats
    MAX_EXTENTS = 2
    DumpLen = 2
    Hids = 1
    MaxReads = 1
    MaxDumpLate = 0
    MaxDumpErrors = 0
SPECIFICATION DumpSpec
INVARIANTS DumpLands
CHECK_DEADLOCK FALSE
