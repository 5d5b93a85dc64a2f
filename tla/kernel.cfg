CONSTANTS
    PAGE = 2
    N = 2
    Top = 15
    CEILING = 13
    Bases = {0, 3, 9}
    Lens = {0, 3, 4, 6}
    Aligns = {1, 4}
    MaxEntries = 3
    MaxMisuses = 1
    CodewordLen = 6
    MaxFlips = 4
    Digits = {0, 1}
    CODE_DIGITS = 2
    CONFIRM_WINDOW = 2
    LOCKOUT_BASE = 1
    LOCKOUT_MAX = 3
    MAX_SHIFT = 4
    MaxPowerTime = 6
    Threads = {t1, t2}
    DEFAULT_COOLDOWN = 2
    MaxProbeTime = 6
    MaxSwitches = 1
    MAX_MODULES = 2
    MAX_DRIVERS = 2
    MAX_DEVICES = 2
    MAX_RESOURCES = 2
    MAX_DMA = 2
    Runs = {r1, r2, r3, r4}
    Files = 2
    PciDevices = 3
    Descs = {d1, d2}
    Softcs = {d1}
    MaxMem = 1
    Caps = {"screen", "log", "rng"}
    MaxArena = 2
    HEAP_PAGES = 2
SPECIFICATION MCSpec
SYMMETRY Sym
INVARIANTS NeverShared Accounted FlipsNeverBelieved OnlyByCode GuessesSlow ProbesPaced HoldersLive RunsOwned WithinGrants ReasonTrue
PROPERTIES RepairsWhole
CHECK_DEADLOCK FALSE
