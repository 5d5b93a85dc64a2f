CONSTANTS
    Caps = {"log", "rng"}
    MaxArena = 2
    HEAP_PAGES = 1
SPECIFICATION Spec
INVARIANTS OwnMemory
CHECK_DEADLOCK FALSE
