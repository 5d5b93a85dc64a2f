SPECIFICATION FairSpec
CONSTANTS
    NEED = 5
    WORD_CREDIT = 2
    HW_EXTRA_WORDS = 1
    EXTERNAL_CREDIT = 1
    OSR = 1
    OSR_MAX = 2
    CHUNK = 2
    BLOCK_LEN = 1
    RESEED_INTERVAL = 3
    EVENT_FOLD = 2
    MAX_NONCE = 3
    Lens = {0, 1, 4}
    MaxEvents = 2
INVARIANTS
    OutputCredited
    SeedFresh
    KeyServesOnce
PROPERTIES
    OutOfService
    Completes
