CONSTANTS
    Width = 2
    Laps <- MCLaps
    DEFAULT_NS = 2
    STEP_NS = 1
    SCRUB_INTERVAL_NS = 1
    EMERGENCY_HOLD_NS = 2
    NsPerTick = 1
    Sessions <- MCSessions
    None = None
SPECIFICATION Spec
INVARIANTS BankedTrusted ScrubbedInTime EmergencyReadsExact
