CONSTANTS
    TURNS <- BothWays
    COASTS <- Coasts
    DEFAULT_COAST = 1
    MAX_COAST = 5
    TOLERANCE = 0
    MIN_CORRECTION = 1
    MAX_CORRECTIONS = 2
    NUDGES = 2
    MAX_TICKS = 6
    CORRECTION_TICKS = 3
    MOTION_TICKS = 2
    SETTLE = 4
    CONFIRM = 2
    LEASE = 1
    FRESH = 1
    STALL = 1
    WAKE_MIN = 2
    PULSES = 2
    MAX_FAULTS = 2
SPECIFICATION FairSpec
INVARIANTS
    SuccessIsTrue
    CorrectionsHelp
    WrongWayIsBounded
PROPERTIES
    EveryTurnEnds
    LearnedConverges
