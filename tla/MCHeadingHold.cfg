CONSTANTS
    FULL = 4
    GRID = 13
    EPSILON = 6
    ROUNDING <- Roundings
    ROUND = 1
    MAX_SLOTS = 6
    QUIET = 1
    HOLD = 2
    GAP = 2
    GAIN = 2
    MIN_DUTY = 1
    DEADBAND = 0
    WINDUP = 4
    RESIDUALS <- Residuals
    DRIFTS <- Drifts
    TURN = 2
    WAKE = 1
    MAX_ERROR = 5
    MOTION_TICKS = 3
    MAX_LEGS = 3
    MAX_MISSED = 2
SPECIFICATION Spec
CHECK_DEADLOCK FALSE
INVARIANTS
    SlotsAreExact
    BiasIsUntaught
    YawErrorIsBounded
    LegsAreJudged
    HeadingIsHeld
PROPERTIES
    SteersBySlots
