CONSTANTS
    forward = forward
    Addresses <- Ports
    ADDRESS <- OnePort
    Drives = {forward}
    Stop = Stop
    NoTwist = NoTwist
    NAV_TWISTS = {forward}
    Fractional = Fractional
    WATCHDOG = 1
    PROPORTIONAL_VERIFIED = TRUE
    COMMAND_TIMEOUT = 0
    ACK_TIMEOUT = 0
    MAX_SEQUENCE = 2
    MAX_NODES = 2
    MAX_RESTARTS = 1
    MAX_STARTS = 2
SPECIFICATION FairSpec
INVARIANTS
    EstopIsFinal
    OdometryFollowsSent
PROPERTIES
    OldCountsForNothing
    ArmedIsHeard
