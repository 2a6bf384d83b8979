CONSTANTS
    c1 = c1
    forward = forward
    Clients <- OneClient
    Addresses <- OneClient
    ADDRESS <- OwnSockets
    COMMAND <- Commands
    Drives = {forward}
    Stop = Stop
    Fractional = Fractional
    WATCHDOG = 1
    STOP_WINDOW = 1
    MAX_PACKETS = 2
    MAX_DUPLICATES = 1
    MAX_RESTARTS = 1
SPECIFICATION FairSpec
INVARIANTS
    HaltedStaysHalted
    StopAcknowledgedIsFinal
PROPERTIES
    LeaseKept
    BaseComesToRest
