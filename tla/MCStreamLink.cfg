CONSTANTS
    forward = forward
    Port = port
    Session = session
    Addresses <- OnlyPort
    Drives = {forward}
    Stop = Stop
    Fractional = Fractional
    WATCHDOG = 1
    MAX_SEQUENCE = 3
    CONFIRM_WINDOW = 1
    MAX_RESTARTS = 1
SPECIFICATION StreamFairSpec
INVARIANTS
    ConfirmedStopHolds
PROPERTIES
    StopTerminates
