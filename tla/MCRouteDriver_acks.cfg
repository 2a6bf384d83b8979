CONSTANTS
    forward = forward
    reverse = reverse
    Port = port
    Session = session
    Addresses <- OnlyPort
    Drives = {forward, reverse}
    Stop = Stop
    Fractional = Fractional
    WATCHDOG = 2
    SEGMENTS <- ThereAndBack
    SEGMENT_TICKS = 2
    LEAD_IN_TICKS = 1
    GAP_TICKS = 1
    TAIL_TICKS = 2
    CONFIRM_TICKS = 2
    MAX_LATE = 0
SPECIFICATION Spec
CHECK_DEADLOCK FALSE
INVARIANT CreditedIfHeard
