CONSTANTS
    MATRIX_PINS <- Pins
    Frame <- ScanFrame
    INVERT_LEFT = FALSE
    INVERT_RIGHT = FALSE
    SWAP_SIDES = FALSE
    REALTIME = TRUE
SPECIFICATION FairSpec
INVARIANTS
    PinsAgree
    NoGhostPress
PROPERTIES
    NoTruncatedPress
    CommandedIsPressed
    ColumnsAreReleased
