CONSTANTS
    Harness <- Wired
    NetOf <- Nets
    CANDIDATE_PAIRS <- Candidates
    Frame <- ScanFrame
    EXPECTED = 8
    REQUESTS <- Pressed
    INTERSECTIONS <- Named
    PIN_MAPS <- Maps
SPECIFICATION BenchFairSpec
INVARIANTS
    ResolvedIsTrue
PROPERTIES
    PressIsWhole
    ProbeRestores
