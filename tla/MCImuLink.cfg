CONSTANTS
    turn = turn
    Clients <- OneClient
    Pumping <- OneClient
    TTL = 1
    REFRESH = 1
    SECONDS = 1
    TIMEOUT = 1
    RETRANSMIT = 1
    MAX_REQUESTS = 2
    MAX_QUEUE = 1
    MAX_RESTARTS = 1
SPECIFICATION FairSpec
INVARIANTS
    AnswerIsOwn
    CaptureIsKept
PROPERTIES
    StreamComesBack
    ClosedIsDropped
