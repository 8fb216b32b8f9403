CONSTANTS
    s1 = s1
    s2 = s2
    s3 = s3
    NoFd = NoFd
    Sock <- MCSock
    Port <- MCPort
    NONSECURE = TRUE
    MAX_CONNS = 2
    REQ_BUF_SIZE = 1
    HDR_LEN = 1
    BODY_LENS = {0, 1}
    BACKLOG = 3
    MaxReqs = 1
    MaxReqLen = 2
    SETUP_MAY_FAIL = FALSE
    ACCEPT_MAY_FAIL = TRUE
    SEND_MAY_FAIL = TRUE
SPECIFICATION Spec
INVARIANTS
    TypeOK
    PollSetMatchesConnections
    EachReadyServedOnce
    ScanIndexInRange
