CONSTANTS
    s1 = s1
    s2 = s2
    s3 = s3
    NoFd = NoFd
    Port <- MCPort
    MAX_CONNS = 2
    REQ_BUF_SIZE = 1
    BODY_LENS = {0, 1}
    BACKLOG = 3
    MaxReqs = 1
    MaxReqLen = 1
    Sock <- MCSock
    NONSECURE = TRUE
    HDR_LEN = 1
    SETUP_MAY_FAIL = TRUE
    ACCEPT_MAY_FAIL = FALSE
    SEND_MAY_FAIL = FALSE
SPECIFICATION Spec
INVARIANTS
    PolledCoversSlots
