CONSTANTS
    s1 = s1
    s2 = s2
    s3 = s3
    NoFd = NoFd
    Sock <- MCSock2
    Port <- MCPort
    NONSECURE = FALSE
    MAX_CONNS = 1
    REQ_BUF_SIZE = 2
    HDR_LEN = 1
    BODY_LENS = {0, 1}
    BACKLOG = 3
    MaxReqs = 2
    MaxReqLen = 3
    SETUP_MAY_FAIL = FALSE
    ACCEPT_MAY_FAIL = FALSE
    SEND_MAY_FAIL = FALSE
SPECIFICATION FairSpec
PROPERTIES
    RequestEventuallyAnswered
