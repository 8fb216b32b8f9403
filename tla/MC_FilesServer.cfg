\* One connection, no aborts and no full disk: the handlers on their own.
CONSTANTS
    c1 = c1  c2 = c2  p1 = p1  p2 = p2  h1 = h1  h2 = h2
    Conn = {c1}
    Paths = {p1, p2}
    LongPath = lp
    Handles = {h1, h2}
    NoH = noh
    BUF = 2
    MaxSize = 4
    MaxBody = 3
    MaxReqs = 3
    READ_MAY_FAIL = TRUE
    DISK_MAY_FILL = FALSE
    ABORT_MAY_HAPPEN = FALSE
SPECIFICATION Spec
SYMMETRY SymmH
INVARIANTS
    NoLeakedHandle
    DownloadDeliversFile
    UploadStoresBody
