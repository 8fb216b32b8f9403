\* Two connections, every fault: read errors, short writes, aborts.
CONSTANTS
    c1 = c1  c2 = c2  p1 = p1  p2 = p2  h1 = h1  h2 = h2
    Conn = {c1, c2}
    Paths = {p1, p2}
    LongPath = lp
    Handles = {h1, h2}
    NoH = noh
    BUF = 2
    MaxSize = 3
    MaxBody = 2
    MaxReqs = 2
    READ_MAY_FAIL = TRUE
    DISK_MAY_FILL = TRUE
    ABORT_MAY_HAPPEN = TRUE
SPECIFICATION Spec
SYMMETRY SymmHC
INVARIANTS
    TypeOK
