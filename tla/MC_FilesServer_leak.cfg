\* Two connections, connections that die between calls and a disk that fills:
\* every way the code has of leaving a filesystem slot open.
CONSTANTS
    c1 = c1  c2 = c2  p1 = p1  p2 = p2  h1 = h1  h2 = h2
    Conn = {c1, c2}
    Paths = {p1, p2}
    LongPath = lp
    Handles = {h1, h2}
    NoH = noh
    BUF = 2
    MaxSize = 4
    MaxBody = 3
    MaxReqs = 3
    READ_MAY_FAIL = FALSE
    DISK_MAY_FILL = TRUE
    ABORT_MAY_HAPPEN = TRUE
SPECIFICATION Spec
SYMMETRY SymmHC
INVARIANTS
    NoLeakedHandle
