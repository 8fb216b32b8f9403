\* One LED flashing.
CONSTANTS
    net = net  can = can  t1 = t1  t2 = t2
    Leds = {net}
    Threads = {t1}
    Main = t1
    NoOwner = none
    SetModes = {"OFF", "FLASHING"}
    MaxCalls = 2
    MaxAge = 6
    INIT_MAY_FAIL = FALSE
SPECIFICATION Spec
SYMMETRY SymmLeds
INVARIANTS
    BlinkOnTime
