\* Two threads setting one LED.
CONSTANTS
    net = net  can = can  t1 = t1  t2 = t2
    Leds = {net}
    Threads = {t1, t2}
    Main = t1
    NoOwner = none
    SetModes = {"OFF", "STEADY"}
    MaxCalls = 2
    MaxAge = 6
    INIT_MAY_FAIL = FALSE
SPECIFICATION Spec
SYMMETRY SymmLeds
INVARIANTS
    NoThreadBlockedByIdleOwner
