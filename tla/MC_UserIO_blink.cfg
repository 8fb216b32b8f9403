\* Two LEDs blinking at 1 Hz and 5 Hz.
CONSTANTS
    net = net  can = can  t1 = t1  t2 = t2
    Leds = {net, can}
    Threads = {t1}
    Main = t1
    NoOwner = none
    SetModes = {"OFF", "BLINKING_1Hz", "BLINKING_5Hz"}
    MaxCalls = 3
    MaxAge = 6
    INIT_MAY_FAIL = FALSE
SPECIFICATION Spec
SYMMETRY SymmLeds
INVARIANTS
    BlinkOnTime
