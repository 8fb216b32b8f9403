\* One thread setting two LEDs to every mode, preempted by the timer interrupt.
CONSTANTS
    net = net  can = can  t1 = t1  t2 = t2
    Leds = {net, can}
    Threads = {t1}
    Main = t1
    NoOwner = none
    SetModes = {"OFF", "STEADY", "FLASHING", "BLINKING_1Hz", "BLINKING_5Hz"}
    MaxCalls = 4
    MaxAge = 6
    INIT_MAY_FAIL = TRUE
SPECIFICATION Spec
SYMMETRY SymmLeds
INVARIANTS
    TypeOK
    SettledPins
    PendingLedHasTimer
