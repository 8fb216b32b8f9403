\* A list of two, filled by the CAN and die producers before the sensors.
CONSTANTS
    b1 = b1  b2 = b2  b3 = b3  d1 = d1
    BleAddrs = {b1, b2, b3}
    CanIds = {d1}
    LIST_SIZE = 2
    QUEUE_SIZE = 1
    Frames <- MCFrames
    MaxFrames = 3
SPECIFICATION Spec
INVARIANTS
    NoRecordDropped
