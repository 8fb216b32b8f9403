\* Three sensors, a CAN device and the die sensor racing for a list of three.
CONSTANTS
    b1 = b1  b2 = b2  b3 = b3  d1 = d1
    BleAddrs = {b1, b2, b3}
    CanIds = {d1}
    LIST_SIZE = 3
    QUEUE_SIZE = 1
    Frames <- MCFrames
    MaxFrames = 4
SPECIFICATION FairSpec
INVARIANTS
    TypeOK
    UniqueDevices
PROPERTIES
    QueueEventuallyDrained
