SPECIFICATION Spec
CONSTANTS
    ENET_TXBD_NUM = 3
    configTIMER_QUEUE_LENGTH = 10
    MaxSends = 8
INVARIANTS
    TypeOK
    NoLostWakeup
    PendNeverFails
PROPERTIES
    ImplementsFrameChannel
CHECK_DEADLOCK FALSE
