SPECIFICATION EnetSpec
CONSTANTS
    ENET_RXBD_NUM = 2
    PBUF_POOL_SIZE = 2
    MEMP_NUM_TCPIP_MSG_INPKT = 2
    Lengths = {1}
    BadFrames = TRUE
    MaxFrames = 2
    MaxPolls = 1
    ENET_TXBD_NUM = 2
    configTIMER_QUEUE_LENGTH = 5
    MaxSends = 3
INVARIANTS
    NothingHangs
PROPERTIES
    DeliveredAfterPolls
    EveryFrameSent
CHECK_DEADLOCK FALSE
