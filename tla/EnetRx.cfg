SPECIFICATION Spec
CONSTANTS
    ENET_RXBD_NUM = 3
    PBUF_POOL_SIZE = 3
    MEMP_NUM_TCPIP_MSG_INPKT = 2
    Lengths = {1, 2}
    BadFrames = TRUE
    MaxFrames = 5
    MaxPolls = 2
INVARIANTS
    TypeOK
    RingInSync
    NeverWedged
    PbufsConserved
PROPERTIES
    ImplementsLossyChannel
CHECK_DEADLOCK FALSE
