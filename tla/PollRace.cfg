SPECIFICATION Spec
CONSTANTS
    ENET_RXBD_NUM = 3
    PBUF_POOL_SIZE = 3
    MEMP_NUM_TCPIP_MSG_INPKT = 2
    Lengths = {1}
    BadFrames = TRUE
    MaxFrames = 4
    MaxPolls = 2
INVARIANTS
    ReadsOnlyReceived
CHECK_DEADLOCK FALSE
