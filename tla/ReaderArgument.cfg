SPECIFICATION Spec
CONSTANTS
    Conns = {c1, c2, c3}
    MaxMsgs = 0
    MaxSent = 0
    MaxPress = 1
    SOCKETQUEUE_LENTH = 1
    Disturbances = {}
SYMMETRY Symmetry
INVARIANTS
    ReaderGetsItsSocket
