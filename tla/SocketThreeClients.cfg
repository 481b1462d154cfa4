SPECIFICATION Spec
CONSTANTS
    Conns = {c1, c2, c3, c4, c5}
    MaxMsgs = 0
    MaxSent = 0
    MaxPress = 1
    SOCKETQUEUE_LENTH = 1
    Disturbances = {}
SYMMETRY Symmetry
INVARIANTS
    AcceptNeverFails
