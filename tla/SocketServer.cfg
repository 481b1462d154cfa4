SPECIFICATION Spec
CONSTANTS
    Conns = {c1, c2, c3}
    MaxMsgs = 0
    MaxSent = 0
    MaxPress = 3
    SOCKETQUEUE_LENTH = 1
    Disturbances = {"weather", "reset"}
SYMMETRY Symmetry
INVARIANTS
    TypeOK
    LockHolderAlive
    ServerNeverReturns
    PoolNotExceeded
    ReaderOwnsConnection
    FreedUnderWaiterOnlyIfShared
    TasksNeverHang
