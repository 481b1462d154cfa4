SPECIFICATION FairSpec
CONSTANTS
    GUI_BUFFERS = 2
    MaxFrames = 9
INVARIANTS
    TypeOK
    NoTearing
    HandshakeInv
PROPERTIES
    ConfirmedIsVisible
    ShowBufferReturns
    ImplementsFrameFlip
