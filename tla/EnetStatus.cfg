SPECIFICATION FairSpec
CONSTANTS
    Addr = {a1, a2}
    ZeroAddr = zero
    NumImages = 3
INVARIANTS
    TypeOK
    DrawsNoFurtherThanNext
PROPERTIES
    IconSettles
    AddressReported
    ImplementsAnnouncement
