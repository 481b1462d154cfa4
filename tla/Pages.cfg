SPECIFICATION FairSpec
CONSTANTS
    Points <- MCPoints
    Handle <- MCHandle
    Pool <- MCPool
    TimerId <- MCTimerId
INVARIANTS
    TypeOK
    HandlesNameWindows
    OneScreen
    MenuHasTimer
    ButtonsOnPage
PROPERTIES
    MenuCloses
    ReleaseReported
