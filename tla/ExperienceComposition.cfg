\* Three launches, a queue of two, three surface lifetimes; the process may end.
SPECIFICATION Spec
CONSTANTS
    Requests = {r1, r2, r3}
    NoRequest = NoRequest
    kMaxPendingLaunchRequests = 2
    Windows = {w1}
    NoWindow = NoWindow
    Sizes = {z1}
    NoSize = NoSize
    TooSmall = TooSmall
    BadDpi = BadDpi
    GenerationLimit = 3
INVARIANTS TypeOK CallbackRuntimeLives ReturnEndsItsOwnGame OneLaunch
PROPERTY PresenceOrder
SYMMETRY Interchangeable
CHECK_DEADLOCK FALSE
