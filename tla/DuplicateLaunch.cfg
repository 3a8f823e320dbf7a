\* One request, dispatched again while its game returns.
SPECIFICATION HistorySpec
CONSTANTS
    Requests = {r1}
    NoRequest = NoRequest
    kMaxPendingLaunchRequests = 1
    Windows = {w1}
    NoWindow = NoWindow
    Sizes = {z1}
    NoSize = NoSize
    TooSmall = TooSmall
    BadDpi = BadDpi
    GenerationLimit = 1
INVARIANT DuplicateIsLive
CHECK_DEADLOCK FALSE
