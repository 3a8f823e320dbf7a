\* Two launches and one surface lifetime, under fairness.
SPECIFICATION FairSpec
CONSTANTS
    Requests = {r1, r2}
    NoRequest = NoRequest
    kMaxPendingLaunchRequests = 1
    Windows = {w1}
    NoWindow = NoWindow
    Sizes = {z1}
    NoSize = NoSize
    TooSmall = TooSmall
    BadDpi = BadDpi
    GenerationLimit = 1
PROPERTIES QueuedLaunchStarts ShutdownEnds
CHECK_DEADLOCK FALSE
