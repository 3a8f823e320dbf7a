\* One game, two surface lifetimes.
SPECIFICATION Spec
CONSTANTS
    Requests = {r1}
    NoRequest = NoRequest
    kMaxPendingLaunchRequests = 1
    Windows = {w1}
    NoWindow = NoWindow
    Sizes = {z1}
    NoSize = NoSize
    TooSmall = TooSmall
    BadDpi = BadDpi
    GenerationLimit = 2
INVARIANT LaunchedGameFollowsWindow
CHECK_DEADLOCK FALSE
