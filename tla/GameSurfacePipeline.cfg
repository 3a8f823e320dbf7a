\* Three surface lifetimes, two handles and two sizes; the process may end.
SPECIFICATION PipelineSpec
CONSTANTS
    Generations <- MCGenerations
    Extents <- MCExtents
    Frames <- MCFrames
    NoExtent = NoExtent
    AuthPrincipals = {auth}
    GuestPrincipals = {}
    InvalidPrincipals = {}
    NetworkRequests = {network}
    LocalRequests = {}
    InvalidRequests = {}
    NoPrincipal = NoPrincipal
    NoRequest = NoRequest
    Player = auth
    Join = network
    Windows = {w1, w2}
    NoWindow = NoWindow
    Sizes = {z1, z2}
    NoSize = NoSize
    TooSmall = TooSmall
    BadDpi = BadDpi
    GenerationLimit = 3
INVARIANTS FailureIsNative GameFollowsWindow RecordedMeansEvidence CleanExit
SYMMETRY Interchangeable
CHECK_DEADLOCK FALSE
