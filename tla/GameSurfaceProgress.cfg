\* Three lifetimes of one window; a fairness property needs no symmetry.
SPECIFICATION PipelineSpec
CONSTANTS
    Generations <- MCGenerations
    Extents <- MCExtents
    Frames <- MCFrames
    NoExtent = NoExtent
    AuthPrincipals = {auth}
    GuestPrincipals = {}
    InvalidPrincipals = {}
    NetworkRequests = {network}
    LocalRequests = {}
    InvalidRequests = {}
    NoPrincipal = NoPrincipal
    NoRequest = NoRequest
    Player = auth
    Join = network
    Windows = {w1}
    NoWindow = NoWindow
    Sizes = {z1}
    NoSize = NoSize
    TooSmall = TooSmall
    BadDpi = BadDpi
    GenerationLimit = 3
PROPERTIES SurfacesReachGame OutOfDateIsReplaced
CHECK_DEADLOCK FALSE
