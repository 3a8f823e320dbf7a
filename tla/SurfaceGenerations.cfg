SPECIFICATION HistorySpec
CONSTANTS
    MaxGeneration = 3
    MaxFrame = 2
    Generations <- MCGenerations
    Frames <- MCFrames
    Extents = {e1, e2}
    NoExtent = NoExtent
    AuthPrincipals = {auth}
    GuestPrincipals = {guest}
    InvalidPrincipals = {badPrincipal}
    NetworkRequests = {network}
    LocalRequests = {local}
    InvalidRequests = {badRequest}
    NoPrincipal = NoPrincipal
    NoRequest = NoRequest
INVARIANT RecreatedSurfaceNeedsNewGeneration
