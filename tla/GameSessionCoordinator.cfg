\* Two extents make a resize differ from a duplicate, generations 0..3 allow
\* the invalid one, two lifetimes and an unknown one, frames 0..2 the malformed
\* evidence, the first frame and a later one.
SPECIFICATION FairSpec
CONSTANTS
    MaxGeneration = 3
    MaxFrame = 2
    Generations <- MCGenerations
    Frames <- MCFrames
    Extents = {e1, e2}
    NoExtent = NoExtent
    AuthPrincipals = {auth}
    GuestPrincipals = {guest}
    InvalidPrincipals = {badPrincipal}
    NetworkRequests = {network}
    LocalRequests = {local}
    InvalidRequests = {badRequest}
    NoPrincipal = NoPrincipal
    NoRequest = NoRequest
INVARIANTS TypeOK SessionShape SurfaceOwnership StartIsJustified PresentIsJustified
PROPERTIES EvidenceSettles EvidenceDecided NativeProtocol
