SPECIFICATION FairSpec
CONSTANTS
    s = s
    p = p
    q = q
    None = None
    junk = junk
    c1 = c1
    own = own
    other = other
    Malformed = Malformed
    Keys = {s, p, q}
    Docs <- AllDocs
    Junk = {junk}
    Botched = {q}
    Manifests <- AllManifests
    MaxPublished = 4
    MaxReplaced = 1
    Clients = {c1}
    Before <- IdBefore
    TrustedKey = own
    Foreign <- AnothersDocument
    Periods <- OnePeriod
    HandWritten <- OneByHand
    Sequences = {1}
    MaxIssued = 2
    MaxTime = 2
INVARIANTS
    VerifiedIsClosed
    AcceptedResolves
    RefusalIsReal
    TrustNeverForks
PROPERTY
    WalkEnds
CHECK_DEADLOCK FALSE
