SPECIFICATION Spec
CONSTANTS
    i1 = i1  i2 = i2  i3 = i3  i4 = i4
    t1 = t1  t2 = t2
    s1 = s1  s2 = s2
    res1 = res1
    n1 = n1  n2 = n2  n3 = n3
    f1 = f1  f2 = f2
    None = None
    Roles = {"controller", "preview", "view", "file-viewer"}
    Methods <- MethodsOfRole
    Ids = {i1, i2, i3, i4}
    Topics = {t1, t2}
    SubIds = {s1, s2}
    Resources = {res1}
    Nodes = {n1, n2, n3}
    StreamIds = {f1, f2}
    MaxPending = 2
    MaxRequests = 3
    MaxSubscriptions = 1
    MaxActiveStreams = 1
    MaxStreams = 2
    MaxOwnedNodes = 2
    MaxPageNodes = 2
    MaxSeq <- SeqOfRole
    MaxRevision = 2
    MaxBytes = 3
INVARIANTS
    TypeOK
    EveryRequestHasOneFate
    NodeAuthorityIsCurrent
    SubscriptionsAreAskedFor
    LimitsHold
    StreamsCarryTheirBytes
SYMMETRY IdSymmetry
CHECK_DEADLOCK FALSE
