SPECIFICATION Spec
CONSTANTS
    r1 = r1
    r2 = r2
    r3 = r3
    k1 = k1
    k2 = k2
    k3 = k3
    p1 = p1
    None = None
    Reqs = {r1, r2, r3}
    Keys = {k1, k2, k3}
    KeyOf <- PairKeyOf
    ReadOnly = {r3}
    Callers = {r1, r3}
    Streamers = {r2}
    Nested <- NoNested
    Pushes = {}
    MaxStdin = 2
    MaxCmd = 2
    MaxEv = 1
    MaxReplies = 2
    MaxBad = 0
INVARIANTS
    TypeOK
    MutatingOpsSerialize
    ResIsLast
    RetryNeverRuns
    CallGetsItsOwnReply
    ExitIsDrained
PROPERTY
    ImplementsContract
CHECK_DEADLOCK FALSE
