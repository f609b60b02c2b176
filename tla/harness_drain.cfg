SPECIFICATION FairSpec
CONSTANTS
    r1 = r1
    r2 = r2
    r3 = r3
    k1 = k1
    k2 = k2
    k3 = k3
    p1 = p1
    None = None
    Reqs = {r1, r2, r3}
    Keys = {k1, k2, k3}
    KeyOf <- OwnKeyOf
    ReadOnly = {r3}
    Callers = {r1}
    Streamers = {}
    Nested <- NoNested
    Pushes = {}
    MaxStdin = 3
    MaxCmd = 1
    MaxEv = 0
    MaxReplies = 1
    MaxBad = 0
PROPERTY
    DrainFinishes
CHECK_DEADLOCK FALSE
