SPECIFICATION Spec
CONSTANTS
    r1 = r1
    r2 = r2
    r3 = r3
    k1 = k1
    k2 = k2
    k3 = k3
    p1 = p1
    None = None
    Reqs = {r1, r2, r3}
    Keys = {k1, k2, k3}
    KeyOf <- PairKeyOf
    ReadOnly = {r3}
    Callers = {r1, r2, r3}
    Streamers = {}
    Nested <- NoNested
    Pushes = {}
    MaxStdin = 2
    MaxCmd = 0
    MaxEv = 0
    MaxReplies = 0
    MaxBad = 0
INVARIANT
    KeyRunsOnce
CHECK_DEADLOCK FALSE
