SPECIFICATION HarnessSpec
CONSTANTS
    r1 = r1
    r2 = r2
    r3 = r3
    k1 = k1
    k2 = k2
    k3 = k3
    p1 = p1
    None = None
    Reqs = {r1, r2, r3}
    Keys = {k1, k2, k3}
    KeyOf <- OwnKeyOf
    ReadOnly = {r3}
    Callers = {r1}
    Streamers = {}
    Nested <- SelfCall
    Pushes = {p1}
    MaxStdin = 1
    MaxCmd = 1
    MaxEv = 0
    MaxReplies = 1
    MaxBad = 1
PROPERTIES
    ReadsAndPushesRunFree
    EveryOpRuns
    EveryOpEnds
    DrainEndsUnlessCalling
CHECK_DEADLOCK FALSE
