SPECIFICATION Spec
CONSTANTS
    a = a
    b = b
    dep = dep
    g1 = g1
    g2 = g2
    None = None
    Gates = {g1, g2}
    Commits <- AllCommits
    Sources = {1, 2}
    Bytes = {a, b}
    MaxMoves = 2
    Generated <- AllGenerated
INVARIANTS
    OkIsCommitted
    RecordIsTrue
PROPERTY
    OutputIsWriteOnce
CHECK_DEADLOCK FALSE
