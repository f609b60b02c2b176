SPECIFICATION Spec
CONSTANTS
    w1 = w1  w2 = w2  w3 = w3  w4 = w4
    c1 = c1  c2 = c2  x = x  y = y  z = z
    Runs = {w1, w2, w4}
    Commits = {c1, c2}
    Names = {1, 2}
    Bytes = {x, y, z}
    CommitOf <- TheCommitOf
    Bundle <- TheBundle
    None = None
    Cut = Cut
    Serial = FALSE
    CutsUploads = TRUE
    SettleAttempts = 2
    MaxFaults = 2
    MaxActs = 1
SYMMETRY RerunSymmetry
INVARIANTS
    TypeOK
    PublishedIsWhole
    SuccessIsTrue
PROPERTY ImplementsWriteOnce
CHECK_DEADLOCK FALSE
