SPECIFICATION RetrySpec
CONSTANTS
    w1 = w1  w2 = w2  w3 = w3  w4 = w4
    c1 = c1  c2 = c2  x = x  y = y  z = z
    Runs = {w1, w2, w3}
    Commits = {c1, c2}
    Names = {1, 2}
    Bytes = {x, y, z}
    CommitOf <- TheCommitOf
    Bundle <- TheBundle
    None = None
    Cut = Cut
    Serial = TRUE
    CutsUploads = FALSE
    SettleAttempts = 3
    MaxFaults = 6
    MaxActs = 0
PROPERTY RetriesPublish
CHECK_DEADLOCK FALSE
