SPECIFICATION Spec
CONSTANTS
    Star = Star
    Unclear = Unclear
    Absent = Absent
    Bad = Bad
    None = None
    MaxClauses = 2
    MaxLength = 6
    Self = 9
    Restating = {"echo"}
    MaxEdits = 2
    ServiceProtocol = 1
    ServiceFloor = 1
    Starts <- AllStarts
    Values <- AllValues
    Hellos <- AllHellos
    Ladder <- Rungs
INVARIANTS
    OfferedIsCarriedOut
    AcceptedIsKept
    RangesAgree
CHECK_DEADLOCK FALSE
