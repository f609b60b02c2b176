SPECIFICATION Spec
CONSTANTS
    p1 = p1  p2 = p2  p3 = p3  rd = rd
    plugin = plugin  sidecar = sidecar  a1 = a1  s1 = s1  s2 = s2
    Publishers = {p1, p2}
    Readers = {rd}
    Keys = {plugin, sidecar}
    Contents = {a1, s1, s2}
    KeyOf <- TheKeyOf
    Pins <- ThePins
    Rank <- TheRank
    Torn = Torn
    None = None
    TrustsRefusals = FALSE
    MaxRebuilds = 1
SYMMETRY PublisherSymmetry
INVARIANTS
    TypeOK
    StoredReleasesAreWhole
    OnePublisherWorks
    LeftoversStopEveryone
    AnswersAreTrue
PROPERTIES
    
    ImplementsWriteOnce
CHECK_DEADLOCK FALSE
