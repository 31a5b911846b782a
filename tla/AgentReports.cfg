SPECIFICATION Spec
CONSTANTS
    Devices = {d1}
    Readers = {p1}
    MaxCounter = 2
    Threshold = 1
    Interfaces = {w1}
    LANs = {n1, n2}
    MaxReports = 3
    MaxBack = 1
    MaxAhead = 1
    NULL = NULL
SYMMETRY NameSymmetry
INVARIANTS
    TypeOK
    PresenceAccepted
    SilenceJudged
    ReadsAdvance
