SPECIFICATION Spec
CONSTANTS
    Devices = {d1, d2}
    Enrollments = {e1, e2}
    Identities = {i1, i2, i3}
    Requests = {q1}
    Admins = {a1}
    TTLs = {1}
    MaxTime = 1
    MaxFaults = 1
    NULL = NULL
SYMMETRY RowSymmetry
INVARIANTS
    TypeOK
    OneOfEach
    LinksAgree
    CompletedIsProven
PROPERTIES
    TokensEndOnTime
    OutcomesStand
