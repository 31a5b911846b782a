SPECIFICATION Spec
CONSTANTS
    hq = hq
    lab = lab
    hqlab = hqlab
    a1 = a1
    a2 = a2
    b1 = b1
    Devices = {hq, hqlab, lab}
    Labels <- SharedLabel
    Name <- MCName
    Addrs = {a1, b1}
    Family <- MCFamily
    Requests = {q1, q2, q3}
    AutocreatePolicy = "device-prefix"
    ClientsWait = FALSE
    MaxMoves = 1
    MaxFaults = 1
    NULL = NULL
SYMMETRY RequestSymmetry
INVARIANTS
    AnsweredOwn
PROPERTIES
    OwnersAreFinal
    OnlyClaimsCollide
