SPECIFICATION Spec
CONSTANTS
    hq = hq
    lab = lab
    hqlab = hqlab
    a1 = a1
    a2 = a2
    b1 = b1
    Devices = {hq}
    Labels <- OneLabel
    Name <- MCName
    Addrs = {a1, a2}
    Family <- MCFamily
    Requests = {q1}
    AutocreatePolicy = "device-prefix"
    ClientsWait = TRUE
    MaxMoves = 2
    MaxFaults = 1
    NULL = NULL
INVARIANTS
    NochgIsServed
