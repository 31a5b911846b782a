SPECIFICATION Spec
CONSTANTS
    hq = hq
    lab = lab
    hqlab = hqlab
    a1 = a1
    a2 = a2
    b1 = b1
    Devices = {hq, hqlab}
    Labels <- SharedLabel
    Name <- MCName
    Addrs = {a1, a2}
    Family <- MCFamily
    Requests = {q1, q2}
    AutocreatePolicy = "device-prefix"
    ClientsWait = TRUE
    MaxMoves = 0
    MaxFaults = 0
    NULL = NULL
PROPERTIES
    OnlyOwnHosts
