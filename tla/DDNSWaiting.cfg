SPECIFICATION FairSpec
CONSTANTS
    hq = hq
    lab = lab
    hqlab = hqlab
    a1 = a1
    a2 = a2
    b1 = b1
    Devices = {hq, lab}
    Labels <- OneLabel
    Name <- MCName
    Addrs = {a1, a2, b1}
    Family <- MCFamily
    Requests = {q1, q2}
    AutocreatePolicy = "device-prefix"
    ClientsWait = TRUE
    MaxMoves = 3
    MaxFaults = 2
    NULL = NULL
INVARIANTS
    TypeOK
    StoresAgree
    GoodIsServed
PROPERTIES
    OwnersAreFound
