SPECIFICATION ChannelSpec
CONSTANTS
    Devices = {d1, d2}
    Enrollments = {e1}
    Identities = {i1, i2}
    Requests = {q1}
    Admins = {}
    TTLs = {1}
    MaxTime = 0
    MaxFaults = 1
    MaxCounter = 0
    Threshold = 0
    Interfaces = {w1}
    LANs = {}
    MaxReports = 1
    MaxBack = 1
    MaxAhead = 1
    NULL = NULL
INVARIANTS
    ReportsAreAuthenticated
PROPERTIES
    RevokedGoesOffline
