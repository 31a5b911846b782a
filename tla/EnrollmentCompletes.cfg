SPECIFICATION AgentSpec
CONSTANTS
    Devices = {d1}
    Enrollments = {e1, e2}
    Identities = {i1, i2}
    Requests = {q1}
    Admins = {a1}
    TTLs = {1}
    MaxTime = 1
    MaxFaults = 1
    NULL = NULL
PROPERTIES
    ConfirmationSucceeds
    ImplementsLifecycle
