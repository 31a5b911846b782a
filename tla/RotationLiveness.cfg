SPECIFICATION FairSpec
CONSTANTS
    Devices = {d1}
    Keys = {k1, k2}
    Rotations = {r1}
    Requests = {q1}
    Reconcilers = {background, admin}
    Background = background
    GraceMinutes = {1}
    MaxTime = 0
    MaxFaults = 2
    MaxBackSteps = 1
    NULL = NULL
PROPERTIES
    GraceEnds
    ValidationEnds
