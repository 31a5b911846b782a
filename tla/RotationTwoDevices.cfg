SPECIFICATION Spec
CONSTANTS
    Devices = {d1, d2}
    Keys = {k1, k2, k3, k4}
    Rotations = {r1, r2}
    Requests = {q1}
    Reconcilers = {background, admin}
    Background = background
    GraceMinutes = {1}
    MaxTime = 0
    MaxFaults = 1
    MaxBackSteps = 0
    NULL = NULL
SYMMETRY RowSymmetry
INVARIANTS
    OneOpenRotation
    GraceBoundary
PROPERTIES
    GraceHonoured
