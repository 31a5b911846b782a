SPECIFICATION Spec
CONSTANTS
    Devices = {d1}
    Keys = {k1, k2, k3}
    Rotations = {r1, r2}
    Requests = {q1, q2}
    Reconcilers = {background, admin}
    Background = background
    GraceMinutes = {1}
    MaxTime = 0
    MaxFaults = 0
    MaxBackSteps = 1
    NULL = NULL
SYMMETRY RowSymmetry
INVARIANTS
    TypeOK
    RotationsAgree
    NeverLockedOut
    NoOrphanedKeys
    ProofBeforeRetirement
    OnlyActivatedKeysUsed
PROPERTIES
    FirstOutcomeStands
    ImplementsLifecycle
