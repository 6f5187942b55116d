SPECIFICATION Spec
CONSTANTS
    Msgs = {email, hook}
    Workers = {w1, w2}
    AtLeastOnce = {hook}
    MaxAttempts = 2
    MaxResends = 1
    NoClaim = NoClaim
CHECK_DEADLOCK FALSE
SYMMETRY MCSymmetry
INVARIANTS
    AtMostOncePerRequest
    WrittenOffWasNotSent
    FindingsFollowRows
PROPERTIES
    ParkedIsReported
    SettledIsFinal
    KeepsPromise
