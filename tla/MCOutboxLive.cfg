SPECIFICATION FairSpec
CONSTANTS
    Msgs = {email, hook}
    Workers = {w1}
    AtLeastOnce = {hook}
    MaxAttempts = 2
    MaxResends = 1
    NoClaim = NoClaim
CHECK_DEADLOCK FALSE
PROPERTIES
    EventuallySettled
