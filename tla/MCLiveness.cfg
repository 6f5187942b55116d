SPECIFICATION MCSpec
CONSTANTS
    Families = {f1}
    MaxGen = 3
    Procs = {p1}
    Readers = {r1}
    Cap = 1
    MaxResets = 1
    NoSid = NoSid
    MaxPk = 3
    BatchSize = 1
    Resumable = TRUE
    Drifting = {1, 2}
    MaxUpsets = 2
PROPERTIES
    RevocationTakesHold
    EveryRowIsServed
