SPECIFICATION Spec
CONSTANTS
    Families = {f1}
    MaxGen = 1
    Procs = {p1}
    Readers = {r1}
    Cap = 1
    MaxResets = 0
    NoSid = NoSid
INVARIANTS
    RevokedStopsAtOnce
