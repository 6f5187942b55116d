SPECIFICATION MCSpec
CONSTANTS
    Procs = {p1, p2}
    MaxWrites = 2
    MaxGen = 3
    Writers = {w1, w2}
    Readers = {r1}
    MaxChanges = 2
    MaxVersion = 3
    MaxEvictions = 1
    None = None
INVARIANTS
    ReadsSeeFinishedWrites
    OnlyChangesInFlightAreMissed
    NewestWriteIsStored
PROPERTIES
    OverwrittenValuesDie
    OverwrittenGrantsDie
