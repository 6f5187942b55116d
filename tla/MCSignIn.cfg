SPECIFICATION Spec
CONSTANTS
    Procs = {p1, p2}
    Nonces = {n1}
    MaxDevices = 2
    MaxStep = 2
    Threshold = 2
    None = None
SYMMETRY Symmetry
INVARIANTS
    CodeWorksOnce
    TokenOpensOneSession
    BurstBounded
    CodesNeedTheirDevice
