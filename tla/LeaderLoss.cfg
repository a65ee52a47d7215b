SPECIFICATION FairSpec
CONSTANTS
    Procs = {p1, p2}
    Nobody = Nobody
    LeaseDuration = 2
    Faults = {}
    MaxFaults = 0

PROPERTIES LossNoticed
