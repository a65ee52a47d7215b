SPECIFICATION Spec
CONSTANTS
    Claims = {c1, c2}
    Members = {m1}
    None = None
    TTL = 1
    EndOfTime = 3
    MaxNow = 1
    MaxLives = 1
    MaxLag = 0
    MaxFaults = 0
PROPERTY BoundOnce
CHECK_DEADLOCK FALSE
