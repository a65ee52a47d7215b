SPECIFICATION Spec
CONSTANTS
    x1 = x1
    x2 = x2
    NoAddress = NoAddress
INVARIANTS DecisionsSound ServicesSound
PROPERTIES StepsSound ComesToRest NobodyWaits
CHECK_DEADLOCK FALSE
