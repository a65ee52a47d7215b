SPECIFICATION FairSpec
CONSTANTS
    Members = {1, 2, 3}
    NoAddress = NoAddress
    Specs <- EditedSpecs
    MaxReplicas = 2
    MaxSurge = 1
    Timeout = 1
    MaxIdle = {}
    Recycle = TRUE
    Prompt = TRUE
    Width = 2
    AgeCap = 2
    MaxEvents = 2
INVARIANTS AliveWithinMax AddressesSound
PROPERTIES PoolFills RolloutCompletes
CHECK_DEADLOCK FALSE
