SPECIFICATION Spec
CONSTANTS
    Members = {1, 2, 3}
    NoAddress = NoAddress
    Specs <- SteadySpecs
    MaxReplicas = 2
    MaxSurge = 1
    Timeout = 0
    MaxIdle = {}
    Recycle = TRUE
    Prompt = FALSE
    Width = 2
    AgeCap = 1
    MaxEvents = 2
PROPERTIES ClaimedSpared
CHECK_DEADLOCK FALSE
