SPECIFICATION FairSpec
CONSTANTS
    AnyNet = "any"
    VMs = {1}
    Kinds = {"vsphere"}
    Placements = {"p1", "p2"}
    KindOf <- BackendOf
    NoKind = NoKind
    Refused = Refused
    NoPlacement = NoPlacement
    Answers = {"p1", "p2"}
    Addresses = {}
    NoAddress = NoAddress
    Powers = {"On"}
    Policies = {"Automatic"}
    Outages = {{}}
    Changes = {"world"}
    Lag = FALSE
    Ties = FALSE
    MaxClock = 1
    MaxChanges = 1
    MaxFaults = 0
PROPERTIES MigrationCompletes
CHECK_DEADLOCK FALSE
