SPECIFICATION EitherSpec
CONSTANTS
    AnyNet = "any"
    VMs = {1, 2}
    Kinds = {"vsphere"}
    Placements = {"p1"}
    KindOf <- OnVsphere
    NoKind = NoKind
    Refused = Refused
    NoPlacement = NoPlacement
    Answers = {"p1"}
    Addresses = {"a"}
    NoAddress = NoAddress
    Powers = {"On", "Off"}
    Policies = {"Automatic"}
    Outages = {{}}
    Changes = {"edit", "power", "delete"}
    Lag = FALSE
    Ties = TRUE
    MaxClock = 1
    MaxChanges = 1
    MaxFaults = 0
INVARIANTS AddressesExclusive AdmissionSound
PROPERTIES PowerSound
CHECK_DEADLOCK FALSE
