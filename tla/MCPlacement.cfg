SPECIFICATION EitherSpec
CONSTANTS
    AnyNet = "any"
    VMs = {1}
    Kinds = {"vsphere", "libvirt"}
    Placements = {"p1", "p2", "p3", "p4"}
    KindOf <- OnBackends
    NoKind = NoKind
    Refused = Refused
    NoPlacement = NoPlacement
    Answers = {"p1", "p3"}
    Addresses = {}
    NoAddress = NoAddress
    Powers = {"On"}
    Policies = {"Automatic"}
    Outages = {{}, {"libvirt"}}
    Changes = {"world", "pause", "delete"}
    Lag = TRUE
    Ties = FALSE
    MaxClock = 1
    MaxChanges = 3
    MaxFaults = 1
INVARIANTS NoDanglingInfra RecordedWhenCurrent
PROPERTIES  DeletedVmGoes CascadeIsolated
CHECK_DEADLOCK FALSE
