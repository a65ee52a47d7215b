SPECIFICATION Spec
CONSTANTS
    MaxUid = 2
    MaxFaults = 1
    MaxChanges = 3
    MaxMorefs = 3
    VSphereFaults = 1
    MaxVmids = 2
    ProxmoxChanges = 3
INVARIANT OwnOnly
PROPERTIES ImplementsLifecycle ForeignSpared RecordedSpared MachineServed DeletedMachineGoes
CHECK_DEADLOCK FALSE
