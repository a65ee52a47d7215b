SPECIFICATION Spec
CONSTANTS
    x1 = x1
    x2 = x2
INVARIANTS GoesLast PublishedIsBuilt VolumeIsOwn
PROPERTIES UsedSpared RequestReachesAll ImageServed DeletedImageGoes
CHECK_DEADLOCK FALSE
