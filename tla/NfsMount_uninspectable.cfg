\* The mount is busy and its root cannot be inspected at teardown.
SPECIFICATION Spec
CONSTANTS
    FeatureSets <- BothTransports
    Preexisting <- FreeMountpoint
    Faults = {"unmount", "uninspectable"}
    MaxEjects = 0
INVARIANTS ReportedUnmountIsReal
CHECK_DEADLOCK FALSE
