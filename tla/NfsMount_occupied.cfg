\* The mountpoint already holds a mount and mount(2) refuses a second one.
SPECIFICATION Spec
CONSTANTS
    FeatureSets <- BothTransports
    Preexisting <- OccupiedMountpoint
    Faults = {}
    MaxEjects = 0
PROPERTIES TakesDownOnlyOwn
CHECK_DEADLOCK FALSE
