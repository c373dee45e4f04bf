\* The platform refuses to disconnect.
SPECIFICATION Spec
CONSTANTS
    Files <- OneFile
    Dirs = {}
    In <- OneIn
    Size <- OneSize
    Readable <- OneSize
    TRANSFER_CHUNK = 2
    Align = 2
    Faults = {"disconnect"}
    MaxMounts = 1
INVARIANTS ContextOutlivesCallbacks
\* The mount is over.
CHECK_DEADLOCK FALSE
