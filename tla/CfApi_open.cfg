\* The filesystem cannot open the file.
SPECIFICATION Spec
CONSTANTS
    Files <- OneFile
    Dirs = {}
    In <- OneIn
    Size <- OneSize
    Readable <- OneSize
    TRANSFER_CHUNK = 2
    Align = 2
    Faults = {"open"}
    MaxMounts = 1
INVARIANTS FetchAnswered
\* The mount is over.
CHECK_DEADLOCK FALSE
