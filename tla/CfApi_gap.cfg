\* A file is written between the check for an empty directory and the registration.
SPECIFICATION Spec
CONSTANTS
    Files <- OneFile
    Dirs = {}
    In <- OneIn
    Size <- OneSize
    Readable <- OneSize
    TRANSFER_CHUNK = 2
    Align = 2
    Faults = {}
    MaxMounts = 1
PROPERTIES UserFilesSurvive
\* The mount is over.
CHECK_DEADLOCK FALSE
