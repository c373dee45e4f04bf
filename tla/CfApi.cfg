\* Concurrent callbacks, failures, crashes and the user's own files over two
\* mounts of one directory.
SPECIFICATION FairSpec
CONSTANTS
    Files <- AllFiles
    Dirs = {"sub"}
    In <- AllIn
    Size <- AllSizes
    Readable <- AllReadable
    TRANSFER_CHUNK = 2
    Align = 2
    Faults = {"register", "connect", "unregister", "remove", "identity", "list", "getattr", "read", "overcount", "crash"}
    MaxMounts = 2
INVARIANTS TypeOK ContextOutlivesCallbacks FetchAnswered DataOrFailureNeverBoth HandlesReleased TeardownLeavesNothing
PROPERTIES FilesOutsideMountsSurvive FetchEnds UnmountEnds
\* Both mounts are over.
CHECK_DEADLOCK FALSE
