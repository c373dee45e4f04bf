\* Every backend, option set and thread count; two threads; a file of two bytes
\* read in pieces over FUSE and NFS.
SPECIFICATION FairSpec
CONSTANTS
    Dirs <- MCDirs
    Parents <- MCParents
    Data <- MCData
    Bytes = {"a", "b", "x", "y"}
    Path <- MCPath
    Secrets <- MCSecrets
    FsNames <- MCNames
    MaxFaults = 1
    Workers = {1, 2}
    Hex = {"hex1", "hex2"}
    MAX_LABEL_LEN = 3
    RTMAX = 1
    MaxOffset = 3
    Counts = {1, 2}
    Probes = {"null", "getattr", "access", "lookup", "readdir", "fsstat", "fsinfo", "pathconf", "write", "symlink", "umnt", "export", "unknown"}
    MaxProbes = 1
    MaxGen = 2
    MaxCalls = 8
    MAX_READ = 2
    ReadSizes = {1, 2}
    XattrLen = 1
    XattrSizes = {0, 1}
    Extras = {"lookup", "getattr", "statfs", "readdir", "getxattr", "listxattr"}
    MaxExtras = 1
    DEFAULT_WORKER_THREADS = 2
    Builds = {"Fuse", "Nfs", "CfApi", "none"}
    ThreadCounts = {0, 1}
INVARIANTS TypeOK HandlesAccounted LookupsConserved ExportPathHolds
PROPERTIES ImplementsFileRead ReadEnds
\* The file has been read, or the mount is gone.
CHECK_DEADLOCK FALSE
