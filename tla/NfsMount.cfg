\* Every build, every refusal, busy mounts and directories that cannot be removed.
SPECIFICATION FairSpec
CONSTANTS
    FeatureSets <- AnyBuild
    Preexisting <- FreeMountpoint
    Faults = {"verify", "unmount", "rmdir"}
    MaxEjects = 2
INVARIANTS TypeOK NothingLeftBehind MountIsServed HandleAsAsked MntWindowCloses ReportedUnmountIsReal
 
\* mount has failed or the handle is gone.
CHECK_DEADLOCK FALSE
