\* One listing to its end, over NFS or over FUSE.
SPECIFICATION FairSpec
CONSTANTS
    EntryNames = {"a", "b"}
    Dir <- MCDir
    Size <- MCSize
    Synthesize = TRUE
    Protocols = {"nfs", "fuse"}
    Counts <- MCCounts
    Overhead = 1
    Workers = {w1, w2}
    MaxFaults = 2
    MaxCalls = 10
INVARIANTS TypeOK NothingSkippedOrRepeated EndMeansComplete RetransmissionsAgree ReplyWithinCount
PROPERTIES ImplementsListing ListingEnds
\* The system stops when the listing is over.
CHECK_DEADLOCK FALSE
