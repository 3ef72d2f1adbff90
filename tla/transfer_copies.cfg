\* Two files that are edited, and processes that stop.
CONSTANTS
    Files = {f1, f2}
    Contents <- AwkwardContents
    u64_values = 4
    Capacity = 2
    NoFile = NoFile
    MaxNotices = 2
    MaxEdits = 1
    MaxStops = 1
SPECIFICATION FairSpec
INVARIANT TypeOK
INVARIANT CopiesAreMadeOfVersions
INVARIANT QuietMeansCopied
PROPERTY CopiesAreMirrored
PROPERTY WorkerComesBack
CHECK_DEADLOCK FALSE
