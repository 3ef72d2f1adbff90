\* No process stops, no version is 0.
CONSTANTS
    Files = {f1, f2}
    Contents <- PlainContents
    u64_values = 4
    Capacity = 2
    NoFile = NoFile
    MaxNotices = 2
    MaxEdits = 1
    MaxStops = 0
SPECIFICATION Spec
SYMMETRY FileSymmetry
INVARIANT UpToDateMeansSame
CHECK_DEADLOCK FALSE
