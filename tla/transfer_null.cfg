\* The owner stops before it answers.
CONSTANTS
    Files = {f1, f2}
    Contents <- PlainContents
    u64_values = 4
    Capacity = 2
    NoFile = NoFile
    MaxNotices = 1
    MaxEdits = 0
    MaxStops = 1
SPECIFICATION Spec
SYMMETRY FileSymmetry
INVARIANT StrNEqualsGetsStrings
CHECK_DEADLOCK FALSE
