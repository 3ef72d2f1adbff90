\* A client that is killed and started again gets a notice meant for the process
\* that was killed.
CONSTANTS
    Clients = {c1, c2}
    Capacity = 2
    WorkerThreads = 1
    FreedNext <- Overwritten
    DoubleSignals = FALSE
    MaxStarts = 3
    MaxCrashes = 1
    Junk = Junk
    NoSocket = NoSocket
    Dead = Dead
    Listening = Listening
    Nobody = Nobody
SPECIFICATION Spec
SYMMETRY ClientSymmetry
INVARIANT RemoveGetsData
CHECK_DEADLOCK FALSE
