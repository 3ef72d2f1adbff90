\* Three clients that log on and off, are killed and start again; every outcome of
\* the freed head, two signals.
CONSTANTS
    Clients = {c1, c2, c3}
    Capacity = 1
    WorkerThreads = 1
    FreedNext <- AnyOutcome
    DoubleSignals = TRUE
    MaxStarts = 5
    MaxCrashes = 1
    Junk = Junk
    NoSocket = NoSocket
    Dead = Dead
    Listening = Listening
    Nobody = Nobody
SPECIFICATION Spec
SYMMETRY ClientSymmetry
INVARIANT TypeOK
INVARIANT ViewsAgree
CHECK_DEADLOCK FALSE
