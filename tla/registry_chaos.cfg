\* Every outcome of the freed head, two signals, two processes killed.
CONSTANTS
    Clients = {c1, c2, c3}
    Capacity = 1
    WorkerThreads = 1
    FreedNext <- AnyOutcome
    DoubleSignals = TRUE
    MaxStarts = 4
    MaxCrashes = 2
    Junk = Junk
    NoSocket = NoSocket
    Dead = Dead
    Listening = Listening
    Nobody = Nobody
SPECIFICATION Spec
SYMMETRY ClientSymmetry
INVARIANT HungKnowsNobody
INVARIANT PushersHaveWorkers
CHECK_DEADLOCK FALSE
