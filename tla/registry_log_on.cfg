\* Every outcome of the freed head, one signal per log_out, a buffer for one record:
\* LOG_OFFs, and the log-on under fairness.
CONSTANTS
    Clients = {c1, c2, c3}
    Capacity = 1
    WorkerThreads = 1
    FreedNext <- AnyOutcome
    DoubleSignals = FALSE
    MaxStarts = 3
    MaxCrashes = 1
    Junk = Junk
    NoSocket = NoSocket
    Dead = Dead
    Listening = Listening
    Nobody = Nobody
SPECIFICATION FairSpec
INVARIANT LogOffFindsEntry
PROPERTY LogOnCompletes
CHECK_DEADLOCK FALSE
