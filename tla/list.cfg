\* main changes the list; in a client, a worker searches it.
CONSTANTS
    Threads = {main, w1}
    Mutators = {main}
    Elements = {e1, e2}
    Nodes = {n1, n2, n3}
    FreedNext <- AnyOutcome
    NULL = NULL
    Wild = Wild
    NoThread = NoThread
    NoResult = NoResult
SPECIFICATION FairSpec
INVARIANT TypeOK
INVARIANT RingOK
INVARIANT LeakedMeansEmpty
PROPERTY CallsReturn
PROPERTY ListIsSequence
PROPERTY BodiesAreListOps
CHECK_DEADLOCK FALSE
