\* Two workers and the main thread, all pushing, on a ring for two records.
CONSTANTS
    main = main
    Workers = {w1, w2}
    Files = {f1}
    Versions = {0}
    table_size = 3
    Pushers <- Everybody
    NoThread = NoThread
    NoSlot = NoSlot
    NoInfo = NoInfo
SPECIFICATION FairSpec
INVARIANT NoLostWakeup
INVARIANT SameReasonToSleep
PROPERTY PushesGoOn
PROPERTY RecordsAreTaken
