\* One worker, which pushes too; the pop-by-value refinement.
CONSTANTS
    main = main
    Workers = {w1}
    Files = {f1, f2}
    Versions = {0, 1}
    table_size = 3
    Pushers <- Everybody
    NoThread = NoThread
    NoSlot = NoSlot
    NoInfo = NoInfo
SPECIFICATION Spec
INVARIANT TypeOK
PROPERTY PopByPointerIsPopByValue
