\* Two clients and a third that comes and goes; a buffer of one record.
CONSTANTS
    a = a
    b = b
    Nothing = Nothing
    Order <- TwoClients
    Outsiders = {o}
    Capacity = 1
    Backlog = 2
    FileLists = {0, 1}
    Bounds <- FewEvents
SPECIFICATION FairSpec
INVARIANT TypeOK
INVARIANT IdleLogOutIsClean
PROPERTY ThreadsComeBack
CHECK_DEADLOCK FALSE
