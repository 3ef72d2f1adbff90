\* Every conversation, with reads cut anywhere.
CONSTANTS
    Radix = 8
    OptionValues <- AwkwardPorts
    MinPort = 20
    Addresses <- SomeAddresses
    LongAddresses <- Long
SPECIFICATION FairSpec
INVARIANT TypeOK
INVARIANT WholeReadsAreExact
INVARIANT FirstCommandIsTheOneSent
INVARIANT AnnouncedIsReachable
PROPERTY MessagesArrive
CHECK_DEADLOCK FALSE
