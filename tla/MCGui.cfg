SPECIFICATION FairSpec
CONSTANTS
    Datagrams <- MixedDatagrams
    Keys <- SomeKeys
    ChannelSize = 1
    SocketSize = 1
    MaxEvents = 4
INVARIANTS
    TypeOK
    KeysOnceInOrder
    OneKeyMissedAtMost
PROPERTIES
    ShowsNewer
    TakenIsDrawn
CHECK_DEADLOCK FALSE
