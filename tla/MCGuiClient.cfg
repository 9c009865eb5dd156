SPECIFICATION FairSpec
CONSTANTS
    Datagrams <- ClientDatagrams
    Keys <- SomeKeys
    ChannelSize = 1
    SocketSize = 1
    MaxEvents = 2
PROPERTY
    ClientSeen
CHECK_DEADLOCK FALSE
