SPECIFICATION Spec
CONSTANTS
    Base = 6
    Canonical <- SomeCanonical
    Samples <- SomeSamples
    MaxAhead = 1
    PlayerName <- LongestName
    Datagrams <- ShortDatagrams
    MaxAsked = 2
    BufferSize = 17
    Games <- SampleGames
INVARIANTS
    OnlyCutMessageSpoiled
    StaysInBuffer
    RequestsUnderstood
    DrawnAsMeant
CHECK_DEADLOCK FALSE
