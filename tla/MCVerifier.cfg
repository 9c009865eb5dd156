SPECIFICATION Spec
CONSTANTS
    Base = 12
    Canonical <- SomeCanonical
    Samples <- SomeSamples
    Datagrams <- SomeDatagrams
    MaxAhead = 3
INVARIANTS
    StreamReadsBack
    OnlyTheCutMessageMissing
    DatagramExact
