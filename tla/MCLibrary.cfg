SPECIFICATION Spec
CONSTANTS
    Base = 6
    Canonical <- SomeCanonical
    Types <- SomeTypes
    Samples <- SomeSamples
    MaxBytes = 5
    Multiplier = 13
    Modulus = 31
    Word = 32
    MaxU16 = 7
    Seeds <- AllSeeds
    MaxCalls = 2
INVARIANTS
    RoundTrip
    OneFormOnly
    WaitsForRest
    InRange
    NeverStuck
CHECK_DEADLOCK FALSE
