CONSTANTS
    d1 = d1
    d2 = d2
    Digests = {d1, d2}
    NoDigest = none
    Observations <- LifecycleObservations
    Racks = {r1}
    MaxGeneration = 2
    RequireFullCoverage = FALSE
    MinEstablished = 1
    Overrides = {"maintenance"}
    TokenLimit = 2
    LeaseDuration = 1
    ClockSkew = 0
    ClockSteps = FALSE
    MaxEpoch = 3
    MaxIncarnation = 1
    MaxLease = 0
    MaxFailures = 0
    MaxTime = 0
SPECIFICATION Spec
INVARIANT ClearedOverrideHasNoEffect
