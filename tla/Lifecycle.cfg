CONSTANTS
    d1 = d1
    d2 = d2
    Digests = {d1, d2}
    NoDigest = none
    Observations <- LifecycleObservations
    Racks = {r1, r2}
    MaxGeneration = 2
    RequireFullCoverage = TRUE
    MinEstablished = 1
    Overrides = {"maintenance"}
    TokenLimit = 0
    LeaseDuration = 1
    ClockSkew = 0
    ClockSteps = FALSE
    MaxEpoch = 2
    MaxIncarnation = 2
    MaxLease = 0
    MaxFailures = 0
    MaxTime = 0
SPECIFICATION Spec
INVARIANTS VisibleIsDurable GenerationNeverForgotten
PROPERTY LifecycleMovesLegally
