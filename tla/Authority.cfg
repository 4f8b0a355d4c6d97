CONSTANTS
    d1 = d1
    d2 = d2
    Digests = {d1, d2}
    NoDigest = none
    Observations <- AuthorityObservations
    Racks = {r1}
    MaxGeneration = 2
    RequireFullCoverage = FALSE
    MinEstablished = 1
    Overrides = {}
    TokenLimit = 1
    LeaseDuration = 1
    ClockSkew = 0
    ClockSteps = FALSE
    MaxEpoch = 2
    MaxIncarnation = 2
    MaxLease = 2
    MaxFailures = 1
    MaxTime = 2
SPECIFICATION Spec
INVARIANTS TypeOK RestartFencesByEpoch EpochIsDurable FencingIncreases RetirementIsFinal
           RetiredHonoursNothing EndedStaysEnded
