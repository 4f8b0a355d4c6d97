CONSTANTS
    d1 = d1
    d2 = d2
    d3 = d3
    Digests = {d1, d2, d3}
    NoDigest = none
    Racks = {1, 2, 3}
    MaxGeneration = 2
    RequireFullCoverage = FALSE
    MinEstablished = 1
    CounterLimit = 100
    MaxCapacityTotal = 99
    MaxCapacityAmount = 99
    EvidenceTtl = 1
    EvidenceSkew = 0
    DefaultMargin = 0
    RequireToken = TRUE
    Snapshots <- Follow
    FirstSnapshots <- First
    MaxRounds = 3
    MaxGrants = 1
SPECIFICATION Spec
CHECK_DEADLOCK FALSE
INVARIANTS
    TypeOK
    CapacityIsCountedOnce
    DiversityIsReal
    ActiveIsEarned
    OrderDecidesTiesOnly
PROPERTIES
    LifecycleAgrees
    StaleRackCarriesNothing
    SurprisesAreKnown
