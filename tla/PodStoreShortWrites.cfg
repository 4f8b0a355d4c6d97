CONSTANTS
    Values = {a, b}
    NoValue = none
    PayloadBytes = 1
    MaxJournalBytes = 6
    RepairTornTail = TRUE
    MaxFailures = 2
    ShortWrites = TRUE
    MaxSequence = 2
    MaxItems = 7
SPECIFICATION Spec
SYMMETRY Symmetry
INVARIANT LossIsReported
