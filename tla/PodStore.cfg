CONSTANTS
    Values = {a, b}
    NoValue = none
    PayloadBytes = 1
    MaxJournalBytes = 6
    RepairTornTail = TRUE
    MaxFailures = 2
    ShortWrites = FALSE
    MaxSequence = 2
    MaxItems = 8
SPECIFICATION Spec
INVARIANTS TypeOK NothingConfirmedIsLost CommitRecordsMatch LoopAgrees
PROPERTIES SequenceNeverGoesBack StoreIsRegister
SYMMETRY Symmetry
