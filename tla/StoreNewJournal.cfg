CONSTANTS
    Values = {a, b}
    NoValue = none
    PayloadBytes = 1
    MaxJournalBytes = 6
    RepairTornTail = TRUE
    MaxFailures = 0
    ShortWrites = FALSE
    MaxSequence = 2
    MaxItems = 8
SPECIFICATION Spec
SYMMETRY Symmetry
INVARIANT FreshMeansNothingStored
