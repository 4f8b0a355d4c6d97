CONSTANTS
    Threads = {t1, t2}
    NoThread = none
    MaxPending = 2
    EventsPerCall = 1
    MaxDepth = 2
    MaxCalls = 4
    CallsWhenClosed = FALSE
SPECIFICATION FairSpec
INVARIANTS TypeOK NothingElseIsStranded HeardOnce ObserverMayCallBack
PROPERTY QueuedIsHeard
