CONSTANTS
    Threads = {t1, t2}
    NoThread = none
    MaxPending = 2
    EventsPerCall = 1
    MaxDepth = 2
    MaxCalls = 4
    CallsWhenClosed = TRUE
SPECIFICATION Spec
INVARIANT ObserverMayCallBack
