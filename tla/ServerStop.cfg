CONSTANTS
    Workers = {w1}
    Clients = {c1}
    NoClient = none
    MaxPending = 1
    MaxRequests = 1
    MaxStarts = 1
SPECIFICATION FairSpec
PROPERTY StopReturns
