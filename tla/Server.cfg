CONSTANTS
    Workers = {w1, w2}
    Clients = {c1, c2, c3}
    NoClient = none
    MaxPending = 1
    MaxRequests = 1
    MaxStarts = 2
SPECIFICATION FairSpec
INVARIANTS TypeOK SleepersAreSpare AcceptorSeesRoom ListenerOutlivesThreads
PROPERTY AcceptedIsServed
