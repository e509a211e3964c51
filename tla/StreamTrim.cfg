SPECIFICATION FairSpec
CONSTANTS
    e1 = e1
    e2 = e2
    e3 = e3
    c1 = c1
    c2 = c2
    Events <- ThreeEvents
    Clients <- NoClients
    SubCap = 1
    MaxLen = 2
    BatchSize = 2
    MaxStarts = 1
    MaxFails = 1
PROPERTY RetryFindsBatch
CHECK_DEADLOCK FALSE
