SPECIFICATION FairSpec
CONSTANTS
    e1 = e1
    e2 = e2
    e3 = e3
    c1 = c1
    c2 = c2
    Events <- OneEvent
    Clients <- NoClients
    SubCap = 1
    MaxLen = 1
    BatchSize = 1
    MaxStarts = 1
    MaxFails = 1
PROPERTY AppendedIsCopied
CHECK_DEADLOCK FALSE
