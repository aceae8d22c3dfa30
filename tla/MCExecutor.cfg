SPECIFICATION FairSpec
CONSTANTS
    Ids = {i1, i2}
    Digests = {d1, d2}
    Callers = {c1}
    None = None
    MaxRecords = 1
    Aging = TRUE
    MaxOrphans = 1
    MaxRestarts = 1
    MaxFaults = 1
INVARIANTS
    TypeOK
    OneProcess
    OneProcessPerLife
    ResultIsOfRequest
    ResultIsDurable
PROPERTY
    CallsEnd
