SPECIFICATION FairSpec
CONSTANTS
    i1 = i1  i2 = i2  w1 = w1  w2 = w2
    NoPorts = NoPorts
    Instance = {i1, i2}
    Worker = {w1}
    PortStart = 1
    PortEnd = 4
    BatchSize = 2
    MaxBatches = 2
    MaxSearches = 2
    MaxChanges = 1
    Faulty = {"docker"}
PROPERTIES ImplementsRegistry SearchEnds
CHECK_DEADLOCK FALSE
