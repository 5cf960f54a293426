SPECIFICATION MCSpec
CONSTANTS
    Part = {"placement", "ports", "dns", "files", "clean"}
    i1 = i1  i2 = i2  i3 = i3
    anna = anna  bob = bob
    s1 = s1  s2 = s2
    a1 = a1  a2 = a2  w1 = w1  w2 = w2
    NoOwner = NoOwner
    Nothing = Nothing
    Instance = {i1, i2, i3}
    OwnerOf <- MCOwnerOf
    Replicated = {i3}
    Clusters <- MCClusters
    Workers <- MCWorkers
    Members = 2
    MaxStarts = 2
SYMMETRY Symmetry
INVARIANTS AllTypesOK CountsNeedACrowd SearchSkipsNothing KnownPortsAvoided DeliveredNamesResolve ZoneAndRowsAgree FailuresHaveACause StacksRunTheirFiles PortsNeverClash
CHECK_DEADLOCK FALSE
