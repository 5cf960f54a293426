SPECIFICATION Spec
CONSTANTS
  Instance = {i1, i2}
  Proc = {p1, p2}
  Replicated = {i1}
  Tls = {i2}
  PortStart = 1
  PortEnd = 3
  ForeignPorts = {}
  Faulty <- MCFaulty
  MaxUpdates = 0
  MaxDeletes = 0
  MaxCrashes = 2
  MaxFaults = 2
  MaxStalls = 1
  NoJob = NoJob
INVARIANTS ServedPortsDistinct ServedInv
CHECK_DEADLOCK FALSE
