SPECIFICATION Spec
CONSTANTS
  Instance = {i1, i2}
  Proc = {p1}
  Replicated = {i1}
  Tls = {i2}
  PortStart = 1
  PortEnd = 3
  ForeignPorts = {2}
  Faulty <- MCFaulty
  MaxUpdates = 0
  MaxDeletes = 1
  MaxCrashes = 1
  MaxFaults = 2
  MaxStalls = 1
  NoJob = NoJob
INVARIANTS TypeOK CompletedCreateIsServed PublishedPortsDistinct RecordedStackIsRemoved
PROPERTY NoResurrection
CHECK_DEADLOCK FALSE
