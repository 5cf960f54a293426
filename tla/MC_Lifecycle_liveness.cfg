SPECIFICATION FairSpec
CONSTANTS
  Instance = {i1}
  Proc = {p1}
  Replicated = {i1}
  Tls = {i1}
  PortStart = 1
  PortEnd = 2
  ForeignPorts = {}
  Faulty <- MCDockerFaults
  MaxUpdates = 1
  MaxDeletes = 2
  MaxCrashes = 1
  MaxFaults = 1
  MaxStalls = 1
  NoJob = NoJob
PROPERTIES DeletionCompletes JobsDrain
CHECK_DEADLOCK FALSE
