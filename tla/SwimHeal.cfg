SPECIFICATION FairSpec
CONSTANTS
  Nodes = {a, b}
  Ticking = {a, b}
  Asking = {}
  None = None
  Lambda = 3
  Reactive = {}
  ProbeInterval = 1
  ProbeTimeout = 1
  SuspicionTimeout = 1
  ReprobeInterval = 1
  SweepInterval = 1
  IndirectProbes = 2
  MaxDemand = 2
  MaxRelays = 2
  MaxSeq = 2
  MaxInc = 1
  MaxNet = 1
  MaxFaults = 4
  MaxRequests = 0
PROPERTY PartitionsHeal
CHECK_DEADLOCK FALSE
