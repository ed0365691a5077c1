\* Three nodes: a probes periodically, c reactively, b only answers, joins and leaves.
SPECIFICATION LiveSpec
CONSTANTS
  Nodes = {a, b, c}
  None = None
  Lambda = 1
  Reactive = {c}
  ProbeInterval = 0
  ProbeTimeout = 1
  SuspicionTimeout = 1
  ReprobeInterval = 1
  SweepInterval = 0
  IndirectProbes = 1
  MaxDemand = 1
  MaxRelays = 1
  Ticking = {a, c}
  Asking = {b}
  MaxSeq = 2
  MaxInc = 1
  MaxNet = 1
  MaxFaults = 2
  MaxRequests = 1
INVARIANTS TypeOK NoFutureIncarnation NeverAboutSelf
PROPERTIES BeliefsOnlyAdvance 
CHECK_DEADLOCK FALSE
