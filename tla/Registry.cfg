SPECIFICATION LiveSpec
CONSTANTS
  Nodes = {1, 2}
  Names = {x}
  Addrs = {p}
  NoAddr = NoAddr
  Lambda = 1
  TombstoneTTL = 1
  GcInterval = 1
  Epoch = 8
  CursorPeriod = 1
  MaxWrites = 2
  Pushing = {1}
  MaxPushes = 1
  MaxDeaths = 1
  MaxFaults = 1
  MaxNet = 1
INVARIANTS TypeOK ClockAhead PendingIsCurrent AcknowledgedWasInstalled
PROPERTY EntriesOnlyAdvance  
