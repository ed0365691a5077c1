SPECIFICATION LiveSpec
CONSTANTS
  Nodes = {1, 2}
  Names = {x}
  Addrs = {p, q}
  NoAddr = NoAddr
  Lambda = 1
  TombstoneTTL = 100
  GcInterval = 1
  Epoch = 8
  CursorPeriod = 1
  MaxWrites = 2
  Pushing = {}
  MaxPushes = 0
  MaxDeaths = 1
  MaxFaults = 0
  MaxNet = 2
PROPERTY Converges
