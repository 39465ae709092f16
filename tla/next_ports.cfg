CONSTANTS
  f1 = f1
  f2 = f2
  f3 = f3
  NextPort = NextPort
  NoLayout = NoLayout
  Filters <- Three
  FromPorts <- OnlyNext
  ToPorts <- OnlyNext
  MaxConnections = 3
  NextOutputs = 3
SPECIFICATION BuffersSpec
INVARIANT EveryOutputRead
