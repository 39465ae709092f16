CONSTANTS
  f1 = f1
  f2 = f2
  f3 = f3
  NextPort = NextPort
  NoLayout = NoLayout
  Filters <- Three
  FromPorts <- FromAny
  ToPorts <- ToOne
  MaxConnections = 3
  NextOutputs = 2
SYMMETRY Symmetry
SPECIFICATION BuffersSpec
INVARIANTS TypeOK SourcesExact EachConnectionOnce InputPortsExact BuffersOwned ChainsMapped
PROPERTY RestartSame
