SPECIFICATION Spec
CONSTANTS
  c1 = c1
  c2 = c2
  c3 = c3
  Client = {c1, c2, c3}
  FirstIP = 0
  Size = 5
  HostIP = 2
  PortRangeStart = 10
  PortRangeEnd = 12
  Ports <- PortsThree
  Faults <- Hosts
  MaxCrashes = 2
  MaxRules = 3
INVARIANTS
  RulesTrackedIfDeleted
  PortsReachContainer
  BootHasMapper
PROPERTY PoolsAreLeases
