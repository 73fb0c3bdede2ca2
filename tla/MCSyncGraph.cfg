SPECIFICATION Spec
CONSTANTS
  lidar = lidar
  eth0 = eth0
  eth1 = eth1
  ptp1 = ptp1
  locked = locked
  r1 = r1
  r2 = r2
  NoClock = NoClock
  NoPort = NoPort
  NoState = NoState
  Invalid = Invalid
  ClockId = {lidar, eth0, eth1, ptp1}
  Score <- MCScore
  PortNumber = {0, 1, 2}
  Reading = {r1, r2}
  State = {locked}
  Updates <- AllUpdates
  RefClocks = {eth0, eth1}
  RefEdges <- MCRefEdges
CHECK_DEADLOCK FALSE
INVARIANTS TypeOK AliasClasses OnlyCanonicalNames NoSelfLoops ParentPortResolves
PROPERTIES ClocksAndPortsStay LinksSurvive
