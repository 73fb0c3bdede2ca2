SPECIFICATION DSpec
CONSTANTS
  lidar = lidar
  eth0 = eth0
  eth1 = eth1
  blank = blank
  ok = ok
  bad = bad
  NoClock = NoClock
  NoPort = NoPort
  NoState = NoState
  Invalid = Invalid
  ClockId = {lidar, eth0, eth1, blank}
  Score <- MCScore
  PortNumber = {0, 1}
  Reading <- MCReading
  State = {ok, bad}
  Updates <- MasterSent
  Sent <- MasterSent
  RefClocks = {}
  RefEdges = {}
  Period = 1
  Expiry = 2
  MaxQueue = 3
INVARIANT NewestMasterOnly
