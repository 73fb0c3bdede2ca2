SPECIFICATION Spec
CONSTANTS
  eth0 = eth0
  eth1 = eth1
  id0 = id0
  id1 = id1
  gm = gm
  uds = uds
  c0 = c0
  c1 = c1
  NoClock = NoClock
  NoPmc = NoPmc
  NoProcess = NoProcess
  Uninitialized = Uninitialized
  Config = {c0, c1}
  Clock = {eth0, eth1}
  PtpId = {id0, id1, gm}
  Address = {uds}
  ClockOf <- MCClockOf
  Identity <- MCIdentity
  AnyDomain = TRUE
  AddressOf <- MCAddressOf
  DomainOf <- MCDomainOf
  Ports = {1, 2}
  Elections <- MCElections
  Starts <- MCStarts
  MaxLog = 1
  MaxRuns = 2
  MaxFaults = 1
INVARIANTS PTypeOK PmcFollowsState AnswersFollowUnit
PROPERTIES ImplementsFollower ReportsConverge
