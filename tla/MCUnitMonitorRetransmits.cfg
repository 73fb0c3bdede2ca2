SPECIFICATION Spec
CONSTANTS
  s1 = s1
  s2 = s2
  d1 = d1
  c1 = c1
  c2 = c2
  n1 = n1
  n2 = n2
  NoClock = NoClock
  Unmeasured = Unmeasured
  NoUpdate = NoUpdate
  NoProcess = NoProcess
  Uninitialized = Uninitialized
  Clock = {s1, s2, d1}
  Config = {c1, c2}
  Name = {n1, n2}
  Reading = {1}
  Source <- MCSource
  Aliases <- MCAliases
  MaxLog = 2
  MaxRuns = 2
  MaxFaults = 1
PROPERTY Retransmits
