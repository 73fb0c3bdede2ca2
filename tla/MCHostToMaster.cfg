SPECIFICATION Spec
CONSTANTS
  u1 = u1
  u2 = u2
  d1 = d1
  d2 = d2
  good = good
  bad = bad
  NoProcess = NoProcess
  Uninitialized = Uninitialized
  Unit = {u1, u2}
  Clock = {d1, d2}
  Starts <- MCStarts
  Measurable <- MCMeasurable
  MaxStarts = 3
  Config = {good, bad}
  Rejected = {bad}
  Period = 1
  BackOff = 2
  Expiry = 2
  MaxDelay = 0
  MaxRuns = 2
  MaxFaults = 1
PROPERTIES AllRecover OneRejectedSilencesAll
INVARIANTS HTypeOK NothingOutlivesItsProcess SilenceIsNoticed HealthyIsShown
