SPECIFICATION GSpec
CONSTANTS
  a1 = a1
  a2 = a2
  a3 = a3
  a4 = a4
  good = good
  faulty = faulty
  NoClock = NoClock
  NoPort = NoPort
  NoState = NoState
  Invalid = Invalid
  ClockId = {a1, a2, a3, a4}
  Score <- MCScore
  PortNumber = {1}
  Reading <- MCReading
  State = {good, faulty}
  Updates <- MCUpdates
  RefClocks = {}
  RefEdges = {}
  ClockTrees <- MCClockTrees
  WarnAt <- MCWarnAt
  ErrorAt <- MCErrorAt
  ServoLevel <- MCServoLevel
  StateLevel <- MCStateLevel
CHECK_DEADLOCK FALSE
INVARIANTS
  HealthyIfWellFormed
  AdherentIfDownTheReference
  FaultsReachDownstream
  AllOkMeansSynchronised
  AlwaysPublished
  ReferenceIsConfigured
  DoctorShowsAll
