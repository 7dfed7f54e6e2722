SPECIFICATION BuildSpec
CONSTANTS
  a = a
  b = b
  c = c
  r = r
  NoMac = NoMac
  Master <- TwoMasters
  Relay <- MCRelay
  Threshold = 3
  ClockModulus = 8
  MAX_HOPS = 2
  DualMasterMode = FALSE
  SeqModulus = 4
  MaxEpoch = 2
  MaxBeacons = 1
  MaxRestarts = 1
INVARIANTS CoherentInBuild NoBeaconRelayedTwice
PROPERTIES LiveMasterKeepsRole FailsOver SilentMasterForgotten
