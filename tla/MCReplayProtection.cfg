SPECIFICATION Spec
CONSTANTS
  s1 = s1
  s2 = s2
  NoMac = NoMac
  Sender <- MCSender
  CacheSize = 2
  SeqModulus = 2
  DevMode = FALSE
  MaxBoots = 2
  MaxSent = 5
  MaxRecorded = 5
SYMMETRY Symmetry
INVARIANTS AtMostOncePerWindow EpochNamesBoot NoFalseReplay
