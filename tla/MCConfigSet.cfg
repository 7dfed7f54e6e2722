SPECIFICATION Spec
CONSTANTS
  FLUSH_INTERVAL = 2
  ClockModulus = 5
  Images <- CurrentImage
  DEV_MODE = FALSE
  MaxBoots = 2
  MaxEvents = 1
INVARIANT ConfigSetApplies
CHECK_DEADLOCK FALSE
