SPECIFICATION FairSpec
CONSTANTS
  FLUSH_INTERVAL = 2
  ClockModulus = 5
  Images <- AllImages
  DEV_MODE = FALSE
  MaxBoots = 4
  MaxEvents = 3
INVARIANTS CleanMeansSaved RoleSurvivesRestart
PROPERTIES DirtyIsFlushed IdentityKept PeersNeverErased
CHECK_DEADLOCK FALSE
