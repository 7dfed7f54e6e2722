SPECIFICATION NodeSpec
CONSTANTS
  Cooldown = 2
  HealthInterval = 4
  ClockModulus = 8
  MaxPassTicks = 2
  BUTTON_HOLD_TIME = 4
  CONFIRM_WINDOW = 3
  LoopModulus = 6
  DEFAULT_DEV_MASTER = TRUE
  MaxTicks = 1
INVARIANTS MotionReportedOnce
PROPERTIES ReportsSpaced ListensAgain HealthKeepsComing HoldChangesRole LostDisplayStopsNode
