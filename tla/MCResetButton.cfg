SPECIFICATION Spec
CONSTANTS
  BUTTON_HOLD_TIME = 5
  CONFIRM_WINDOW = 3
  ClockModulus = 16
  DEFAULT_DEV_MASTER = TRUE
  MaxTicks = 1
PROPERTIES SecondHoldWipes
