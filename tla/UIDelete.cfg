SPECIFICATION Spec
CONSTANTS
  MAX_MESSAGES = 3
  LCD_NUM_LINES = 3
  ArrivalsDisturb = TRUE
  MaxAdded = 4
  MaxKeys = 4
  MaxRestarts = 0
CHECK_DEADLOCK FALSE
INVARIANT
  NothingLost
