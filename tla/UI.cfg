SPECIFICATION FairSpec
CONSTANTS
  MAX_MESSAGES = 3
  LCD_NUM_LINES = 3
  ArrivalsDisturb = FALSE
  MaxAdded = 4
  MaxKeys = 6
  MaxRestarts = 1
CHECK_DEADLOCK FALSE
INVARIANTS
  TypeOK
  NothingLost
  ListInOrder
  FilesMatchList
PROPERTIES
  MovesStayVisible
  ComesToRest
