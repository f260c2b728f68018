SPECIFICATION Spec
CONSTANTS
  FLASH_CAPACITY = 4
  BLOCK_LENGTH = 2
  MAX_DATA = 2
  MAX_REQUEST = 3
  Prompt = FALSE
  MaxRequests = 2
  NTXBL = 3
  NRXBL = 3
  MaxSent = 3
  MaxArrivals = 3
  Device <- MCDevice
  Composed <- MCComposed
  Timestamp <- MCTimestamp
  Leftovers <- MCLeftovers
  Tokens <- MCTokens
  MaxTokens = 3
  Keys <- MCKeys
  Values = {1, 2, 3}
  Null = Null
  MESSAGE_CUTOFF_LENGTH = 2
  NUMBER_DIGTS = 1
  TEXT_AREA = 3
  Pressed = {0, 3, 10, 11, 12}
  ImageSize = 3
  DataCells = 2
  BootTimeout = 2
  MAX_MESSAGES = 4
  LCD_NUM_LINES = 4
  ShownDigits = 2
  StampDigits = 2
  Listed <- MCListed
  MaxListed = 3
CHECK_DEADLOCK FALSE
INVARIANTS
  PartsTypeOK
  AnsweredOnce
  ReportsAreTrue
  DeliveriesAreWhole
  MessagesSurvive
  WordsCounted
  DisplayWhole
  ImageCopied
  ScreenUpToDate
  ListKept
PROPERTIES
  ImplementsMemory
  CommandsNotOverrun
  EveryRequestAnswered
  ImplementsTransmitQueue
  EveryPacketReported
  ImplementsDictionary
  SentAsShown
