SPECIFICATION BothSpec
CONSTANTS
  f1 = f1
  f2 = f2
  bytes = bytes
  Names = {f1, f2}
  Bytes = {bytes}
  Contents <- TwoCells
  BlockSize = 6
  BlocksPerHalf = 2
  FlashSize = 30
  BatchSize = 2
  FieldSize = 4
  Ones = Ones
  Mixed = Mixed
  Absent = Absent
  BeyondIsBlank = FALSE
  LoseUnclaimed = FALSE
  LoseDoubled = FALSE
  MaxCalls = 5
  MaxCrashes = 1
CHECK_DEADLOCK FALSE
INVARIANTS
  TypeOK
  FreeSpaceErased
  TableMatchesFlash
  FoundIsTheFile
  FilesDisjointAnywhere
PROPERTIES
  ImplementsFileStore
  CallsReturn
