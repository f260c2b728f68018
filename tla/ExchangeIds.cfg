SPECIFICATION ExchangeSpec
CONSTANTS
  Device <- MCDevice
  Composed <- MCComposed
  Timestamp <- MCTimestamp
  Leftovers <- MCLeftovers
CHECK_DEADLOCK FALSE
INVARIANT
  IdsTerminated
