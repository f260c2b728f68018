SPECIFICATION Spec
CONSTANTS
  a = a
  b = b
  c = c
  d = d
  d1 = d1
  d2 = d2
  ListSize = 2
  TxRingSize = 3
  Recipients = {a, b}
  Recipient <- MixedRecipient
  Unterminated = {b}
  Delivers = {d1, d2}
  NoDeliver = NoDeliver
  BadDescriptors = TRUE
  MaxOutstanding = 3
  MaxMessages = 3
  MaxArrivals = 3
  MaxAcks = 1
INVARIANTS
  TypeOK
  QueuesAreWindows
  NoSlotLost
  WaitingIntact
  InFlightIntactUntilFull
  PendingAcksStored
PROPERTY
  TakenIntactUntilFull
SYMMETRY DeliverSymmetry
VIEW PhoneView
