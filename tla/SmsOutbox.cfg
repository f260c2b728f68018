SPECIFICATION FairSpec
CONSTANTS
  a = a
  b = b
  c = c
  d = d
  d1 = d1
  d2 = d2
  ListSize = 3
  TxRingSize = 2
  Recipients = {a, b, c, d}
  Recipient <- DistinctRecipient
  Unterminated = {}
  Delivers = {d1}
  NoDeliver = NoDeliver
  BadDescriptors = FALSE
  MaxOutstanding = 2
  MaxMessages = 4
  MaxArrivals = 1
  MaxAcks = 1
PROPERTIES
  ImplementsOutbox
  EveryMessageConfirmed
  AcknowledgmentsDrain
