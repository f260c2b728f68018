SPECIFICATION Spec
CONSTANTS
  a = a
  b = b
  c = c
  d = d
  d1 = d1
  d2 = d2
  ListSize = 2
  TxRingSize = 3
  Recipients = {a, b}
  Recipient <- OneRecipient
  Unterminated = {}
  Delivers = {d1, d2}
  NoDeliver = NoDeliver
  BadDescriptors = FALSE
  MaxOutstanding = 3
  MaxMessages = 1
  MaxArrivals = 3
  MaxAcks = 1
INVARIANT
  AcksOnlyStored
