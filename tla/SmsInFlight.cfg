SPECIFICATION Spec
CONSTANTS
  a = a
  b = b
  c = c
  d = d
  d1 = d1
  d2 = d2
  ListSize = 2
  TxRingSize = 3
  Recipients = {a, b}
  Recipient <- MixedRecipient
  Unterminated = {}
  Delivers = {d1}
  NoDeliver = NoDeliver
  BadDescriptors = FALSE
  MaxOutstanding = 3
  MaxMessages = 3
  MaxArrivals = 0
  MaxAcks = 1
INVARIANT
  InFlightIntact
