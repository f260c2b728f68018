SPECIFICATION Spec
CONSTANTS
  a = a
  b = b
  c = c
  d = d
  d1 = d1
  d2 = d2
  ListSize = 2
  TxRingSize = 3
  Recipients = {a}
  Recipient <- OneRecipient
  Unterminated = {}
  Delivers = {d1}
  NoDeliver = NoDeliver
  BadDescriptors = FALSE
  MaxOutstanding = 3
  MaxMessages = 2
  MaxArrivals = 0
  MaxAcks = 2
INVARIANT
  SubmissionsKept
