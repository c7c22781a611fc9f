CONSTANTS
  k1 = k1
  k2 = k2
  empty = empty
  Keys <- MCKeys
  NoKey = empty
  MaxKeys = 3
SPECIFICATION Spec
PROPERTY
  DrainsWithoutDelivery
