CONSTANTS
  c1 = c1  k1 = k1  d1 = d1  empty = empty  r1 = r1  l1 = l1  l2 = l2
  Callers <- MCCallers
  Keys <- MCKeys
  Data <- MCData
  Empty = empty
  Refs <- MCRefs
  Labels <- MCLabels
  Namespace = l1
  CallOps <- MCCallOps
SPECIFICATION Spec

PROPERTY CallsReturn
CHECK_DEADLOCK FALSE
