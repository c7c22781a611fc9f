CONSTANTS
  Types <- MCTypes
SPECIFICATION Spec
INVARIANT TypeOK
INVARIANT PanicOnlyOnMisuse
CHECK_DEADLOCK FALSE
