CONSTANTS
  ProfileModes = {"cpu"}
SPECIFICATION Spec
INVARIANT TypeOK
PROPERTY ShutdownEnds
CHECK_DEADLOCK FALSE
