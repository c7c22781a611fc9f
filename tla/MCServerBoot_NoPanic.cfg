CONSTANTS
  ProfileModes = {"cpu"}
SPECIFICATION Spec
INVARIANT StartupNeverPanics
CHECK_DEADLOCK FALSE
