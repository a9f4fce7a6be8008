CONSTANTS
  Scripts <- TC1Twice
  INT_MAX = 32767
SPECIFICATION Spec
CHECK_DEADLOCK FALSE
PROPERTY IdleAdmits
