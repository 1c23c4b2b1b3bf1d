CONSTANTS
  SubDirs <- MCSubDirs
  Capacity = 2
  Environments <- MCCalm
SPECIFICATION Spec
CHECK_DEADLOCK FALSE
PROPERTY NewSuitesJoin
