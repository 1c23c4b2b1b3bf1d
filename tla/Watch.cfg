CONSTANTS
  SubDirs <- MCSubDirs
  Capacity = 1
  Environments <- MCEnvironments
SPECIFICATION Spec
CHECK_DEADLOCK FALSE
INVARIANTS
  TypeOK
  NoLostWakeup
PROPERTIES
  WatchedChangesNoticed
  Settles
  InterruptEndsWatch
