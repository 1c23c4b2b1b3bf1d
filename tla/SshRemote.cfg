CONSTANTS
  NumFiles = 2
  Hosts <- MCHosts
  FileTarget <- MCFileTarget
  Override <- MCOverride
SPECIFICATION Spec
INVARIANTS
  TypeOK
  NoBaseForgotten
  RunsInALiveBase
  OneScopePerTarget
  EveryHostWasGranted
  MastersStopped
PROPERTY RunCloses
