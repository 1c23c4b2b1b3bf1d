CONSTANTS
  NumFiles = 2
  Hosts <- MCHosts
  FileTarget <- MCFileTarget
  Override <- MCOverride
SPECIFICATION Spec
INVARIANT NormalizedPaths
