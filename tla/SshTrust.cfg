CONSTANTS
  Files <- MCFiles
  Targets <- MCTargets
  Spellings <- MCSpellings
  Key <- MCKey
  Actors <- MCActors
  Overlap = FALSE
SPECIFICATION Spec
PROPERTIES
  StoreSpec
  
