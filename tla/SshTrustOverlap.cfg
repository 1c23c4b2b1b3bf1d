CONSTANTS
  Files <- MCFiles
  Targets <- MCTargets
  Spellings <- MCSpellings
  Key <- MCKey
  Actors <- MCActors
  Overlap = TRUE
SPECIFICATION Spec
INVARIANT ApprovedOnce
