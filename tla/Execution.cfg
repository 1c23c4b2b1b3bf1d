CONSTANTS
  Boundaries <- MCBoundaries
  KillFails = TRUE
SPECIFICATION Spec
CHECK_DEADLOCK FALSE
INVARIANTS
  TypeOK
  OutcomeIsHonest
  KilledOnPurposeOnly
PROPERTIES
  ExecutionEnds
  TimeoutHolds
