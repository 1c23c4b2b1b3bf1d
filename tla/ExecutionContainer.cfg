CONSTANTS
  Boundaries <- MCContainer
  KillFails = FALSE
SPECIFICATION Spec
CHECK_DEADLOCK FALSE
PROPERTY ContainerKilledWithCommand
