CONSTANTS
  Corpora <- MCCorpora
  Machines <- MCMachines
  Typed <- MCTyped
SPECIFICATION Spec
CHECK_DEADLOCK FALSE
INVARIANTS
  CommandsStayInTheirBoundary
  SharedProcIsExplainedOnce
