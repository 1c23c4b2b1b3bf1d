CONSTANTS
  NumFiles = 2
  Jobs = 2
  Setup <- MCSetup
  Tests <- MCTests
  Teardown <- MCTeardown
  MayNotStart <- MCMayNotStart
  MayHang <- MCMayHang
  KeepTemp = FALSE
  Watching = TRUE
SPECIFICATION FairSpec
INVARIANTS
  TypeOK
  SlotsAccountedFor
  AtMostJobs
  SetupBarrier
  TeardownBarrier
  WorkspaceWhileExecuting
  DeclarationOrderWindow
  GreenRunIsComplete
  ResultsCountEveryInstance
  ReportsAgree
PROPERTIES
  ContractSpec
  TeardownAlwaysRuns
  RunEnds
  InterruptEndsRun
