CONSTANTS
  Written <- MCWritten
  NumberText <- MCText
  Slug <- MCSlug
  Truncated <- MCTruncated
  MaxEdits = 2
SPECIFICATION Spec
CHECK_DEADLOCK FALSE
INVARIANTS
  InstancesAreTheProduct
  BlessedIsExact
PROPERTY FailuresKeepGoldens
