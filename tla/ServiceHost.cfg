SPECIFICATION FairSpec
CONSTANTS
  Raised = {0, 6, 7}
  Discovering = TRUE
INVARIANTS
  RuntimeOutlivesUsers
  StoppedIsLast
PROPERTIES
  StopCompletes
CHECK_DEADLOCK FALSE
