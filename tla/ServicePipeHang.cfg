SPECIFICATION FairSpec
CONSTANTS
  Raised = {}
  Discovering = FALSE
PROPERTIES
  StopCompletes
CHECK_DEADLOCK FALSE
