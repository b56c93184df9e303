CONSTANTS
  Operations = {"clear_storage"}
  Classes = {{"cancel"}}
  MaxCritical = 1
SPECIFICATION ContextSpec
INVARIANTS ResumeFindsNoShort
CHECK_DEADLOCK FALSE
