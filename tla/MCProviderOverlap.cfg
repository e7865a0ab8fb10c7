SPECIFICATION Spec
CONSTANTS
    TaskIds = {t1}
    MaxRequests = 3
    MaxCancels = 1
    InputLength = 1
    Reordering = TRUE
    OverlapRetries = TRUE
    None = None
INVARIANTS
    OneExecutionPerTask
CHECK_DEADLOCK FALSE
