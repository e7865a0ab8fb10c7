SPECIFICATION Spec
CONSTANTS
    TaskIds = {t1}
    MaxRequests = 1
    MaxCancels = 1
    InputLength = 1
    Reordering = TRUE
    OverlapRetries = FALSE
    None = None
PROPERTIES
    CancelPreventsStart
CHECK_DEADLOCK FALSE
