SPECIFICATION LiveSpec
CONSTANTS
    TaskIds = {t1}
    MaxRequests = 3
    MaxCancels = 1
    InputLength = 3
    Reordering = TRUE
    OverlapRetries = FALSE
    None = None
INVARIANTS
    TypeOK
    OneExecutionPerTask
    AnswersAgree
    NoChunkLost
PROPERTIES
    InvokeAnswered
    CancelEndsInvoke
CHECK_DEADLOCK FALSE
