SPECIFICATION LiveSpec
CONSTANTS
    t1 = t1
    t2 = t2
    TaskIds = {t1, t2}
    Profiles <- MCProfiles
    MaxChunks = 2
    MaxBeats = 1
    CallbacksRaise = TRUE
    Endings = {"broken", "provider closes"}
INVARIANTS
    TypeOK
    StreamIsComplete
    AnswerIsLast
PROPERTIES
    CallsEnd
    TimeoutStopsWork
    ServiceEnds
CHECK_DEADLOCK FALSE
