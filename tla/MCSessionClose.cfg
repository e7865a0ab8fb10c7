SPECIFICATION LiveSpec
CONSTANTS
    t1 = t1
    t2 = t2
    TaskIds = {t1, t2}
    Profiles <- MCReading
    MaxChunks = 2
    MaxBeats = 1
    CallbacksRaise = FALSE
    Endings = {}
CHECK_DEADLOCK FALSE
PROPERTIES
    CloseLetsServeReturn
