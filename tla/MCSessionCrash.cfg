SPECIFICATION Spec
CONSTANTS
    t1 = t1
    t2 = t2
    TaskIds = {t1, t2}
    Profiles <- MCStreaming
    MaxChunks = 2
    MaxBeats = 1
    CallbacksRaise = TRUE
    Endings = {}
CHECK_DEADLOCK FALSE
INVARIANTS
    CloseClosesTransport
