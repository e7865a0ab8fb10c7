SPECIFICATION LiveSpec
CONSTANTS
    a = a
    b = b
    c = c
    d = d
    TaskIds = {a, b, c, d}
    Dags <- MCDags
    InterruptAt = {"running", "stopping"}
INVARIANTS
    TypeOK
    RejectsExactlyMalformed
    DependenciesFirst
    RunsEachTaskOnce
    AbandonedAreCancelled
PROPERTIES
    NothingInvokedAfterFailure
    RunEnds
    NoWorkLeftBehind
CHECK_DEADLOCK FALSE
