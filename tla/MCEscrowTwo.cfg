SPECIFICATION Spec
CONSTANTS
    buyer = buyer
    provider = provider
    stranger = stranger
    None = None
    Parties = {buyer, provider}
    EscrowIds = {e1, e2}
    LockRefs = {l1, l2, l3}
    OpRefs = {o1}
    TaskIds = {t1}
    Amounts = {1, 2}
    Windows = {}
    DefaultWindow = 1
    ValidUntils = {2}
    MaxTime = 3
    Funds <- MCFundsBoth
    ReuseTaskIds = FALSE
SYMMETRY SymmetryTwo
INVARIANTS
    Inv
    OneEscrowPerLock
