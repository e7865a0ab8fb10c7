SPECIFICATION LiveSpec
CONSTANTS
    buyer = buyer
    provider = provider
    stranger = stranger
    None = None
    Parties = {buyer, provider}
    EscrowIds = {e1}
    LockRefs = {l1}
    OpRefs = {o1, o2, o3}
    TaskIds = {t1}
    Amounts = {1, 2}
    Windows = {2}
    DefaultWindow = 1
    ValidUntils = {2}
    MaxTime = 4
    Funds <- MCFunds
    ReuseTaskIds = TRUE
PROPERTIES
    ClaimAnswered
    EscrowEmptied
