SPECIFICATION Spec
CONSTANTS
    buyer = buyer
    provider = provider
    stranger = stranger
    None = None
    Parties = {buyer, provider, stranger}
    EscrowIds = {e1}
    LockRefs = {l1}
    OpRefs = {o1, o2, o3}
    TaskIds = {t1, t2}
    Amounts = {0, 1, 2, 3}
    Windows = {2}
    DefaultWindow = 1
    ValidUntils = {2}
    MaxTime = 4
    Funds <- MCFunds
    ReuseTaskIds = FALSE
SYMMETRY Symmetry
INVARIANTS
    TypeOK
    EscrowsConsistent
    ClaimSuspendsExpiryBriefly
    PaidInFull
    LedgerMatchesEscrows
    AnswersAccountForMoney
PROPERTIES
    ClaimNotUndercut
    ChallengeWindowHonoured
    DisputeFreezes
    NotDrainedBeforeSettlement
    OneTouchSettles
    ImplementsCustody
