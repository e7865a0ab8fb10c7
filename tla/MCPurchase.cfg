SPECIFICATION Spec
CONSTANTS
    None = None
    Buyer = buyer
    Provider = provider
    TaskIds = {t1, t2}
    Prices = {1, 4}
    Budget = 3
    Validities = {0}
    DefaultValidity = 1
    LockTime = 2
    DefaultWindow = 1
    MaxTime = 3
    MaxAcks = 2
SYMMETRY Symmetry
INVARIANTS
    TypeOK
    TermsHold
    WorkIsPayable
    PurchaseSettles
CHECK_DEADLOCK FALSE
