SPECIFICATION Spec
CONSTANTS
    BlockSize = 2
    NoKey = 0
    UserKey = 7
    WrongKey = 9
    MaxRequests = 2
    Pages <- MCPages
    Address <- MCAddress
    Accounts <- MCAccounts
    Budgets <- MCBudgets
    Tabs = {t1, t2}
INVARIANTS
    TypeOK
    AnswerDelivered
    FirstStepPending
    ListShowsVault
    RetrievedIsLastAsked
    AlertHasCause
PROPERTIES
    TimeoutIsSilence
    EveryRequestEnds
    
CHECK_DEADLOCK FALSE
