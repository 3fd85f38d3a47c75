CONSTANTS
    p1 = p1
    p2 = p2
    a1 = a1
    a2 = a2
    NoAccess = NoAccess
    Provider <- MCProvider
    Access <- MCAccess
    Config <- MCConfig
    CatalogApp = 1
    MaxApps = 3
    MaxUint = 300
    MaxReceived = 2
    MaxFunds = 4
    Deposit <- MCDeposit
    Route <- MCRoute
    MaxAccepted = 6
SPECIFICATION AuditSpec
INVARIANTS TypeOK Agreement ActiveTerms Accounting CreditBound BanTakesEffect
PROPERTIES  NoRevival Implements
