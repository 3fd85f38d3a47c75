CONSTANTS
    p1 = p1
    p2 = p2
    a1 = a1
    NoAccess = NoAccess
    Provider <- MCProvider
    Access <- MCAccess
    Config <- MCConfig
    CatalogApp = 1
    MaxApps = 2
    MaxUint = 300
    MaxReceived = 2
    MaxFunds = 4
    Deposit <- MCDeposit
    Route <- MCRoute
SPECIFICATION TrafficSpec
PROPERTIES FullCycleEnds 
