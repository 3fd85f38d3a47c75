CONSTANTS
    p1 = p1
    t1 = t1
    t2 = t2
    Provider <- MCProvider
    Thread <- MCThread
    MaxApps = 2
    CATALOG_TTL = 1
    update_interval = 1
    MaxLookup = 1
SYMMETRY Symmetry
SPECIFICATION LookupSpec
INVARIANTS StaleBound 
