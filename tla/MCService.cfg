CONSTANTS
    p1 = p1
    p2 = p2
    t1 = t1
    t2 = t2
    Provider <- MCProvider
    Home <- MCHome
    Me = p1
    Thread <- MCThread
    SLA_TTL = 3
    MaxRequest = 2
SYMMETRY Symmetry
SPECIFICATION ServiceSpec
INVARIANTS PermissionIsRecent
