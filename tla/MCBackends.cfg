CONSTANTS
    g1 = g1
    g2 = g2
    c1 = c1
    c2 = c2
    c3 = c3
    d1 = d1
    d2 = d2
    t1 = t1
    t2 = t2
    f1 = f1
    f2 = f2
    m1 = m1
    m2 = m2
    NoConn = NoConn
    NoDownlink = NoDownlink
    Gateway <- MCGateway
    Conn <- MCConn
    Downlink <- MCDownlink
    Token <- MCToken
    MaxEvents = 5
    Freq <- MCFreq
    Mod <- MCMod
    Device <- MCDevice
    NwkIDs = 2
    FilterConfig <- MCFilterConfig
    PushPackets <- MCPushPackets
    TxItems <- MCTxItems
    SkipCRC = FALSE
    MaxPackets = 2
    MaxAcks = 1
SPECIFICATION BackendsSpec
SYMMETRY Symmetry
INVARIANTS RegistryIsLive OpenIsRegistered  DesiredIsRegistered AckNamesDownlink
INVARIANTS  CoveredPasses
CHECK_DEADLOCK FALSE
