CONSTANTS
    d1 = d1
    d2 = d2
    c1 = c1
    r1 = r1
    m1 = m1
    m2 = m2
    s1 = s1
    GatewayID = GatewayID
    Loop = Loop
    Free = Free
    Downlink <- MCDownlink
    Config <- MCConfig
    Bandwidth <- MCBandwidth
    CRCCheck = TRUE
    MaxFaults = 3
    Request <- MCRequest
    CommandLine <- MCCommandLine
    Behaviour <- MCBehaviour
    MetaCommand <- MCMetaCommand
    Static <- MCStatic
    Row <- MCRow
    Stats <- MCStats
    MaxRounds = 2
SPECIFICATION HostSpec
INVARIANTS AckIsOwn ExitIsJustified BandwidthKept
  
PROPERTIES LoopRecovers CallsEnd 
CHECK_DEADLOCK FALSE
