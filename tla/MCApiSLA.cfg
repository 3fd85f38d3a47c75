CONSTANTS
    b1 = b1
    b2 = b2
    r1 = r1
    r2 = r2
    home = home
    roaming = roaming
    noise = noise
    NoBroker = NoBroker
    NoClient = NoClient
    Broker <- MCBroker
    Request <- OneRequest
    Body <- RecommendedBody
    Uplink <- MCUplink
    Local <- MCLocal
    Garbled <- NoGarbled
    Gateways = b1
    Unreliable = TRUE
    MaxCopies = 1
SPECIFICATION FairApiSpec
INVARIANT ForwardedWithSLA
CHECK_DEADLOCK FALSE
