CONSTANTS
    b1 = b1
    b2 = b2
    r1 = r1
    r2 = r2
    home = home
    roaming = roaming
    noise = noise
    NoBroker = NoBroker
    NoClient = NoClient
    Broker <- MCBroker
    Request <- OneRequest
    Body <- MCBody
    Uplink <- AllUplink
    Local <- MCLocal
    Garbled <- MCGarbled
    Gateways = b1
    Unreliable = TRUE
    MaxCopies = 1
SPECIFICATION FairApiSpec
PROPERTY HandlerReturns
CHECK_DEADLOCK FALSE
