CONSTANTS
    g1 = g1
    d1 = d1
    Gateway <- MCGateway
    Downlink <- MCDownlink
    Items <- MCItems
    Target <- MCTarget
    CleanupAge = 1
    MaxRepeated = 1
SPECIFICATION FairUdpSpec
INVARIANTS ReportIsTrue NoFalseSuccess
PROPERTIES AliveComesBack DeadIsForgotten
CHECK_DEADLOCK FALSE
