CONSTANTS
    g1 = g1
    g2 = g2
    NoGateway = NoGateway
    Gateway <- MCGateway
    Configuration <- MCConfiguration
    MaxEvents = 3
    MaxFaults = 2
SPECIFICATION FairMqttSpec
INVARIANTS SubscribedIsReal
PROPERTY SubscriptionsSettle
CHECK_DEADLOCK FALSE
