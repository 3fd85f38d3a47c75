------------------------------- MODULE MCMqtt -------------------------------
(* Two gateways; the bridge without client identifier, with a gateway's      *)
(* identifier as client identifier, and with a cloud authentication.         *)
EXTENDS MqttIntegration

CONSTANTS g1, g2

MCGateway == {g1, g2}

Generic(auth, terminate) ==
    [auth |-> auth, stateTopic |-> TRUE, terminate |-> terminate, reconnect |-> FALSE]
Cloud(terminate) ==
    [auth |-> NoGateway, stateTopic |-> FALSE, terminate |-> terminate, reconnect |-> TRUE]

MCConfiguration == {Generic(NoGateway, FALSE), Generic(g1, TRUE), Cloud(TRUE)}
=============================================================================
