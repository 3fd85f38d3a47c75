-------------------------------- MODULE MCUdp --------------------------------
(* One gateway with a downlink of three items, as sent for two receive       *)
(* windows and a retry.                                                      *)
EXTENDS SemtechUdp

CONSTANTS g1, d1

MCGateway == {g1}
MCDownlink == {d1}
MCItems == [d \in MCDownlink |-> 3]
MCTarget == [d \in MCDownlink |-> g1]
=============================================================================
