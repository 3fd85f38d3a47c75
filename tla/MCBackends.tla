----------------------------- MODULE MCBackends -----------------------------
(* The parts of the backends that have a run in common because they share no *)
(* state: the connections of the Basic Station backend (three connections of *)
(* two gateways, two downlinks), and the path of uplinks, with the filters   *)
(* and the statistics.  There, two devices have NetIDs that share a NwkID;   *)
(* filters are by NetID, by JoinEUI and both; there are packets with         *)
(* one frame of every kind, one with two antennas and a frame with a bad     *)
(* CRC, and one with a frame that does not parse.                            *)
EXTENDS BasicStation, UplinkPath

CONSTANTS g1, g2, c1, c2, c3, d1, d2, t1, t2, f1, f2, m1, m2

VARIABLE part

MCGateway == {g1, g2}
MCConn == {c1, c2, c3}
MCDownlink == {d1, d2}
MCToken == {t1, t2}

Symmetry == Permutations(MCGateway) \cup Permutations(MCConn) \cup
            Permutations(MCDownlink) \cup Permutations(MCToken)

MCFreq == {f1, f2}
MCMod == {m1, m2}
MCDevice == {[netID |-> 1, joinEUI |-> 5], [netID |-> 3, joinEUI |-> 6]}
Filters(netIDs, joinEUIs) == [netIDs |-> netIDs, joinEUIs |-> joinEUIs]
MCFilterConfig == {Filters({1}, {}), Filters({}, {<<4, 5>>}), Filters({1, 2}, {<<4, 5>>})}

Received(f, p, a, ok, parses) ==
    [frame |-> [freq |-> f, mod |-> m1, phy |-> p],
     antennas |-> a, crcOk |-> ok, parses |-> parses]

MCPushPackets ==
    {<<Received(f1, p, 1, TRUE, TRUE)>> : p \in Phy}
        \cup {<<Received(f2, Noise, 2, TRUE, TRUE), Received(f1, Noise, 1, FALSE, FALSE)>>,
              <<Received(f1, Noise, 1, TRUE, TRUE), Received(f2, Noise, 1, TRUE, FALSE)>>}
MCTxItems == {<<[freq |-> f1, mod |-> m1], [freq |-> f2, mod |-> m2]>>}

backendsVars == <<part, stationVars, uplinkVars>>

BackendsInit ==
    \/ part = "station" /\ StationInit /\ UplinkInit /\ filters.netIDs = {}
    \/ part = "uplink" /\ StationInit /\ UplinkInit /\ \A c, d \in Conn : gw[c] = gw[d]

BackendsNext ==
    /\ UNCHANGED part
    /\ \/ part = "station" /\ StationNext /\ UNCHANGED uplinkVars
       \/ part = "uplink" /\ UplinkNext /\ UNCHANGED stationVars

BackendsSpec == BackendsInit /\ [][BackendsNext]_backendsVars
=============================================================================
