---------------------------- MODULE SLATraffic -----------------------------
(***************************************************************************)
(* The SLA contracts in service: every provider has deployed, initialised   *)
(* and registered its contract, the operators leave it alone, and packets   *)
(* of roaming devices keep arriving.  Only the traffic itself remains, and  *)
(* the home operator, who records packets and may ban a forwarder.          *)
(***************************************************************************)
EXTENDS SLAContract

\* Where auto_deploy.py, or options 1, 6, 7 and 9 of the consoles, lead.
InService ==
    /\ app \in [Provider -> 1 .. MaxApps]
    /\ \A p, q \in Provider : p # q => app[p] # app[q]
    /\ lastApp = MaxApps
    /\ entry = [p \in Provider |-> [opted |-> TRUE, exists |-> TRUE, endpoint |-> app[p]]]
    /\ cfg \in [Provider -> Config]
    /\ funds \in [Provider -> 0 .. MaxFunds]
    /\ fwd = [p \in Provider |-> NoBoxes]
    /\ home = [p \in Provider |-> NoBoxes]

\* The check that an arriving packet of a device of h causes at f.
Packet(f, h) == \E out \in Verdict : sla_check(f, h, app[h], out)

TrafficNext ==
    \E r \in Route :
        \/ Packet(r[1], r[2])
        \/ receive_packet_from_forwarder(r[2], r[1])
        \/ ban_home_function(r[2], r[1])

\* Devices do not stop sending: a check that can succeed is made eventually.
\* Nothing obliges the home operator to record packets or to ban.
Fairness == \A r \in Route : WF_vars(Packet(r[1], r[2]))

TrafficSpec == InService /\ [][TrafficNext]_vars /\ Fairness

AtThreshold(f, h) == Active(fwd[f][h]) /\ fwd[f][h].count = fwd[f][h].threshold
-----------------------------------------------------------------------------
\* README.md, "When Count reaches Threshold, an automatic on-chain payment is
\* triggered and the counter resets to 0": a cycle that is full is closed, or
\* the home is banned, unless the account of the home's contract cannot cover
\* the agreed price.
FullCycleEnds ==
    \A r \in Route :
        AtThreshold(r[1], r[2]) ~>
            \/ fwd[r[1]][r[2]].count = 0
            \/ fwd[r[1]][r[2]].state = "Banned"
            \/ funds[r[2]] < fwd[r[1]][r[2]].price

\* A ban by the home reaches the forwarder's contract, which is never told of
\* it: the next settlement finds that nothing was paid.
BanIsMirrored ==
    \A r \in Route :
        home[r[2]][r[1]].state = "Banned" ~> fwd[r[1]][r[2]].state = "Banned"

\* README.md, "If the payment fails, the SLA transitions to Banned state", read
\* of a home whose contract account cannot cover the price.
UnpaidIsBanned ==
    \A r \in Route :
        (AtThreshold(r[1], r[2]) /\ Due(r[1], r[2]) /\ funds[r[2]] < home[r[2]][r[1]].price)
            ~> fwd[r[1]][r[2]].state = "Banned"
===========================================================================
