----------------------------- MODULE MCTraffic -----------------------------
(* Two providers that forward for each other, with terms that let one        *)
(* direction be refused.                                                     *)
EXTENDS SLATraffic

CONSTANTS p1, p2, a1

MCProvider == {p1, p2}
MCAccess == {a1}

Terms(price, threshold, payTolerance) ==
    [catalog |-> 1, price |-> price, threshold |-> threshold,
     tolerance |-> 60, payTolerance |-> payTolerance, access |-> a1]

MCConfig == {Terms(2, 2, 50), Terms(3, 1, 50)}
MCDeposit == {}
MCRoute == {<<p1, p2>>, <<p2, p1>>}
=============================================================================
