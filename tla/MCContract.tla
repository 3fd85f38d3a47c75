---------------------------- MODULE MCContract ----------------------------
(* Two providers, each with its own choice of contract terms: a cheap and a *)
(* dear offer.  A forwarder with the dear one is refused by a home with the *)
(* cheap one.                                                               *)
EXTENDS SLAAudit
CONSTANTS p1, p2, a1, a2
MCProvider == {p1, p2}
MCAccess == {a1, a2}
Terms(price, threshold, payTolerance, access) ==
    [catalog |-> 1, price |-> price, threshold |-> threshold,
     tolerance |-> 60, payTolerance |-> payTolerance, access |-> access]
MCConfig == {Terms(2, 2, 50, a1), Terms(3, 1, 100, a2)}
MCDeposit == {4}
MCRoute == {<<p1, p2>>}
=============================================================================
