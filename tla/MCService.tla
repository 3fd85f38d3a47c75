----------------------------- MODULE MCService -----------------------------
(* The service of provider p1, whose gateways hear devices of p2.            *)
EXTENDS BlockchainService, TLC

CONSTANTS p1, p2, t1, t2

MCProvider == {p1, p2}
MCHome == {p2}
MCThread == {t1, t2}

Symmetry == Permutations(MCThread)
=============================================================================
