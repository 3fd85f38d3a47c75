------------------------------ MODULE MCLookup ------------------------------
(* One provider that registers, moves to another contract and leaves, and    *)
(* two threads of the service.                                               *)
EXTENDS ProviderLookup, TLC

CONSTANTS p1, t1, t2

MCProvider == {p1}
MCThread == {t1, t2}

Symmetry == Permutations(MCThread)
=============================================================================
