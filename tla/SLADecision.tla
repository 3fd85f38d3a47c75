---------------------------- MODULE SLADecision ----------------------------
(***************************************************************************)
(* What the SLA contracts promise to those who ask them, without terms,     *)
(* money, counters or the home's side: for each forwarder and home, the     *)
(* state of the SLA and the answers that go with it.  SLAContract           *)
(* implements this specification, and BlockchainService relies on it.       *)
(***************************************************************************)
CONSTANT Provider   \* provider accounts

VARIABLE sla        \* sla[f][h]: state of the SLA in f's contract for home h

States == {"NoBox", "Active", "Rejected", "Banned"}

Answers == {"Accept", "Reject", "Active", "Rejected"}

DecisionInit == sla = [f \in Provider |-> [h \in Provider |-> "NoBox"]]

\* The first check settles for good whether the home agrees.
Negotiate(f, h, out) ==
    /\ sla[f][h] = "NoBox"
    /\ out \in {"Active", "Rejected"}
    /\ sla' = [sla EXCEPT ![f][h] = out]

\* Packets are granted until a cycle is not paid.
Grant(f, h, out) ==
    /\ sla[f][h] = "Active"
    /\ out = "Accept"
    /\ UNCHANGED sla

Expel(f, h, out) ==
    /\ sla[f][h] = "Active"
    /\ out = "Reject"
    /\ sla' = [sla EXCEPT ![f][h] = "Banned"]

Refuse(f, h, out) ==
    /\ sla[f][h] \in {"Rejected", "Banned"}
    /\ out = "Reject"
    /\ UNCHANGED sla

Ask(f, h, out) ==
    \/ Negotiate(f, h, out)
    \/ Grant(f, h, out)
    \/ Expel(f, h, out)
    \/ Refuse(f, h, out)

\* Only the operator of f ends an SLA, or all of them with the contract.
Drop(f, h) == sla' = [sla EXCEPT ![f][h] = "NoBox"]

DropAll(f) == sla' = [sla EXCEPT ![f] = [h \in Provider |-> "NoBox"]]

DecisionNext ==
    \E f \in Provider :
        \/ \E h \in Provider, out \in Answers : Ask(f, h, out)
        \/ \E h \in Provider : Drop(f, h)
        \/ DropAll(f)

DecisionSpec == DecisionInit /\ [][DecisionNext]_sla
=============================================================================
