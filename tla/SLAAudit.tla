----------------------------- MODULE SLAAudit -----------------------------
(***************************************************************************)
(* SLAContract with history variables: what an auditor who sees every       *)
(* answer of sla_check and every payment can add up, per pair of providers, *)
(* since the forward box of the pair was created.  They record and do not   *)
(* influence the contracts.                                                 *)
(***************************************************************************)
EXTENDS SLAContract

CONSTANT MaxAccepted   \* bound on the packets granted under one SLA

ASSUME MaxAcceptedAssumption == MaxAccepted \in Nat

VARIABLES
    accepted,  \* accepted[f][h]: packets of h that f's contract let through
    settled,   \* settled[f][h]: times the counter was reset at the threshold
    earned,    \* earned[f][h]: amount that h paid to f
    afterBan   \* afterBan[f][h]: packets let through while h has f banned

history == <<accepted, settled, earned, afterBan>>
auditVars == <<vars, history>>

Zero == [f \in Provider |-> [h \in Provider |-> 0]]

AuditInit ==
    /\ Init
    /\ accepted = Zero
    /\ settled = Zero
    /\ earned = Zero
    /\ afterBan = Zero

\* What the gateway bridge takes for permission to forward.
Granted(out) == out \in {"Accept", "Active"}

\* The step is the settlement of the pair.
Settles(f, h, out) ==
    /\ Active(fwd[f][h])
    /\ fwd[f][h].count = fwd[f][h].threshold
    /\ out = "Accept"

AuditCheck(f, h, e, out) ==
    /\ accepted[f][h] < MaxAccepted
    /\ sla_check(f, h, e, out)
    /\ accepted' = [accepted EXCEPT ![f][h] = IF Granted(out) THEN @ + 1 ELSE @]
    /\ settled' = [settled EXCEPT ![f][h] = IF Settles(f, h, out) THEN @ + 1 ELSE @]
    /\ earned' = [earned EXCEPT ![f][h] = @ + (funds[h] - funds'[h])]
    /\ afterBan' = [afterBan EXCEPT ![f][h] =
                       IF Granted(out) /\ home[h][f].state = "Banned" THEN @ + 1 ELSE @]

\* A forward box goes with what was recorded under it.
AuditDeleteForward(f, h) ==
    /\ deleteSLA_forward(f, h)
    /\ accepted' = [accepted EXCEPT ![f][h] = 0]
    /\ settled' = [settled EXCEPT ![f][h] = 0]
    /\ earned' = [earned EXCEPT ![f][h] = 0]
    /\ afterBan' = [afterBan EXCEPT ![f][h] = 0]

AuditDelete(p) ==
    /\ delete(p)
    /\ accepted' = [accepted EXCEPT ![p] = Zero[p]]
    /\ settled' = [settled EXCEPT ![p] = Zero[p]]
    /\ earned' = [earned EXCEPT ![p] = Zero[p]]
    /\ afterBan' = [afterBan EXCEPT ![p] = Zero[p]]

AuditOwner(p) ==
    /\ \/ CatalogNext(p)
       \/ create(p)
       \/ \E n \in Deposit : fund(p, n)
       \/ \E c \in Config : init(p, c)
    /\ UNCHANGED history

AuditHome(f, h) ==
    /\ \/ deleteSLA_home(h, f)
       \/ receive_packet_from_forwarder(h, f)
       \/ ban_home_function(h, f)
    /\ UNCHANGED history

AuditNext ==
    \/ \E p \in Provider : AuditOwner(p) \/ AuditDelete(p)
    \/ \E r \in Route :
          \/ \E e \in {0, app[r[2]]}, out \in Verdict : AuditCheck(r[1], r[2], e, out)
          \/ AuditDeleteForward(r[1], r[2])
          \/ AuditHome(r[1], r[2])

AuditSpec == AuditInit /\ [][AuditNext]_auditVars
-----------------------------------------------------------------------------
\* Every amount that MinExpected can compute from the terms in use is positive.
\* It is not for small prices: the quotient is rounded down.
Collectable ==
    \A c, d \in Config : (c.price * d.payTolerance) \div 100 > 0

\* The books balance: a cycle of an SLA grants threshold + 1 packets (the one
\* that triggers the payment is let through and not counted), the handshake
\* grants one more, and, if terms are collectable, each closed cycle has brought
\* exactly the agreed price.
Accounting ==
    \A f, h \in Provider :
        fwd[f][h].state \in {"Active", "Banned"} =>
            /\ accepted[f][h] = settled[f][h] * (fwd[f][h].threshold + 1) + fwd[f][h].count + 1
            /\ Collectable => earned[f][h] = settled[f][h] * fwd[f][h].price

\* The credit that a forwarder extends is bounded: with collectable terms, the
\* packets it let through and was not paid for never exceed one cycle, whatever
\* the home does (ban, delete its box, delete or redeploy its contract, run out
\* of money, stop recording packets).
CreditBound ==
    \A f, h \in Provider :
        Collectable /\ fwd[f][h].state \in {"Active", "Banned"} =>
            fwd[f][h].price * accepted[f][h] <=
                (earned[f][h] + fwd[f][h].price) * (fwd[f][h].threshold + 1)

\* A ban by the home takes effect: ban_home_function does not tell the
\* forwarder's contract, which goes on granting packets until its own counter
\* reaches the threshold, finds that pay sends nothing, and bans the home.
BanTakesEffect ==
    \A f, h \in Provider :
        Collectable /\ home[h][f].state = "Banned" =>
            afterBan[f][h] <= fwd[f][h].threshold
=============================================================================
