---------------------------- MODULE SLAContract ----------------------------
(***************************************************************************)
(* The SLA application (smart_contracts/_SC.py), one instance per provider, *)
(* together with the catalog it consults.  A provider is a forwarder for    *)
(* the packets of other providers' devices that its gateways hear, and the  *)
(* home of its own devices when others hear them.                           *)
(*                                                                          *)
(* An SLA between forwarder f and home h is kept twice: in the box          *)
(* "<NetID of h>_forward_box" of f's contract (fwd[f][h]) and in the box    *)
(* "<NetID of f>_home_box" of h's contract (home[h][f]).  A method call is  *)
(* one transaction, with its inner calls: an Assert that fails, an inner    *)
(* call that fails or a uint64 overflow undoes all of it.  An action below  *)
(* is a call that succeeds; a call that aborts changes nothing.             *)
(***************************************************************************)
EXTENDS Catalog

CONSTANTS
    Access,      \* values of the pair (Token_broker, GW_id)
    NoAccess,    \* the pair ("None", "None")
    CatalogApp,  \* application id of the catalog
    Config,      \* argument tuples that operators pass to init
    MaxUint,     \* the largest uint64
    MaxReceived, \* bound on a home side packet counter
    MaxFunds,    \* bound on the spendable balance of a contract account
    Deposit,     \* amounts that operators pay into a contract account
    Route        \* pairs <<f, h>>: f's gateways hear devices of h

ASSUME ConstAssumption ==
    /\ NoAccess \notin Access
    /\ CatalogApp \in Nat \ {0}
    /\ Config \subseteq [catalog : Nat, price : Nat, threshold : Nat,
                         tolerance : Nat, payTolerance : Nat, access : Access]
    /\ MaxUint \in Nat
    /\ MaxReceived \in Nat
    /\ MaxFunds \in Nat
    /\ Deposit \subseteq Nat
    /\ Route \subseteq Provider \X Provider

VARIABLES
    app,      \* app[p]: id of p's SLA contract, 0 when it has none
    lastApp,  \* the last application id the ledger gave out
    cfg,      \* cfg[p]: global state of p's contract
    funds,    \* funds[p]: spendable balance of the contract's account
    fwd,      \* fwd[f][h]: forward box of f's contract for home h
    home      \* home[h][f]: home box of h's contract for forwarder f

contractVars == <<app, lastApp, cfg, funds, fwd, home>>
vars == <<entry, app, lastApp, cfg, funds, fwd, home>>
-----------------------------------------------------------------------------
\* "Active SLA", "SLA rejected" and "Banned" in the code.
SLAState == {"Active", "Rejected", "Banned"}

\* A box that was never written (or was deleted) is NoBox.
SLAEntry == [state : SLAState \cup {"NoBox"}, price : Nat, threshold : Nat,
             count : Nat, access : Access \cup {NoAccess}]

NoBox == [state |-> "NoBox", price |-> 0, threshold |-> 0, count |-> 0,
          access |-> NoAccess]

NoBoxes == [p \in Provider |-> NoBox]

\* A global key that was never written reads as 0.
Uninitialized == [catalog |-> 0, price |-> 0, threshold |-> 0,
                  tolerance |-> 0, payTolerance |-> 0, access |-> NoAccess]

GlobalState == [catalog : Nat, price : Nat, threshold : Nat,
                tolerance : Nat, payTolerance : Nat, access : Access \cup {NoAccess}]

\* The State_SLA field of what sla_check returns: "Active" and "Rejected" stand for
\* what handshake answered, "Active SLA" and "SLA rejected".
Verdict == {"Accept", "Reject", "Active", "Rejected"}

TypeOK ==
    /\ CatalogTypeOK
    /\ app \in [Provider -> AppId]
    /\ lastApp \in AppId
    /\ cfg \in [Provider -> GlobalState]
    /\ funds \in [Provider -> Nat]
    /\ fwd \in [Provider -> [Provider -> SLAEntry]]
    /\ home \in [Provider -> [Provider -> SLAEntry]]

Init ==
    /\ CatalogInit
    /\ app = [p \in Provider |-> 0]
    /\ lastApp = 0
    /\ cfg = [p \in Provider |-> Uninitialized]
    /\ funds = [p \in Provider |-> 0]
    /\ fwd = [p \in Provider |-> NoBoxes]
    /\ home = [p \in Provider |-> NoBoxes]

\* existing_sla_entry.set(...): the methods that change an entry write it anew,
\* with the terms that it had.
Rewritten(box, state, count) ==
    [state |-> state, price |-> box.price, threshold |-> box.threshold,
     count |-> count, access |-> box.access]

Exists(box) == box.state # "NoBox"

Active(box) == box.state = "Active"
-----------------------------------------------------------------------------
(* Management of the contract.                                             *)

\* create: the account deploys its contract.
create(p) ==
    /\ app[p] = 0
    /\ lastApp < MaxApps
    /\ lastApp' = lastApp + 1
    /\ app' = [app EXCEPT ![p] = lastApp + 1]
    /\ UNCHANGED <<entry, cfg, funds, fwd, home>>

\* A payment into the account of the contract.
fund(p, n) ==
    /\ app[p] # 0
    /\ funds[p] + n <= MaxFunds
    /\ funds' = [funds EXCEPT ![p] = @ + n]
    /\ UNCHANGED <<entry, app, lastApp, cfg, fwd, home>>

\* delete: global state, boxes and balance are out of reach from then on.
\* The catalog is another application and is not told.
delete(p) ==
    /\ app[p] # 0
    /\ app' = [app EXCEPT ![p] = 0]
    /\ cfg' = [cfg EXCEPT ![p] = Uninitialized]
    /\ funds' = [funds EXCEPT ![p] = 0]
    /\ fwd' = [fwd EXCEPT ![p] = NoBoxes]
    /\ home' = [home EXCEPT ![p] = NoBoxes]
    /\ UNCHANGED <<entry, lastApp>>

\* init may be called again at any time; it does not look at the boxes.
init(p, c) ==
    /\ app[p] # 0
    /\ c.catalog > 0
    /\ c.price > 0
    /\ c.threshold > 0
    /\ c.tolerance <= 100
    /\ c.payTolerance <= 100
    /\ cfg' = [cfg EXCEPT ![p] = c]
    /\ UNCHANGED <<entry, app, lastApp, funds, fwd, home>>
-----------------------------------------------------------------------------
(* The SLA between a forwarder f and a home h.                             *)

\* deleteSLA with type "_forward_box" or "_home_box".
deleteSLA_forward(p, q) ==
    /\ app[p] # 0
    /\ Exists(fwd[p][q])
    /\ fwd' = [fwd EXCEPT ![p][q] = NoBox]
    /\ UNCHANGED <<entry, app, lastApp, cfg, funds, home>>

deleteSLA_home(p, q) ==
    /\ app[p] # 0
    /\ Exists(home[p][q])
    /\ home' = [home EXCEPT ![p][q] = NoBox]
    /\ UNCHANGED <<entry, app, lastApp, cfg, funds, fwd>>

\* What handshake and pay assert before they act: both contracts use this
\* catalog, and the caller is the contract that f published there.  e is the
\* endpoint of h that the caller resolved: an inner call to a contract that is
\* gone fails, and so does one of a contract to itself.
AcceptsCaller(f, h, e) ==
    /\ f # h
    /\ e # 0
    /\ e = app[h]
    /\ cfg[f].catalog = CatalogApp
    /\ cfg[h].catalog = CatalogApp
    /\ get_entry_provider(f, app[f])

\* The negotiation in handshake: the home accepts a price that is not above
\* its own and a threshold that is not below its own.
Compatible(f, h) ==
    /\ cfg[h].price >= cfg[f].price
    /\ cfg[f].threshold >= cfg[h].threshold

\* The entry that handshake stores, and sla_check after it.
Negotiated(f, h) ==
    [state     |-> IF Compatible(f, h) THEN "Active" ELSE "Rejected",
     price     |-> cfg[f].price,
     threshold |-> cfg[f].threshold,
     count     |-> 0,
     access    |-> IF Compatible(f, h) THEN cfg[h].access ELSE NoAccess]

\* Mutant of handshake: the home keeps its own price instead of the offered one.
handshake_OwnPrice(f, h, e) ==
    /\ AcceptsCaller(f, h, e)
    /\ ~ Exists(home[h][f])
    /\ home' = [home EXCEPT ![h][f] =
                   [state |-> Negotiated(f, h).state, price |-> cfg[h].price,
                    threshold |-> cfg[f].threshold, count |-> 0,
                    access |-> Negotiated(f, h).access]]

\* Mutant of handshake: the assertion that no SLA exists is dropped.
handshake_Again(f, h, e) ==
    /\ AcceptsCaller(f, h, e)
    /\ home' = [home EXCEPT ![h][f] = Negotiated(f, h)]

\* handshake, as the inner call of sla_check.
handshake(f, h, e) ==
    /\ AcceptsCaller(f, h, e)
    /\ ~ Exists(home[h][f])
    /\ home' = [home EXCEPT ![h][f] = Negotiated(f, h)]

\* Mutant of NewSLA: a home that was refused or banned is asked again.
NewSLA_Again(f, h, e, out) ==
    /\ ~ Active(fwd[f][h])
    /\ handshake(f, h, e)
    /\ fwd' = [fwd EXCEPT ![f][h] = Negotiated(f, h)]
    /\ out = Negotiated(f, h).state
    /\ UNCHANGED funds

\* sla_check for a home it has no box for: negotiate, then store the same
\* entry on this side.
NewSLA(f, h, e, out) ==
    /\ ~ Exists(fwd[f][h])
    /\ handshake(f, h, e)
    /\ fwd' = [fwd EXCEPT ![f][h] = Negotiated(f, h)]
    /\ out = Negotiated(f, h).state
    /\ UNCHANGED funds

\* Mutant of CountPacket: the counter runs down.
CountPacket_Down(f, h, out) ==
    /\ Active(fwd[f][h])
    /\ fwd[f][h].count # fwd[f][h].threshold
    /\ fwd' = [fwd EXCEPT ![f][h] = Rewritten(@, "Active", @.count - 1)]
    /\ out = "Accept"
    /\ UNCHANGED <<funds, home>>

\* Mutant of CountPacket: the threshold is tested one packet too late.
CountPacket_Late(f, h, out) ==
    /\ Active(fwd[f][h])
    /\ fwd[f][h].count # fwd[f][h].threshold + 1
    /\ fwd' = [fwd EXCEPT ![f][h] = Rewritten(@, "Active", @.count + 1)]
    /\ out = "Accept"
    /\ UNCHANGED <<funds, home>>

\* sla_check below the threshold: count the packet.  No inner call is made.
CountPacket(f, h, out) ==
    /\ Active(fwd[f][h])
    /\ fwd[f][h].count # fwd[f][h].threshold
    /\ fwd[f][h].count < MaxUint
    /\ fwd' = [fwd EXCEPT ![f][h] = Rewritten(@, "Active", @.count + 1)]
    /\ out = "Accept"
    /\ UNCHANGED <<funds, home>>

\* The packets that the home must have recorded before pay sends anything.
MinPackets(f, h) == (home[h][f].threshold * cfg[h].tolerance) \div 100

\* Mutant of Due: the state of the SLA is not looked at.
Due_Banned(f, h) == home[h][f].count >= MinPackets(f, h)

\* The condition under which pay sends the agreed price.
Due(f, h) == home[h][f].count >= MinPackets(f, h) /\ Active(home[h][f])

\* The amount that pay sends in the present state.
Amount(f, h) == IF Due(f, h) THEN home[h][f].price ELSE 0

\* Mutant of MinExpected: the tolerance is added instead of subtracted.
MinExpected_Above(f, h) == (fwd[f][h].price * (100 + cfg[f].payTolerance)) \div 100

\* The amount whose arrival sla_check takes for a payment.
MinExpected(f, h) == (fwd[f][h].price * cfg[f].payTolerance) \div 100

\* pay, as the inner call of sla_check.  A home that has not recorded enough
\* packets, or has banned f, sends nothing and the call still succeeds; the
\* payment of a contract account that cannot cover it fails, and the whole
\* sla_check with it.
pay(f, h, e) ==
    /\ AcceptsCaller(f, h, e)
    /\ Exists(home[h][f])
    /\ home[h][f].threshold * cfg[h].tolerance <= MaxUint
    /\ funds[h] >= Amount(f, h)
    /\ funds' = [funds EXCEPT ![h] = @ - Amount(f, h)]
    /\ home' = IF Due(f, h)
               THEN [home EXCEPT ![h][f] = Rewritten(@, "Active", 0)]
               ELSE home

\* Mutant of Settle: the packet that triggers the payment is counted.
Settle_Counts(f, h, e, out) ==
    /\ Active(fwd[f][h])
    /\ fwd[f][h].count = fwd[f][h].threshold
    /\ pay(f, h, e)
    /\ IF Amount(f, h) >= MinExpected(f, h)
       THEN /\ fwd' = [fwd EXCEPT ![f][h] = Rewritten(@, "Active", 1)]
            /\ out = "Accept"
       ELSE /\ fwd' = [fwd EXCEPT ![f][h] = Rewritten(@, "Banned", @.count)]
            /\ out = "Reject"

\* Mutant of Settle: that pay returned is taken for the arrival of the money.
Settle_Trusting(f, h, e, out) ==
    /\ Active(fwd[f][h])
    /\ fwd[f][h].count = fwd[f][h].threshold
    /\ pay(f, h, e)
    /\ fwd' = [fwd EXCEPT ![f][h] = Rewritten(@, "Active", 0)]
    /\ out = "Accept"

\* Mutant of Settle: the packet is refused and the ban is not saved.
Settle_Unsaved(f, h, e, out) ==
    /\ Active(fwd[f][h])
    /\ fwd[f][h].count = fwd[f][h].threshold
    /\ pay(f, h, e)
    /\ IF Amount(f, h) >= MinExpected(f, h)
       THEN /\ fwd' = [fwd EXCEPT ![f][h] = Rewritten(@, "Active", 0)]
            /\ out = "Accept"
       ELSE /\ UNCHANGED fwd
            /\ out = "Reject"

\* sla_check at the threshold: call pay, compare the sender's balance before
\* and after, and start a new cycle or ban the home.
Settle(f, h, e, out) ==
    /\ Active(fwd[f][h])
    /\ fwd[f][h].count = fwd[f][h].threshold
    /\ fwd[f][h].price * cfg[f].payTolerance <= MaxUint
    /\ pay(f, h, e)
    /\ IF Amount(f, h) >= MinExpected(f, h)
       THEN /\ fwd' = [fwd EXCEPT ![f][h] = Rewritten(@, "Active", 0)]
            /\ out = "Accept"
       ELSE /\ fwd' = [fwd EXCEPT ![f][h] = Rewritten(@, "Banned", @.count)]
            /\ out = "Reject"

\* sla_check on an SLA that was rejected or banned.
RefusePacket(f, h, out) ==
    /\ Exists(fwd[f][h])
    /\ ~ Active(fwd[f][h])
    /\ out = "Reject"
    /\ UNCHANGED <<funds, fwd, home>>

sla_check(f, h, e, out) ==
    /\ app[f] # 0
    /\ \/ NewSLA(f, h, e, out)
       \/ CountPacket(f, h, out)
       \/ Settle(f, h, e, out)
       \/ RefusePacket(f, h, out)
    /\ UNCHANGED <<entry, app, lastApp, cfg>>

\* receive_packet_from_forwarder: the home records a packet that f delivered.
receive_packet_from_forwarder(h, f) ==
    /\ app[h] # 0
    /\ Active(home[h][f])
    /\ home[h][f].count < MaxUint
    /\ home[h][f].count < MaxReceived
    /\ home' = [home EXCEPT ![h][f] = Rewritten(@, "Active", @.count + 1)]
    /\ UNCHANGED <<entry, app, lastApp, cfg, funds, fwd>>

ban_home_function(h, f) ==
    /\ app[h] # 0
    /\ Active(home[h][f])
    /\ home' = [home EXCEPT ![h][f] = Rewritten(@, "Banned", @.count)]
    /\ UNCHANGED <<entry, app, lastApp, cfg, funds, fwd>>
-----------------------------------------------------------------------------
CatalogNext(p) ==
    /\ \/ opt_in(p)
       \/ close_out(p)
       \/ clear_state(p)
       \/ set_entry_provider(p, app[p])
       \/ delete_endpoint(p)
    /\ UNCHANGED contractVars

OwnerNext(p) ==
    \/ create(p)
    \/ \E n \in Deposit : fund(p, n)
    \/ delete(p)
    \/ \E c \in Config : init(p, c)

\* A caller of sla_check resolved h either to its present contract or to one
\* that no longer exists.
SLANext(f, h) ==
    \/ \E e \in {0, app[h]}, out \in Verdict : sla_check(f, h, e, out)
    \/ deleteSLA_forward(f, h)
    \/ deleteSLA_home(h, f)
    \/ receive_packet_from_forwarder(h, f)
    \/ ban_home_function(h, f)

Next ==
    \/ \E p \in Provider : CatalogNext(p) \/ OwnerNext(p)
    \/ \E r \in Route : SLANext(r[1], r[2])

Spec == Init /\ [][Next]_vars
-----------------------------------------------------------------------------
(* Safety.                                                                 *)

\* Both sides hold the same contract: while the forward box of f for h and the
\* home box of h for f both exist, they carry the same price, threshold and
\* access data, and the negotiation ended the same way on both, although
\* handshake and sla_check write them separately, either side may delete its
\* box or its whole contract, and init may change the terms of later ones.
Agreement ==
    \A f, h \in Provider :
        Exists(fwd[f][h]) /\ Exists(home[h][f]) =>
            /\ fwd[f][h].price = home[h][f].price
            /\ fwd[f][h].threshold = home[h][f].threshold
            /\ fwd[f][h].access = home[h][f].access
            /\ fwd[f][h].state = "Rejected" <=> home[h][f].state = "Rejected"

\* The test current_count == threshold_SLA of sla_check cannot be jumped over:
\* an active SLA never counts past its threshold, it grants access data of the
\* home, and its terms are the positive ones init asserts.
ActiveTerms ==
    \A f, h \in Provider :
        Active(fwd[f][h]) =>
            /\ fwd[f][h].count <= fwd[f][h].threshold
            /\ fwd[f][h].threshold > 0
            /\ fwd[f][h].price > 0
            /\ fwd[f][h].access \in Access

\* Money leaves the account of a live contract only to close a cycle of one
\* SLA: the forwarder was at its threshold and had agreed to exactly that
\* amount, and the same step starts a new cycle on both sides.  In particular
\* a home that pays is not banned for it.
PaymentClosesCycle ==
    [][\A h \in Provider :
          app'[h] = app[h] /\ funds'[h] < funds[h] =>
              \E f \in Provider :
                  /\ fwd[f][h].count = fwd[f][h].threshold
                  /\ funds[h] - funds'[h] = fwd[f][h].price
                  /\ Active(fwd'[f][h]) /\ fwd'[f][h].count = 0
                  /\ Active(home'[h][f]) /\ home'[h][f].count = 0]_vars

\* A refusal or a ban on one side is not lifted by the other side alone: an SLA
\* becomes active only when neither contract holds a box of the pair, because
\* handshake asserts that "SLA already exists" is false.
NoRevival ==
    [][\A f, h \in Provider :
          Active(fwd'[f][h]) /\ ~ Active(fwd[f][h]) =>
              ~ Exists(fwd[f][h]) /\ ~ Exists(home[h][f])]_vars
-----------------------------------------------------------------------------
(* What the contracts promise: SLADecision, with the states of the forward  *)
(* boxes.                                                                   *)
Decision == INSTANCE SLADecision WITH
    sla <- [f \in Provider |-> [h \in Provider |-> fwd[f][h].state]]

\* The contracts implement SLADecision: seen from the forwarder, whatever the
\* home does to its box, its contract or its money, an SLA is negotiated once,
\* may go from active to banned, and is otherwise left alone until the
\* forwarder's own operator removes it.
Implements == Decision!DecisionSpec
=============================================================================
