------------------------- MODULE SLAContractProofs -------------------------
(***************************************************************************)
(* Safety of the SLA contracts, for any set of providers, any terms and any *)
(* bounds.                                                                  *)
(***************************************************************************)
EXTENDS SLAAudit, TLAPS

(* init asserts what the negotiation relies on, and nothing else sets the   *)
(* global state of a contract to anything but its initial value.            *)
ConfigSound ==
    \A p \in Provider :
        cfg[p].catalog # 0 =>
            /\ cfg[p].price > 0
            /\ cfg[p].threshold > 0
            /\ cfg[p].payTolerance <= 100
            /\ cfg[p].access \in Access

(* Agreement and ActiveTerms are inductive together with the soundness of   *)
(* the terms from which handshake makes an entry.                           *)
IInv == TypeOK /\ ConfigSound /\ Agreement /\ ActiveTerms
-----------------------------------------------------------------------------
(* Lemmas about the operators.                                             *)

\* A box that does not exist is well typed, and an empty set of boxes too.
LEMMA NoBoxType ==
    /\ NoBox \in SLAEntry
    /\ ~ Exists(NoBox)
    /\ ~ Active(NoBox)
    /\ NoBoxes \in [Provider -> SLAEntry]
    /\ \A p \in Provider : NoBoxes[p] = NoBox
BY DEF NoBox, NoBoxes, SLAEntry, Exists, Active

LEMMA UninitializedType == Uninitialized \in GlobalState /\ Uninitialized.catalog = 0
BY DEF Uninitialized, GlobalState

\* What handshake stores is well typed.
LEMMA NegotiatedType ==
    ASSUME TypeOK, NEW f \in Provider, NEW h \in Provider
    PROVE  Negotiated(f, h) \in SLAEntry
BY DEF TypeOK, Negotiated, GlobalState, SLAEntry, SLAState

\* Counting up, and taking no more than there is, stays within the naturals.
LEMMA NatClosed ==
    /\ \A n \in Nat : n + 1 \in Nat
    /\ \A m, n \in Nat : m >= n => m - n \in Nat
OBVIOUS

\* Rewriting an entry keeps its type.
LEMMA RewrittenType ==
    ASSUME NEW box \in SLAEntry, NEW s \in SLAState, NEW n \in Nat
    PROVE  Rewritten(box, s, n) \in SLAEntry
BY DEF Rewritten, SLAEntry

\* A percentage of a price is at most the price: the forwarder never expects
\* more than it agreed to.
LEMMA PercentBound ==
    ASSUME NEW x \in Nat, NEW t \in Nat, t <= 100
    PROVE  (x * t) \div 100 \in Nat /\ (x * t) \div 100 <= x
<1>1. x * t \in Nat /\ x * t <= x * 100
    BY Z3
<1> DEFINE y == x * t
<1>2. y \in Nat /\ y <= x * 100
    BY <1>1
<1> HIDE DEF y
<1>3. y \div 100 \in Nat /\ y \div 100 <= x
    BY <1>2
<1> QED BY <1>3 DEF y
-----------------------------------------------------------------------------
(* Type correctness.                                                       *)

\* The initial state is well typed.
LEMMA InitType == Init => TypeOK
<1> SUFFICES ASSUME Init PROVE TypeOK
    OBVIOUS
<1>1. 0 \in AppId
    BY MaxAppsAssumption DEF AppId
<1>2. CatalogTypeOK
    BY <1>1 DEF Init, CatalogInit, CatalogTypeOK, NotOptedIn, Entry
<1>3. fwd \in [Provider -> [Provider -> SLAEntry]]
    BY NoBoxType DEF Init
<1>4. home \in [Provider -> [Provider -> SLAEntry]]
    BY NoBoxType DEF Init
<1> QED
    BY <1>1, <1>2, <1>3, <1>4, UninitializedType DEF Init, TypeOK

\* The catalog keeps its type and leaves the contracts alone.
LEMMA CatalogType ==
    ASSUME TypeOK, NEW p \in Provider, CatalogNext(p)
    PROVE  TypeOK'
<1>1. 0 \in AppId /\ app[p] \in AppId
    BY MaxAppsAssumption DEF AppId, TypeOK
<1>2. /\ [opted |-> TRUE, exists |-> TRUE, endpoint |-> 0] \in Entry
      /\ [opted |-> TRUE, exists |-> TRUE, endpoint |-> app[p]] \in Entry
      /\ NotOptedIn \in Entry
      /\ Unset \in Entry
    BY <1>1 DEF Entry, NotOptedIn, Unset
<1>3. \E new \in Entry : entry' = [entry EXCEPT ![p] = new]
    BY <1>2 DEF CatalogNext, opt_in, close_out, clear_state, set_entry_provider,
       delete_endpoint
<1>4. CatalogTypeOK'
    BY <1>3 DEF TypeOK, CatalogTypeOK
<1> QED
    BY <1>4 DEF CatalogNext, contractVars, TypeOK

\* So do the owner's operations on its contract.
LEMMA OwnerType ==
    ASSUME TypeOK, NEW p \in Provider, OwnerNext(p)
    PROVE  TypeOK'
<1>1. CASE create(p)
    BY <1>1, MaxAppsAssumption DEF create, TypeOK, CatalogTypeOK, AppId
<1>2. ASSUME NEW n \in Deposit, fund(p, n) PROVE TypeOK'
    BY <1>2, ConstAssumption DEF fund, TypeOK, CatalogTypeOK
<1>3. CASE delete(p)
    <2>1. 0 \in AppId
        BY MaxAppsAssumption DEF AppId
    <2> QED
        BY <1>3, <2>1, NoBoxType, UninitializedType DEF delete, TypeOK, CatalogTypeOK
<1>4. ASSUME NEW c \in Config, init(p, c) PROVE TypeOK'
    <2>1. c \in GlobalState
        BY ConstAssumption DEF GlobalState
    <2> QED
        BY <1>4, <2>1 DEF init, TypeOK, CatalogTypeOK
<1> QED
    BY <1>1, <1>2, <1>3, <1>4 DEF OwnerNext

\* And so does a check, in each of its four outcomes.
LEMMA CheckType ==
    ASSUME TypeOK, NEW f \in Provider, NEW h \in Provider, NEW e, NEW out,
           sla_check(f, h, e, out)
    PROVE  TypeOK'
<1>0. /\ fwd[f][h] \in SLAEntry /\ fwd[f][h].count \in Nat
      /\ home[h][f] \in SLAEntry /\ home[h][f].price \in Nat
      /\ "Active" \in SLAState /\ "Banned" \in SLAState
    BY DEF TypeOK, SLAEntry, SLAState
<1>1. CASE NewSLA(f, h, e, out)
    BY <1>1, NegotiatedType DEF NewSLA, handshake, sla_check, TypeOK, CatalogTypeOK
<1>2. CASE CountPacket(f, h, out)
    <2>1. fwd[f][h].count + 1 \in Nat
        BY <1>0, NatClosed, Zenon
    <2>2. Rewritten(fwd[f][h], "Active", fwd[f][h].count + 1) \in SLAEntry
        BY <1>0, <2>1, RewrittenType
    <2> QED
        BY <1>2, <2>2 DEF CountPacket, sla_check, TypeOK, CatalogTypeOK
<1>3. CASE Settle(f, h, e, out)
    <2>1. /\ Rewritten(fwd[f][h], "Active", 0) \in SLAEntry
          /\ Rewritten(fwd[f][h], "Banned", fwd[f][h].count) \in SLAEntry
          /\ Rewritten(home[h][f], "Active", 0) \in SLAEntry
        BY <1>0, RewrittenType
    <2>2. \E new \in SLAEntry : fwd' = [fwd EXCEPT ![f][h] = new]
        BY <1>3, <2>1 DEF Settle
    <2>3. home' = home \/ \E new \in SLAEntry : home' = [home EXCEPT ![h][f] = new]
        BY <1>3, <2>1 DEF Settle, pay
    <2>4. funds[h] \in Nat /\ Amount(f, h) \in Nat
        BY <1>0 DEF Amount, TypeOK
    <2>5. \E n \in Nat : funds' = [funds EXCEPT ![h] = n]
        <3>1. funds[h] >= Amount(f, h) /\ funds' = [funds EXCEPT ![h] = @ - Amount(f, h)]
            BY <1>3 DEF Settle, pay
        <3>2. funds[h] - Amount(f, h) \in Nat
            BY <2>4, <3>1, NatClosed, Zenon
        <3> QED
            BY <3>1, <3>2
    <2>6. fwd' \in [Provider -> [Provider -> SLAEntry]]
        BY <2>2 DEF TypeOK
    <2>7. home' \in [Provider -> [Provider -> SLAEntry]]
        <3>1. CASE home' = home
            BY <3>1 DEF TypeOK
        <3>2. ASSUME NEW new \in SLAEntry, home' = [home EXCEPT ![h][f] = new]
              PROVE  home' \in [Provider -> [Provider -> SLAEntry]]
            BY <3>2 DEF TypeOK
        <3> QED
            BY <2>3, <3>1, <3>2
    <2>8. funds' \in [Provider -> Nat]
        BY <2>5 DEF TypeOK
    <2> QED
        BY <2>6, <2>7, <2>8 DEF sla_check, TypeOK, CatalogTypeOK
<1>4. CASE RefusePacket(f, h, out)
    BY <1>4 DEF RefusePacket, sla_check, TypeOK, CatalogTypeOK
<1> QED
    BY <1>1, <1>2, <1>3, <1>4 DEF sla_check

\* And the other operations on an SLA.
LEMMA SLAType ==
    ASSUME TypeOK, NEW f \in Provider, NEW h \in Provider, SLANext(f, h)
    PROVE  TypeOK'
<1>a. /\ home[h][f] \in SLAEntry /\ home[h][f].count \in Nat
      /\ "Active" \in SLAState /\ "Banned" \in SLAState
    BY DEF TypeOK, SLAEntry, SLAState
<1>0. home[h][f].count + 1 \in Nat
    BY <1>a, NatClosed, Zenon
<1>1. ASSUME NEW e \in {0, app[h]}, NEW out \in Verdict, sla_check(f, h, e, out)
      PROVE  TypeOK'
    BY <1>1, CheckType
<1>2. CASE deleteSLA_forward(f, h)
    BY <1>2, NoBoxType DEF deleteSLA_forward, TypeOK, CatalogTypeOK
<1>3. CASE deleteSLA_home(h, f)
    BY <1>3, NoBoxType DEF deleteSLA_home, TypeOK, CatalogTypeOK
<1>4. CASE receive_packet_from_forwarder(h, f)
    <2>1. Rewritten(home[h][f], "Active", home[h][f].count + 1) \in SLAEntry
        BY <1>a, <1>0, RewrittenType
    <2> QED
        BY <1>4, <2>1 DEF receive_packet_from_forwarder, TypeOK, CatalogTypeOK
<1>5. CASE ban_home_function(h, f)
    <2>1. Rewritten(home[h][f], "Banned", home[h][f].count) \in SLAEntry
        BY <1>a, RewrittenType
    <2> QED
        BY <1>5, <2>1 DEF ban_home_function, TypeOK, CatalogTypeOK
<1> QED
    BY <1>1, <1>2, <1>3, <1>4, <1>5 DEF SLANext

\* Every step keeps the types.
LEMMA TypeStep == TypeOK /\ [Next]_vars => TypeOK'
<1> SUFFICES ASSUME TypeOK, [Next]_vars PROVE TypeOK'
    OBVIOUS
<1>1. ASSUME NEW p \in Provider, CatalogNext(p) \/ OwnerNext(p) PROVE TypeOK'
    BY <1>1, CatalogType, OwnerType
<1>2. ASSUME NEW r \in Route, SLANext(r[1], r[2]) PROVE TypeOK'
    <2>1. r[1] \in Provider /\ r[2] \in Provider
        BY ConstAssumption
    <2> QED
        BY <1>2, <2>1, SLAType
<1>3. CASE UNCHANGED vars
    BY <1>3 DEF vars, TypeOK, CatalogTypeOK
<1> QED
    BY <1>1, <1>2, <1>3 DEF Next

\* Every state of the contracts is well typed.
THEOREM TypeCorrect == Spec => []TypeOK
BY InitType, TypeStep, PTL DEF Spec
-----------------------------------------------------------------------------
(* The inductive invariant.                                                *)

\* Nothing is agreed initially.
LEMMA InitInv == Init => IInv
<1> SUFFICES ASSUME Init PROVE IInv
    OBVIOUS
<1>1. TypeOK
    BY InitType
<1>2. ConfigSound
    BY UninitializedType DEF Init, ConfigSound
<1>3. \A f, h \in Provider : ~ Exists(fwd[f][h]) /\ ~ Active(fwd[f][h])
    BY NoBoxType DEF Init
<1> QED
    BY <1>1, <1>2, <1>3 DEF IInv, Agreement, ActiveTerms

\* Only init and delete write the global state.
LEMMA ConfigStep ==
    ASSUME IInv, [Next]_vars
    PROVE  ConfigSound'
<1>1. CASE UNCHANGED cfg
    BY <1>1 DEF IInv, ConfigSound
<1>2. ASSUME NEW p \in Provider, NEW c \in Config, init(p, c) PROVE ConfigSound'
    <2>1. c.access \in Access
        BY ConstAssumption
    <2> QED
        BY <1>2, <2>1 DEF init, IInv, TypeOK, ConfigSound
<1>3. ASSUME NEW p \in Provider, delete(p) PROVE ConfigSound'
    BY <1>3, UninitializedType DEF delete, IInv, TypeOK, ConfigSound
<1> QED
    BY <1>1, <1>2, <1>3
       DEF Next, vars, CatalogNext, contractVars, OwnerNext, create, fund, SLANext, sla_check,
           deleteSLA_forward, deleteSLA_home, receive_packet_from_forwarder, ban_home_function

\* An accepted negotiation yields sound terms.
LEMMA NegotiatedTerms ==
    ASSUME IInv, NEW f \in Provider, NEW h \in Provider, NEW e,
           AcceptsCaller(f, h, e), Active(Negotiated(f, h))
    PROVE  /\ Negotiated(f, h).count <= Negotiated(f, h).threshold
           /\ Negotiated(f, h).threshold > 0
           /\ Negotiated(f, h).price > 0
           /\ Negotiated(f, h).access \in Access
<1>1. cfg[f].catalog # 0 /\ cfg[h].catalog # 0
    BY ConstAssumption DEF AcceptsCaller
<1>2. cfg[f].price > 0 /\ cfg[f].threshold > 0 /\ cfg[h].access \in Access
    BY <1>1 DEF IInv, ConfigSound
<1>3. cfg[f].threshold \in Nat
    BY DEF IInv, TypeOK, GlobalState
<1>4. Compatible(f, h)
    BY DEF Active, Negotiated
<1>5. /\ Negotiated(f, h).count = 0
      /\ Negotiated(f, h).threshold = cfg[f].threshold
      /\ Negotiated(f, h).price = cfg[f].price
      /\ Negotiated(f, h).access = cfg[h].access
    BY <1>4 DEF Negotiated
<1> QED
    BY <1>2, <1>3, <1>5
(* What a step may do to the two boxes of the pair x, y.                   *)

\* Each box stays or disappears.
Kept(x, y) ==
    /\ fwd'[x][y] \in {fwd[x][y], NoBox}
    /\ home'[y][x] \in {home[y][x], NoBox}

\* Both are made by the same negotiation.
Created(x, y) ==
    /\ ~ Exists(fwd[x][y])
    /\ ~ Exists(home[y][x])
    /\ \E e : AcceptsCaller(x, y, e)
    /\ fwd'[x][y] = Negotiated(x, y)
    /\ home'[y][x] = Negotiated(x, y)

\* The forwarder counts a packet.
Counted(x, y) ==
    /\ Active(fwd[x][y])
    /\ fwd[x][y].count # fwd[x][y].threshold
    /\ fwd'[x][y] = Rewritten(fwd[x][y], "Active", fwd[x][y].count + 1)
    /\ home'[y][x] = home[y][x]

\* A full cycle is settled or the home is banned.
Closed(x, y) ==
    /\ Active(fwd[x][y])
    /\ fwd[x][y].count = fwd[x][y].threshold
    /\ fwd'[x][y] \in {Rewritten(fwd[x][y], "Active", 0),
                        Rewritten(fwd[x][y], "Banned", fwd[x][y].count)}
    /\ \/ home'[y][x] = home[y][x]
       \/ /\ Active(home[y][x])
          /\ home'[y][x] = Rewritten(home[y][x], "Active", 0)

\* The home counts a packet or bans the forwarder.
HomeChanged(x, y) ==
    /\ Active(home[y][x])
    /\ fwd'[x][y] = fwd[x][y]
    /\ \E s \in {"Active", "Banned"}, n \in Nat :
          home'[y][x] = Rewritten(home[y][x], s, n)

PairStep(x, y) ==
    \/ Kept(x, y)
    \/ Created(x, y)
    \/ Counted(x, y)
    \/ Closed(x, y)
    \/ HomeChanged(x, y)

\* The four outcomes of a check, seen from any pair.
LEMMA CheckPair ==
    ASSUME TypeOK, NEW f \in Provider, NEW h \in Provider, NEW e, NEW out,
           sla_check(f, h, e, out), NEW x \in Provider, NEW y \in Provider
    PROVE  PairStep(x, y)
<1>1. CASE NewSLA(f, h, e, out)
    <2>1. CASE x = f /\ y = h
        BY <1>1, <2>1 DEF NewSLA, handshake, TypeOK, PairStep, Created
    <2>2. CASE ~ (x = f /\ y = h)
        BY <1>1, <2>2 DEF NewSLA, handshake, TypeOK, PairStep, Kept
    <2> QED
        BY <2>1, <2>2
<1>2. CASE CountPacket(f, h, out)
    <2>1. CASE x = f /\ y = h
        BY <1>2, <2>1 DEF CountPacket, TypeOK, PairStep, Counted
    <2>2. CASE ~ (x = f /\ y = h)
        BY <1>2, <2>2 DEF CountPacket, TypeOK, PairStep, Kept
    <2> QED
        BY <2>1, <2>2
<1>3. CASE Settle(f, h, e, out)
    <2>0. PICK new \in {Rewritten(fwd[f][h], "Active", 0),
                        Rewritten(fwd[f][h], "Banned", fwd[f][h].count)} :
               fwd' = [fwd EXCEPT ![f][h] = new]
        BY <1>3 DEF Settle
    <2>1. CASE x = f /\ y = h
        <3>1. /\ Active(fwd[x][y])
              /\ fwd[x][y].count = fwd[x][y].threshold
            BY <1>3, <2>1 DEF Settle
        <3>2. fwd'[x][y] \in {Rewritten(fwd[x][y], "Active", 0),
                              Rewritten(fwd[x][y], "Banned", fwd[x][y].count)}
            BY <2>0, <2>1 DEF TypeOK
        <3>3. \/ home'[y][x] = home[y][x]
              \/ /\ Active(home[y][x])
                 /\ home'[y][x] = Rewritten(home[y][x], "Active", 0)
            BY <1>3, <2>1 DEF Settle, pay, Due, TypeOK
        <3> QED
            BY <3>1, <3>2, <3>3 DEF PairStep, Closed
    <2>2. CASE ~ (x = f /\ y = h)
        <3>1. fwd'[x][y] = fwd[x][y]
            BY <2>0, <2>2 DEF TypeOK
        <3>2. home'[y][x] = home[y][x]
            BY <1>3, <2>2 DEF Settle, pay, TypeOK
        <3> QED
            BY <3>1, <3>2 DEF PairStep, Kept
    <2> QED
        BY <2>1, <2>2
<1>4. CASE RefusePacket(f, h, out)
    BY <1>4 DEF RefusePacket, PairStep, Kept
<1> QED
    BY <1>1, <1>2, <1>3, <1>4 DEF sla_check

\* Every step of the contracts, seen from any pair.
LEMMA NextPair ==
    ASSUME TypeOK, [Next]_vars, NEW x \in Provider, NEW y \in Provider
    PROVE  PairStep(x, y)
<1>0. ASSUME UNCHANGED <<fwd, home>> PROVE PairStep(x, y)
    BY <1>0 DEF PairStep, Kept
<1>1. ASSUME NEW p \in Provider, CatalogNext(p) PROVE PairStep(x, y)
    BY <1>0, <1>1 DEF CatalogNext, contractVars
<1>2. ASSUME NEW p \in Provider, OwnerNext(p) PROVE PairStep(x, y)
    <2>1. CASE delete(p)
        BY <2>1, NoBoxType DEF delete, TypeOK, PairStep, Kept
    <2> QED
        BY <1>0, <1>2, <2>1 DEF OwnerNext, create, fund, init
<1>3. ASSUME NEW r \in Route, SLANext(r[1], r[2]) PROVE PairStep(x, y)
    <2> DEFINE f == r[1]
    <2> DEFINE h == r[2]
    <2>0. f \in Provider /\ h \in Provider
        BY ConstAssumption
    <2> HIDE DEF f, h
    <2>1. ASSUME NEW e \in {0, app[h]}, NEW out \in Verdict, sla_check(f, h, e, out)
          PROVE  PairStep(x, y)
        BY <2>0, <2>1, CheckPair
    <2>2. CASE deleteSLA_forward(f, h)
        BY <2>0, <2>2 DEF deleteSLA_forward, TypeOK, PairStep, Kept
    <2>3. CASE deleteSLA_home(h, f)
        BY <2>0, <2>3 DEF deleteSLA_home, TypeOK, PairStep, Kept
    <2>4. CASE receive_packet_from_forwarder(h, f)
        <3>1. CASE x = f /\ y = h
            <4>1. home[h][f].count \in Nat
                BY <2>0 DEF TypeOK, SLAEntry
            <4>2. home[h][f].count + 1 \in Nat
                BY <4>1, NatClosed, Zenon
            <4> QED
                BY <2>0, <2>4, <3>1, <4>2
                   DEF receive_packet_from_forwarder, TypeOK, PairStep, HomeChanged
        <3>2. CASE ~ (x = f /\ y = h)
            BY <2>0, <2>4, <3>2 DEF receive_packet_from_forwarder, TypeOK, PairStep, Kept
        <3> QED
            BY <3>1, <3>2
    <2>5. CASE ban_home_function(h, f)
        <3>1. CASE x = f /\ y = h
            <4>1. home[h][f].count \in Nat
                BY <2>0 DEF TypeOK, SLAEntry
            <4> QED
                BY <2>0, <2>5, <3>1, <4>1 DEF ban_home_function, TypeOK, PairStep, HomeChanged
        <3>2. CASE ~ (x = f /\ y = h)
            BY <2>0, <2>5, <3>2 DEF ban_home_function, TypeOK, PairStep, Kept
        <3> QED
            BY <3>1, <3>2
    <2> QED
        BY <1>3, <2>1, <2>2, <2>3, <2>4, <2>5 DEF SLANext, f, h
<1> QED
    BY <1>0, <1>1, <1>2, <1>3 DEF Next, vars
\* Agreement is preserved.
LEMMA AgreementStep ==
    ASSUME IInv, [Next]_vars
    PROVE  Agreement'
<1> SUFFICES ASSUME NEW x \in Provider, NEW y \in Provider,
                    Exists(fwd'[x][y]), Exists(home'[y][x])
             PROVE  /\ fwd'[x][y].price = home'[y][x].price
                    /\ fwd'[x][y].threshold = home'[y][x].threshold
                    /\ fwd'[x][y].access = home'[y][x].access
                    /\ fwd'[x][y].state = "Rejected" <=> home'[y][x].state = "Rejected"
    BY DEF Agreement, Exists
<1>1. PairStep(x, y)
    BY NextPair DEF IInv
<1>2. Exists(fwd[x][y]) /\ Exists(home[y][x]) =>
          /\ fwd[x][y].price = home[y][x].price
          /\ fwd[x][y].threshold = home[y][x].threshold
          /\ fwd[x][y].access = home[y][x].access
          /\ fwd[x][y].state = "Rejected" <=> home[y][x].state = "Rejected"
    BY DEF IInv, Agreement
<1>3. CASE Kept(x, y)
    BY <1>2, <1>3, NoBoxType DEF Kept
<1>4. CASE Created(x, y)
    BY <1>4 DEF Created
<1>5. CASE Counted(x, y)
    BY <1>2, <1>5 DEF Counted, Exists, Active, Rewritten
<1>6. CASE Closed(x, y)
    BY <1>2, <1>6 DEF Closed, Exists, Active, Rewritten
<1>7. CASE HomeChanged(x, y)
    BY <1>2, <1>7 DEF HomeChanged, Exists, Active, Rewritten
<1> QED
    BY <1>1, <1>3, <1>4, <1>5, <1>6, <1>7 DEF PairStep

\* So are the terms of active SLAs.
LEMMA ActiveTermsStep ==
    ASSUME IInv, [Next]_vars
    PROVE  ActiveTerms'
<1> SUFFICES ASSUME NEW x \in Provider, NEW y \in Provider, Active(fwd'[x][y])
             PROVE  /\ fwd'[x][y].count <= fwd'[x][y].threshold
                    /\ fwd'[x][y].threshold > 0
                    /\ fwd'[x][y].price > 0
                    /\ fwd'[x][y].access \in Access
    BY DEF ActiveTerms, Active
<1>1. PairStep(x, y)
    BY NextPair DEF IInv
<1>2. Active(fwd[x][y]) =>
          /\ fwd[x][y].count <= fwd[x][y].threshold
          /\ fwd[x][y].threshold > 0
          /\ fwd[x][y].price > 0
          /\ fwd[x][y].access \in Access
    BY DEF IInv, ActiveTerms
<1>0. fwd[x][y].count \in Nat /\ fwd[x][y].threshold \in Nat
    BY DEF IInv, TypeOK, SLAEntry
<1>3. CASE Kept(x, y)
    BY <1>2, <1>3, NoBoxType DEF Kept
<1>4. CASE Created(x, y)
    BY <1>4, NegotiatedTerms DEF Created
<1>5. CASE Counted(x, y)
    <2>1. /\ fwd'[x][y].count = fwd[x][y].count + 1
          /\ fwd'[x][y].threshold = fwd[x][y].threshold
          /\ fwd'[x][y].price = fwd[x][y].price
          /\ fwd'[x][y].access = fwd[x][y].access
        BY <1>5 DEF Counted, Rewritten
    <2>2. \A m, n \in Nat : m <= n /\ m # n => m + 1 <= n
        OBVIOUS
    <2>3. fwd[x][y].count + 1 <= fwd[x][y].threshold
        BY <1>0, <1>2, <1>5, <2>2, Zenon DEF Counted
    <2> QED
        BY <1>2, <1>5, <2>1, <2>3, Zenon DEF Counted
<1>6. CASE Closed(x, y)
    <2>1. /\ fwd'[x][y].count = 0
          /\ fwd'[x][y].threshold = fwd[x][y].threshold
          /\ fwd'[x][y].price = fwd[x][y].price
          /\ fwd'[x][y].access = fwd[x][y].access
        BY <1>6 DEF Closed, Active, Rewritten
    <2>2. \A n \in Nat : 0 <= n
        OBVIOUS
    <2> QED
        BY <1>0, <1>2, <1>6, <2>1, <2>2, Zenon DEF Closed
<1>7. CASE HomeChanged(x, y)
    BY <1>2, <1>7 DEF HomeChanged
<1> QED
    BY <1>1, <1>3, <1>4, <1>5, <1>6, <1>7 DEF PairStep

\* The conjunction is inductive.
LEMMA Inductive == IInv /\ [Next]_vars => IInv'
<1> SUFFICES ASSUME IInv, [Next]_vars PROVE IInv'
    OBVIOUS
<1>1. TypeOK'
    BY TypeStep DEF IInv
<1> QED
    BY <1>1, ConfigStep, AgreementStep, ActiveTermsStep DEF IInv
-----------------------------------------------------------------------------
(* The results.                                                            *)

\* The inductive invariant holds in every reachable state.
THEOREM Invariance == Spec => []IInv
BY InitInv, Inductive, PTL DEF Spec

\* Forwarder and home always agree on what they agreed on: see Agreement.
THEOREM AgreementHolds == Spec => []Agreement
<1>1. IInv => Agreement
    BY DEF IInv
<1> QED
    BY <1>1, Invariance, PTL

\* An active SLA has positive terms and never counts past its threshold: see
\* ActiveTerms.
THEOREM ActiveTermsHold == Spec => []ActiveTerms
<1>1. IInv => ActiveTerms
    BY DEF IInv
<1> QED
    BY <1>1, Invariance, PTL

\* A ban or a refusal is not lifted by one side alone: see NoRevival.
THEOREM NoRevivalHolds == Spec => NoRevival
<1>1. ASSUME TypeOK, [Next]_vars
      PROVE  \A f, h \in Provider :
                 Active(fwd'[f][h]) /\ ~ Active(fwd[f][h]) =>
                     ~ Exists(fwd[f][h]) /\ ~ Exists(home[h][f])
    <2> SUFFICES ASSUME NEW x \in Provider, NEW y \in Provider,
                        Active(fwd'[x][y]), ~ Active(fwd[x][y])
                 PROVE  ~ Exists(fwd[x][y]) /\ ~ Exists(home[y][x])
        OBVIOUS
    <2>1. PairStep(x, y)
        BY <1>1, NextPair
    <2> QED
        BY <2>1, NoBoxType DEF PairStep, Kept, Created, Counted, Closed, HomeChanged
<1>2. TypeOK /\ [Next]_vars =>
          [\A f, h \in Provider :
                Active(fwd'[f][h]) /\ ~ Active(fwd[f][h]) =>
                    ~ Exists(fwd[f][h]) /\ ~ Exists(home[h][f])]_vars
    BY <1>1
<1> QED
    BY <1>2, TypeCorrect, PTL DEF Spec, NoRevival
\* The state function whose truth PaymentClosesCycle asks of every step that
\* takes money from h.
ClosedBy(f, h) ==
    /\ fwd[f][h].count = fwd[f][h].threshold
    /\ funds[h] - funds'[h] = fwd[f][h].price
    /\ Active(fwd'[f][h]) /\ fwd'[f][h].count = 0
    /\ Active(home'[h][f]) /\ home'[h][f].count = 0

\* A settlement that takes money from h0 closes the cycle of its pair: what
\* the home sends is what the forwarder agreed to, by Agreement, and that is
\* enough, because the payment tolerance is a percentage.
LEMMA SettlementCloses ==
    ASSUME IInv, NEW f \in Provider, NEW h \in Provider, NEW e, NEW out,
           Settle(f, h, e, out), NEW z \in Provider, funds'[z] < funds[z]
    PROVE  z = h /\ ClosedBy(f, h)
<1>1. /\ fwd[f][h] \in SLAEntry /\ home[h][f] \in SLAEntry
      /\ funds \in [Provider -> Nat]
    BY DEF IInv, TypeOK
<1>2. /\ Active(fwd[f][h])
      /\ fwd[f][h].count = fwd[f][h].threshold
      /\ Exists(home[h][f])
      /\ funds' = [funds EXCEPT ![h] = @ - Amount(f, h)]
      /\ funds[h] >= Amount(f, h)
    BY DEF Settle, pay
<1>3. Amount(f, h) \in Nat
    BY <1>1 DEF Amount, SLAEntry
<1>4. z = h /\ Amount(f, h) # 0
    <2> DEFINE a == Amount(f, h)
    <2>1. a \in Nat /\ funds' = [funds EXCEPT ![h] = @ - a]
        BY <1>2, <1>3
    <2> HIDE DEF a
    <2>2. z = h /\ a # 0
        BY <1>1, <2>1
    <2> QED
        BY <2>2 DEF a
<1>5. Due(f, h) /\ Amount(f, h) = home[h][f].price
    BY <1>4 DEF Amount
<1>6. home[h][f].price = fwd[f][h].price
    BY <1>2 DEF IInv, Agreement, Active, Exists
<1>7. MinExpected(f, h) \in Nat /\ MinExpected(f, h) <= fwd[f][h].price
    <2>1. cfg[f].payTolerance \in Nat /\ cfg[f].payTolerance <= 100
        BY ConstAssumption DEF Settle, pay, AcceptsCaller, IInv, ConfigSound, TypeOK, GlobalState
    <2>2. fwd[f][h].price \in Nat
        BY <1>1 DEF SLAEntry
    <2> QED
        BY <2>1, <2>2, PercentBound DEF MinExpected
<1>8. Amount(f, h) >= MinExpected(f, h)
    <2>1. fwd[f][h].price \in Nat
        BY <1>1 DEF SLAEntry
    <2>2. \A m, n \in Nat : m <= n => n >= m
        OBVIOUS
    <2> QED
        BY <1>3, <1>5, <1>6, <1>7, <2>2, Zenon
<1>9. fwd' = [fwd EXCEPT ![f][h] = Rewritten(@, "Active", 0)]
    BY <1>8 DEF Settle
<1>10. home' = [home EXCEPT ![h][f] = Rewritten(@, "Active", 0)]
    BY <1>5 DEF Settle, pay
<1>11. fwd'[f][h] = Rewritten(fwd[f][h], "Active", 0)
    BY <1>9 DEF IInv, TypeOK
<1>12. home'[h][f] = Rewritten(home[h][f], "Active", 0)
    BY <1>10 DEF IInv, TypeOK
<1>13. funds[h] - funds'[h] = fwd[f][h].price
    <2> DEFINE a == Amount(f, h)
    <2>1. a \in Nat /\ funds' = [funds EXCEPT ![h] = @ - a] /\ a = fwd[f][h].price
        BY <1>2, <1>3, <1>5, <1>6
    <2> HIDE DEF a
    <2>2. funds[h] - funds'[h] = a
        BY <1>1, <2>1
    <2> QED
        BY <2>1, <2>2
<1> QED
    BY <1>2, <1>4, <1>11, <1>12, <1>13 DEF ClosedBy, Active, Rewritten

\* Money leaves a contract account only to close a cycle on both sides: see
\* PaymentClosesCycle.
THEOREM PaymentClosesCycleHolds == Spec => PaymentClosesCycle
<1>1. ASSUME IInv, [Next]_vars, NEW z \in Provider, app'[z] = app[z], funds'[z] < funds[z]
      PROVE  \E f \in Provider : ClosedBy(f, z)
    <2>0. funds[z] \in Nat
        BY <1>1 DEF IInv, TypeOK
    <2>1. funds' # funds
        BY <1>1, <2>0
    <2>2. ASSUME NEW p \in Provider, NEW n \in Deposit, fund(p, n) PROVE FALSE
        <3>1. n \in Nat /\ funds' = [funds EXCEPT ![p] = @ + n]
            BY <2>2, ConstAssumption DEF fund
        <3> QED
            BY <1>1, <2>0, <3>1 DEF IInv, TypeOK
    <2>3. ASSUME NEW p \in Provider, delete(p) PROVE FALSE
        BY <1>1, <2>0, <2>3 DEF delete, IInv, TypeOK
    <2>4. ASSUME NEW r \in Route, NEW e, NEW out, sla_check(r[1], r[2], e, out)
          PROVE  \E f \in Provider : ClosedBy(f, z)
        <3>1. r[1] \in Provider /\ r[2] \in Provider
            BY ConstAssumption
        <3>2. Settle(r[1], r[2], e, out)
            BY <2>1, <2>4 DEF sla_check, NewSLA, CountPacket, RefusePacket
        <3> QED
            BY <1>1, <3>1, <3>2, SettlementCloses
    <2> QED
        BY <1>1, <2>1, <2>2, <2>3, <2>4
           DEF Next, vars, CatalogNext, contractVars, OwnerNext, create, init, SLANext,
               deleteSLA_forward, deleteSLA_home, receive_packet_from_forwarder,
               ban_home_function
<1>2. IInv /\ [Next]_vars =>
          [\A h \in Provider :
              app'[h] = app[h] /\ funds'[h] < funds[h] =>
                  \E f \in Provider :
                      /\ fwd[f][h].count = fwd[f][h].threshold
                      /\ funds[h] - funds'[h] = fwd[f][h].price
                      /\ Active(fwd'[f][h]) /\ fwd'[f][h].count = 0
                      /\ Active(home'[h][f]) /\ home'[h][f].count = 0]_vars
    BY <1>1 DEF ClosedBy
<1> QED
    BY <1>2, Invariance, PTL DEF Spec, PaymentClosesCycle
-----------------------------------------------------------------------------
(* The contracts implement SLADecision.                                    *)

\* The states of the forward boxes, as SLADecision sees them.
Abs == [f \in Provider |-> [h \in Provider |-> fwd[f][h].state]]

\* Writing one box changes one state.
LEMMA AbsWrite ==
    ASSUME TypeOK, NEW f \in Provider, NEW h \in Provider, NEW b \in SLAEntry,
           fwd' = [fwd EXCEPT ![f][h] = b]
    PROVE  Abs' = [Abs EXCEPT ![f][h] = b.state]
BY DEF Abs, TypeOK

\* A write that keeps the state of the box is not seen.
LEMMA AbsKept ==
    ASSUME TypeOK, NEW f \in Provider, NEW h \in Provider, NEW b \in SLAEntry,
           fwd' = [fwd EXCEPT ![f][h] = b], b.state = fwd[f][h].state
    PROVE  Abs' = Abs
BY DEF Abs, TypeOK

\* sla_check answers as SLADecision allows and changes the state accordingly.
LEMMA CheckRefines ==
    ASSUME TypeOK, NEW f \in Provider, NEW h \in Provider, NEW e, NEW out,
           sla_check(f, h, e, out)
    PROVE  Decision!Ask(f, h, out)
<1> DEFINE box == fwd[f][h]
<1>1. box \in SLAEntry /\ Abs[f][h] = box.state
    BY DEF TypeOK, Abs
<1>2. CASE NewSLA(f, h, e, out)
    <2>1. Negotiated(f, h) \in SLAEntry
        BY NegotiatedType
    <2>2. Abs' = [Abs EXCEPT ![f][h] = out]
        <3>1. fwd' = [fwd EXCEPT ![f][h] = Negotiated(f, h)] /\ out = Negotiated(f, h).state
            BY <1>2 DEF NewSLA
        <3>2. Abs' = [Abs EXCEPT ![f][h] = Negotiated(f, h).state]
            BY <2>1, <3>1, AbsWrite
        <3> QED
            BY <3>1, <3>2
    <2>3. out \in {"Active", "Rejected"} /\ Abs[f][h] = "NoBox"
        BY <1>1, <1>2 DEF NewSLA, Negotiated, Exists
    <2> QED
        BY <2>2, <2>3 DEF Decision!Ask, Decision!Negotiate, Abs
<1>3. CASE CountPacket(f, h, out)
    <2>1. Rewritten(box, "Active", box.count + 1) \in SLAEntry
        <3>1. box.count + 1 \in Nat
            BY <1>1, NatClosed, Zenon DEF SLAEntry
        <3> QED
            BY <1>1, <3>1, RewrittenType DEF SLAState
    <2>2. Rewritten(box, "Active", box.count + 1).state = box.state
        BY <1>3 DEF CountPacket, Active, Rewritten
    <2>3. Abs[f][h] = "Active" /\ out = "Accept"
        BY <1>1, <1>3 DEF CountPacket, Active
    <2>4. Abs' = Abs
        BY <1>3, <2>1, <2>2, AbsKept DEF CountPacket
    <2> QED
        BY <2>3, <2>4 DEF Decision!Ask, Decision!Grant, Abs
<1>4. CASE Settle(f, h, e, out)
    <2>1. Abs[f][h] = "Active"
        BY <1>1, <1>4 DEF Settle, Active
    <2>2. \/ out = "Accept" /\ fwd' = [fwd EXCEPT ![f][h] = Rewritten(box, "Active", 0)]
          \/ out = "Reject" /\ fwd' = [fwd EXCEPT ![f][h] = Rewritten(box, "Banned", box.count)]
        BY <1>4 DEF Settle
    <2>3. CASE out = "Accept" /\ fwd' = [fwd EXCEPT ![f][h] = Rewritten(box, "Active", 0)]
        <3>1. Rewritten(box, "Active", 0) \in SLAEntry
            BY <1>1, RewrittenType DEF SLAState
        <3>2. Rewritten(box, "Active", 0).state = box.state
            BY <1>1, <2>1 DEF Rewritten
        <3>3. Abs' = Abs
            BY <2>3, <3>1, <3>2, AbsKept
        <3> QED
            BY <2>1, <2>3, <3>3 DEF Decision!Ask, Decision!Grant, Abs
    <2>4. CASE out = "Reject" /\ fwd' = [fwd EXCEPT ![f][h] = Rewritten(box, "Banned", box.count)]
        <3>1. Rewritten(box, "Banned", box.count) \in SLAEntry
            BY <1>1, RewrittenType DEF SLAState, SLAEntry
        <3>2. Abs' = [Abs EXCEPT ![f][h] = "Banned"]
            BY <2>4, <3>1, AbsWrite DEF Rewritten
        <3> QED
            BY <2>1, <2>4, <3>2 DEF Decision!Ask, Decision!Expel, Abs
    <2> QED
        BY <2>2, <2>3, <2>4
<1>5. CASE RefusePacket(f, h, out)
    <2>1. Abs[f][h] \in {"Rejected", "Banned"} /\ out = "Reject" /\ Abs' = Abs
        BY <1>1, <1>5 DEF RefusePacket, Active, Exists, SLAEntry, SLAState, Abs
    <2> QED
        BY <2>1 DEF Decision!Ask, Decision!Refuse, Abs
<1> QED
    BY <1>2, <1>3, <1>4, <1>5 DEF sla_check

\* Every step is a step of SLADecision or leaves its state alone.
LEMMA StepRefines ==
    ASSUME TypeOK, [Next]_vars
    PROVE  [Decision!DecisionNext]_Abs
<1>1. ASSUME NEW p \in Provider, delete(p) PROVE Decision!DecisionNext
    <2>1. Abs' = [Abs EXCEPT ![p] = [h \in Provider |-> "NoBox"]]
        BY <1>1 DEF delete, Abs, NoBoxes, NoBox, TypeOK
    <2> QED
        BY <2>1 DEF Decision!DecisionNext, Decision!DropAll, Abs
<1>2. ASSUME NEW f \in Provider, NEW h \in Provider, NEW e, NEW out \in Verdict,
             sla_check(f, h, e, out)
      PROVE  Decision!DecisionNext
    BY <1>2, CheckRefines DEF Verdict, Decision!DecisionNext, Decision!Answers
<1>3. ASSUME NEW f \in Provider, NEW h \in Provider, deleteSLA_forward(f, h)
      PROVE  Decision!DecisionNext
    <2>1. Abs' = [Abs EXCEPT ![f][h] = "NoBox"]
        BY <1>3, NoBoxType, AbsWrite DEF deleteSLA_forward, NoBox
    <2> QED
        BY <2>1 DEF Decision!DecisionNext, Decision!Drop, Abs
<1>4. CASE UNCHANGED fwd
    BY <1>4 DEF Abs
<1>5. \/ UNCHANGED fwd
      \/ \E p \in Provider : delete(p)
      \/ \E r \in Route :
            \/ \E e \in {0, app[r[2]]}, out \in Verdict : sla_check(r[1], r[2], e, out)
            \/ deleteSLA_forward(r[1], r[2])
    BY DEF Next, CatalogNext, OwnerNext, SLANext, vars, contractVars, create, fund, init,
       deleteSLA_home, receive_packet_from_forwarder, ban_home_function
<1>6. \A r \in Route : r[1] \in Provider /\ r[2] \in Provider
    BY ConstAssumption
<1> QED
    BY <1>1, <1>2, <1>3, <1>4, <1>5, <1>6

\* The contracts implement SLADecision.
THEOREM ImplementsHolds == Spec => Implements
<1>1. Init => Decision!DecisionInit
    BY DEF Init, NoBoxes, NoBox, Decision!DecisionInit
<1>2. TypeOK /\ [Next]_vars => [Decision!DecisionNext]_Abs
    BY StepRefines
<1> QED
    BY <1>1, <1>2, TypeCorrect, PTL DEF Spec, Implements, Decision!DecisionSpec, Abs
-----------------------------------------------------------------------------
(* The books of an auditor.                                                *)

HistoryType ==
    /\ accepted \in [Provider -> [Provider -> Nat]]
    /\ settled \in [Provider -> [Provider -> Nat]]
    /\ earned \in [Provider -> [Provider -> Nat]]
    /\ afterBan \in [Provider -> [Provider -> Nat]]

(* The terms of a contract are those of some call of init.                 *)
ConfigKnown == \A p \in Provider : cfg[p] = Uninitialized \/ cfg[p] \in Config

(* What the books of a pair say, with forward box b; ha says that the home's *)
(* box is active, and the naturals are the values of the history.            *)

\* No box grants past its threshold, and nothing is recorded under a box that
\* granted nothing.
Sound(b, acc, set, ear, aft) ==
    /\ b.count <= b.threshold
    /\ b.state \in {"NoBox", "Rejected"} =>
          acc = 0 /\ set = 0 /\ ear = 0 /\ aft = 0 /\ b.count = 0

\* Accounting, for one pair, and where the price comes from.
Balanced(b, acc, set, ear) ==
    b.state \in {"Active", "Banned"} =>
        /\ acc = set * (b.threshold + 1) + b.count + 1
        /\ Collectable => ear = set * b.price
        /\ \E c \in Config : b.price = c.price

\* Packets after a ban by the home are packets of the present cycle: a home that
\* has not banned the forwarder has seen none, and a cycle that ends without
\* payment is the last.
BanCounted(b, ha, aft) ==
    /\ ha => aft = 0
    /\ Collectable => aft <= b.count

Books(b, ha, acc, set, ear, aft) ==
    Sound(b, acc, set, ear, aft) /\ Balanced(b, acc, set, ear) /\ BanCounted(b, ha, aft)

PairBooks(f, h) ==
    Books(fwd[f][h], Active(home[h][f]), accepted[f][h], settled[f][h], earned[f][h],
          afterBan[f][h])

AInv == IInv /\ ConfigKnown /\ HistoryType /\ \A f, h \in Provider : PairBooks(f, h)

\* The history variables only record: a step with them is a step without them.
LEMMA AuditIsNext == [AuditNext]_auditVars => [Next]_vars
<1> SUFFICES ASSUME AuditNext PROVE Next
    BY DEF auditVars
<1>1. ASSUME NEW p \in Provider, AuditOwner(p) \/ AuditDelete(p) PROVE Next
    BY <1>1 DEF AuditOwner, AuditDelete, Next, OwnerNext
<1>2. ASSUME NEW r \in Route, NEW e \in {0, app[r[2]]}, NEW out \in Verdict,
             AuditCheck(r[1], r[2], e, out)
      PROVE  Next
    BY <1>2 DEF AuditCheck, Next, SLANext
<1>3. ASSUME NEW r \in Route, AuditDeleteForward(r[1], r[2]) \/ AuditHome(r[1], r[2]) PROVE Next
    BY <1>3 DEF AuditDeleteForward, AuditHome, Next, SLANext
<1> QED
    BY <1>1, <1>2, <1>3 DEF AuditNext

LEMMA ConfigKnownStep ==
    ASSUME AInv, [Next]_vars
    PROVE  ConfigKnown'
<1>1. CASE UNCHANGED cfg
    BY <1>1 DEF AInv, ConfigKnown
<1>2. ASSUME NEW p \in Provider, NEW c \in Config, init(p, c) PROVE ConfigKnown'
    BY <1>2 DEF init, AInv, IInv, TypeOK, ConfigKnown
<1>3. ASSUME NEW p \in Provider, delete(p) PROVE ConfigKnown'
    BY <1>3 DEF delete, AInv, IInv, TypeOK, ConfigKnown
<1> QED
    BY <1>1, <1>2, <1>3
       DEF Next, vars, CatalogNext, contractVars, OwnerNext, create, fund, SLANext, sla_check,
           deleteSLA_forward, deleteSLA_home, receive_packet_from_forwarder, ban_home_function

(* Arithmetic of the books.                                                *)

\* One more cycle of t + 1 packets, and one more price.
LEMMA OneMoreCycle ==
    ASSUME NEW s \in Nat, NEW t \in Nat, NEW p \in Nat
    PROVE  /\ (s * (t + 1) + t + 1) + 1 = (s + 1) * (t + 1) + 0 + 1
           /\ s * p + p = (s + 1) * p
BY Z3

\* The unpaid packets of a pair whose books balance cost at most one price.
LEMMA CreditArithmetic ==
    ASSUME NEW s \in Nat, NEW t \in Nat, NEW p \in Nat, NEW c \in Nat, c <= t
    PROVE  p * (s * (t + 1) + c + 1) <= (s * p + p) * (t + 1)
<1>1. p * (s * (t + 1) + c + 1) = p * (s * (t + 1)) + p * (c + 1)
    BY Z3
<1>2. (s * p + p) * (t + 1) = p * (s * (t + 1)) + p * (t + 1)
    BY Z3
<1>3. p * (c + 1) <= p * (t + 1)
    BY Z3
<1>4. p * (s * (t + 1)) \in Nat /\ p * (c + 1) \in Nat /\ p * (t + 1) \in Nat
    BY Z3
<1> QED
    BY <1>1, <1>2, <1>3, <1>4

(* What a step may do to the books of the pair x, y.                       *)

\* The history of the pair is that of acc, set, ear and aft.
Recorded(x, y, acc, set, ear, aft) ==
    /\ accepted'[x][y] = acc
    /\ settled'[x][y] = set
    /\ earned'[x][y] = ear
    /\ afterBan'[x][y] = aft

SameRecord(x, y) ==
    Recorded(x, y, accepted[x][y], settled[x][y], earned[x][y], afterBan[x][y])

\* The forward box stays, and the home's box does not become active.
Untouched(x, y) ==
    /\ fwd'[x][y] = fwd[x][y]
    /\ Active(home'[y][x]) => Active(home[y][x])
    /\ SameRecord(x, y)

\* The forward box goes.
Dropped(x, y) ==
    /\ fwd'[x][y] = NoBox
    /\ Recorded(x, y, 0, 0, 0, 0)

\* The SLA is negotiated; the first packet is granted with it or refused.
Opened(x, y) ==
    /\ ~ Exists(fwd[x][y])
    /\ \E e : AcceptsCaller(x, y, e)
    /\ fwd'[x][y] = Negotiated(x, y)
    /\ Recorded(x, y, IF Compatible(x, y) THEN accepted[x][y] + 1 ELSE accepted[x][y],
                settled[x][y], earned[x][y], afterBan[x][y])

\* A packet is counted; afterBan counts it if the home banned the forwarder.
Ticked(x, y) ==
    /\ Active(fwd[x][y])
    /\ fwd[x][y].count # fwd[x][y].threshold
    /\ fwd'[x][y] = Rewritten(fwd[x][y], "Active", fwd[x][y].count + 1)
    /\ Active(home'[y][x]) => Active(home[y][x])
    /\ Recorded(x, y, accepted[x][y] + 1, settled[x][y], earned[x][y],
                IF home[y][x].state = "Banned" THEN afterBan[x][y] + 1 ELSE afterBan[x][y])

\* A cycle is closed; with collectable terms, by the price and by a home that
\* has not banned the forwarder.
Renewed(x, y) ==
    /\ Active(fwd[x][y])
    /\ fwd[x][y].count = fwd[x][y].threshold
    /\ fwd'[x][y] = Rewritten(fwd[x][y], "Active", 0)
    /\ Active(home'[y][x]) => Active(home[y][x])
    /\ Collectable => Active(home[y][x])
    /\ \E ear \in Nat, aft \in Nat :
          /\ Collectable => ear = earned[x][y] + fwd[x][y].price
          /\ Active(home[y][x]) => aft = afterBan[x][y]
          /\ Recorded(x, y, accepted[x][y] + 1, settled[x][y] + 1, ear, aft)

\* The forwarder bans the home: nothing was paid and nothing is granted.
Expelled(x, y) ==
    /\ Active(fwd[x][y])
    /\ fwd'[x][y] = Rewritten(fwd[x][y], "Banned", fwd[x][y].count)
    /\ Active(home'[y][x]) => Active(home[y][x])
    /\ SameRecord(x, y)

BookStep(x, y) ==
    \/ Untouched(x, y)
    \/ Dropped(x, y)
    \/ Opened(x, y)
    \/ Ticked(x, y)
    \/ Renewed(x, y)
    \/ Expelled(x, y)

\* Each of them keeps the books.
LEMMA BooksKept ==
    ASSUME AInv, NEW x \in Provider, NEW y \in Provider, BookStep(x, y)
    PROVE  PairBooks(x, y)'
<1> DEFINE b == fwd[x][y]
           ha == Active(home[y][x])
           acc == accepted[x][y]
           set == settled[x][y]
           ear == earned[x][y]
           aft == afterBan[x][y]
<1>0. /\ b \in SLAEntry /\ b.count \in Nat /\ b.threshold \in Nat /\ b.price \in Nat
      /\ acc \in Nat /\ set \in Nat /\ ear \in Nat /\ aft \in Nat
    BY DEF AInv, IInv, TypeOK, SLAEntry, HistoryType
<1>00. Books(b, ha, acc, set, ear, aft)
    BY DEF AInv, PairBooks
<1>000. SUFFICES ASSUME NEW b1, b1 = fwd'[x][y], NEW h1, h1 = Active(home'[y][x]),
                        NEW acc1, acc1 = accepted'[x][y], NEW set1, set1 = settled'[x][y],
                        NEW ear1, ear1 = earned'[x][y], NEW aft1, aft1 = afterBan'[x][y]
                 PROVE  Books(b1, h1, acc1, set1, ear1, aft1)
    <2>1. Books(fwd'[x][y], Active(home'[y][x]), accepted'[x][y], settled'[x][y],
                earned'[x][y], afterBan'[x][y])
        BY <1>000
    <2> QED
        BY <2>1 DEF PairBooks, Books, Sound, Balanced, BanCounted, Active, Collectable
<1>1. CASE Untouched(x, y)
    BY <1>00, <1>000, <1>1
       DEF Untouched, SameRecord, Recorded, Books, Sound, Balanced, BanCounted
<1>2. CASE Dropped(x, y)
    <2>1. b1 = NoBox /\ acc1 = 0 /\ set1 = 0 /\ ear1 = 0 /\ aft1 = 0
        BY <1>000, <1>2 DEF Dropped, Recorded
    <2> QED
        BY <2>1 DEF NoBox, Books, Sound, Balanced, BanCounted
<1>3. CASE Opened(x, y)
    <2>1. acc = 0 /\ set = 0 /\ ear = 0 /\ aft = 0
        BY <1>00, <1>3 DEF Opened, Exists, Books, Sound
    <2>2. /\ b1 = Negotiated(x, y) /\ set1 = 0 /\ ear1 = 0 /\ aft1 = 0
          /\ acc1 = IF Compatible(x, y) THEN 1 ELSE 0
        BY <1>000, <1>3, <2>1 DEF Opened, Recorded
    <2>3. /\ b1.count = 0 /\ b1.threshold \in Nat /\ b1.price = cfg[x].price
          /\ b1.price \in Nat
          /\ b1.state = IF Compatible(x, y) THEN "Active" ELSE "Rejected"
        BY <2>2 DEF Negotiated, AInv, IInv, TypeOK, GlobalState
    <2>4. \E c \in Config : b1.price = c.price
        <3>1. cfg[x] # Uninitialized
            BY <1>3, ConstAssumption, UninitializedType DEF Opened, AcceptsCaller
        <3> QED
            BY <2>3, <3>1 DEF AInv, ConfigKnown
    <2>5. Sound(b1, acc1, set1, ear1, aft1)
        BY <2>2, <2>3 DEF Sound
    <2>6. Balanced(b1, acc1, set1, ear1)
        BY <2>2, <2>3, <2>4 DEF Balanced
    <2> QED
        BY <2>2, <2>3, <2>5, <2>6 DEF Books, BanCounted
<1>4. CASE Ticked(x, y)
    <2>1. /\ b1.count = b.count + 1 /\ b1.threshold = b.threshold /\ b1.price = b.price
          /\ b1.state = "Active" /\ b.state = "Active" /\ b.count # b.threshold
        BY <1>000, <1>4 DEF Ticked, Rewritten, Active
    <2>2. /\ acc1 = acc + 1 /\ set1 = set /\ ear1 = ear
          /\ aft1 = IF home[y][x].state = "Banned" THEN aft + 1 ELSE aft
        BY <1>000, <1>4 DEF Ticked, Recorded
    <2>3. h1 => ha /\ home[y][x].state # "Banned"
        BY <1>000, <1>4 DEF Ticked, Active
    <2>4. Sound(b1, acc1, set1, ear1, aft1)
        BY <1>0, <1>00, <2>1 DEF Books, Sound
    <2>5. Balanced(b1, acc1, set1, ear1)
        <3>1. acc = set * (b.threshold + 1) + b.count + 1
            BY <1>00, <2>1 DEF Books, Balanced
        <3>2. set * (b.threshold + 1) \in Nat
            BY <1>0, Z3
        <3>3. acc1 = set1 * (b1.threshold + 1) + b1.count + 1
            BY <1>0, <2>1, <2>2, <3>1, <3>2
        <3> QED
            BY <1>00, <2>1, <2>2, <3>3 DEF Books, Balanced
    <2>6. BanCounted(b1, h1, aft1)
        BY <1>0, <1>00, <2>1, <2>2, <2>3 DEF Books, BanCounted
    <2> QED
        BY <2>4, <2>5, <2>6 DEF Books
<1>5. CASE Renewed(x, y)
    <2>1. /\ b1.count = 0 /\ b1.threshold = b.threshold /\ b1.price = b.price
          /\ b1.state = "Active" /\ b.state = "Active" /\ b.count = b.threshold
        BY <1>000, <1>5 DEF Renewed, Rewritten, Active
    <2>2. /\ acc1 = acc + 1 /\ set1 = set + 1 /\ ear1 \in Nat /\ aft1 \in Nat
          /\ Collectable => ear1 = ear + b.price
          /\ ha => aft1 = aft
        BY <1>000, <1>5 DEF Renewed, Recorded
    <2>3. (h1 => ha) /\ (Collectable => ha)
        BY <1>000, <1>5 DEF Renewed
    <2>4. Sound(b1, acc1, set1, ear1, aft1)
        BY <1>0, <2>1 DEF Sound
    <2>5. Balanced(b1, acc1, set1, ear1)
        <3>1. acc = set * (b.threshold + 1) + b.threshold + 1
            BY <1>00, <2>1 DEF Books, Balanced
        <3>2. acc1 = set1 * (b1.threshold + 1) + b1.count + 1
            <4>1. (set * (b.threshold + 1) + b.threshold + 1) + 1
                      = (set + 1) * (b.threshold + 1) + 0 + 1
                BY <1>0, OneMoreCycle
            <4> QED
                BY <2>1, <2>2, <3>1, <4>1
        <3>3. ASSUME Collectable PROVE ear1 = set1 * b1.price
            <4>1. ear = set * b.price /\ ear1 = ear + b.price
                BY <1>00, <2>1, <2>2, <3>3 DEF Books, Balanced
            <4>2. set * b.price + b.price = (set + 1) * b.price
                BY <1>0, OneMoreCycle
            <4> QED
                BY <2>1, <2>2, <4>1, <4>2
        <3> QED
            BY <1>00, <2>1, <3>2, <3>3 DEF Books, Balanced
    <2>6. BanCounted(b1, h1, aft1)
        BY <1>0, <1>00, <2>1, <2>2, <2>3 DEF Books, BanCounted
    <2> QED
        BY <2>4, <2>5, <2>6 DEF Books
<1>6. CASE Expelled(x, y)
    <2>1. /\ b1.count = b.count /\ b1.threshold = b.threshold /\ b1.price = b.price
          /\ b1.state = "Banned" /\ b.state = "Active"
        BY <1>000, <1>6 DEF Expelled, Rewritten, Active
    <2>2. /\ acc1 = acc /\ set1 = set /\ ear1 = ear /\ aft1 = aft
          /\ h1 => ha
        BY <1>000, <1>6 DEF Expelled, SameRecord, Recorded
    <2> QED
        BY <1>00, <2>1, <2>2 DEF Books, Sound, Balanced, BanCounted
<1> QED
    BY <1>1, <1>2, <1>3, <1>4, <1>5, <1>6 DEF BookStep

\* Writing one entry of a history variable.
LEMMA WriteRecord ==
    ASSUME NEW r \in [Provider -> [Provider -> Nat]], NEW f \in Provider, NEW h \in Provider,
           NEW n \in Nat, NEW x \in Provider, NEW y \in Provider
    PROVE  /\ [r EXCEPT ![f][h] = n] \in [Provider -> [Provider -> Nat]]
           /\ [r EXCEPT ![f][h] = n][x][y] = IF x = f /\ y = h THEN n ELSE r[x][y]
OBVIOUS

\* With collectable terms, the forwarder expects more than nothing.
LEMMA ExpectsMore ==
    ASSUME AInv, Collectable, NEW f \in Provider, NEW h \in Provider,
           Active(fwd[f][h]), cfg[f].catalog # 0
    PROVE  MinExpected(f, h) > 0
<1>1. \E c \in Config : fwd[f][h].price = c.price
    BY DEF AInv, PairBooks, Books, Balanced, Active
<1>2. cfg[f] \in Config
    BY UninitializedType DEF AInv, ConfigKnown
<1> QED
    BY <1>1, <1>2 DEF Collectable, MinExpected

\* What a settlement of f and h moves: the price or nothing, and with collectable
\* terms the price exactly if the forwarder takes it for a payment.
LEMMA SettleMoves ==
    ASSUME AInv, NEW f \in Provider, NEW h \in Provider, NEW e, NEW out,
           Settle(f, h, e, out)
    PROVE  /\ funds[h] - funds'[h] = Amount(f, h)
           /\ Amount(f, h) \in Nat
           /\ Amount(f, h) # 0 => Amount(f, h) = fwd[f][h].price /\ Active(home[h][f])
           /\ Amount(f, h) = fwd[f][h].price => Amount(f, h) >= MinExpected(f, h)
           /\ MinExpected(f, h) \in Nat
           /\ Collectable => MinExpected(f, h) > 0
<1>1. /\ fwd[f][h] \in SLAEntry /\ home[h][f] \in SLAEntry /\ funds \in [Provider -> Nat]
    BY DEF AInv, IInv, TypeOK
<1>2. /\ Active(fwd[f][h]) /\ Exists(home[h][f]) /\ cfg[f].catalog # 0
      /\ funds' = [funds EXCEPT ![h] = @ - Amount(f, h)]
    BY ConstAssumption DEF Settle, pay, AcceptsCaller
<1>3. Amount(f, h) \in Nat
    BY <1>1 DEF Amount, SLAEntry
<1>4. funds[h] - funds'[h] = Amount(f, h)
    <2> DEFINE a == Amount(f, h)
    <2>1. a \in Nat /\ funds' = [funds EXCEPT ![h] = @ - a]
        BY <1>2, <1>3
    <2> HIDE DEF a
    <2>2. funds[h] - funds'[h] = a
        BY <1>1, <2>1
    <2> QED
        BY <2>2 DEF a
<1>5. home[h][f].price = fwd[f][h].price
    BY <1>2 DEF AInv, IInv, Agreement, Active, Exists
<1>6. Amount(f, h) # 0 => Amount(f, h) = fwd[f][h].price /\ Active(home[h][f])
    BY <1>5 DEF Amount, Due
<1>7. MinExpected(f, h) \in Nat /\ MinExpected(f, h) <= fwd[f][h].price
    <2>1. cfg[f].payTolerance \in Nat /\ cfg[f].payTolerance <= 100
        BY <1>2 DEF AInv, IInv, ConfigSound, TypeOK, GlobalState
    <2>2. fwd[f][h].price \in Nat
        BY <1>1 DEF SLAEntry
    <2> QED
        BY <2>1, <2>2, PercentBound DEF MinExpected
<1>8. Amount(f, h) = fwd[f][h].price => Amount(f, h) >= MinExpected(f, h)
    <2>1. \A m, n \in Nat : m <= n => n >= m
        OBVIOUS
    <2> QED
        BY <1>3, <1>7, <2>1, Zenon
<1>9. Collectable => MinExpected(f, h) > 0
    BY <1>2, ExpectsMore
<1> QED
    BY <1>3, <1>4, <1>6, <1>7, <1>8, <1>9

\* What an audited check records, for its own pair and for any other.
LEMMA CheckRecords ==
    ASSUME AInv, NEW f \in Provider, NEW h \in Provider, NEW e, NEW out,
           AuditCheck(f, h, e, out), NEW m \in Nat, m = funds[h] - funds'[h]
    PROVE  /\ HistoryType'
           /\ Recorded(f, h, IF Granted(out) THEN accepted[f][h] + 1 ELSE accepted[f][h],
                       IF Settles(f, h, out) THEN settled[f][h] + 1 ELSE settled[f][h],
                       earned[f][h] + m,
                       IF Granted(out) /\ home[h][f].state = "Banned"
                       THEN afterBan[f][h] + 1 ELSE afterBan[f][h])
           /\ \A x, y \in Provider : ~ (x = f /\ y = h) => SameRecord(x, y)
<1> DEFINE acc == IF Granted(out) THEN accepted[f][h] + 1 ELSE accepted[f][h]
           set == IF Settles(f, h, out) THEN settled[f][h] + 1 ELSE settled[f][h]
           ear == earned[f][h] + m
           aft == IF Granted(out) /\ home[h][f].state = "Banned"
                  THEN afterBan[f][h] + 1 ELSE afterBan[f][h]
<1>0. /\ accepted \in [Provider -> [Provider -> Nat]]
      /\ settled \in [Provider -> [Provider -> Nat]]
      /\ earned \in [Provider -> [Provider -> Nat]]
      /\ afterBan \in [Provider -> [Provider -> Nat]]
    BY DEF AInv, HistoryType
<1>1. acc \in Nat /\ set \in Nat /\ ear \in Nat /\ aft \in Nat
    <2>1. /\ accepted[f][h] \in Nat /\ settled[f][h] \in Nat /\ earned[f][h] \in Nat
          /\ afterBan[f][h] \in Nat
        BY <1>0
    <2> QED
        BY <2>1
<1>2. /\ accepted' = [accepted EXCEPT ![f][h] = acc]
      /\ settled' = [settled EXCEPT ![f][h] = set]
      /\ earned' = [earned EXCEPT ![f][h] = ear]
      /\ afterBan' = [afterBan EXCEPT ![f][h] = aft]
    BY DEF AuditCheck
<1> HIDE DEF acc, set, ear, aft
<1>3. HistoryType'
    BY <1>0, <1>1, <1>2, WriteRecord DEF HistoryType
<1>4. Recorded(f, h, acc, set, ear, aft)
    BY <1>0, <1>1, <1>2, WriteRecord DEF Recorded
<1>5. \A x, y \in Provider : ~ (x = f /\ y = h) => SameRecord(x, y)
    BY <1>0, <1>1, <1>2, WriteRecord DEF SameRecord, Recorded
<1> QED
    BY <1>3, <1>4, <1>5 DEF acc, set, ear, aft

\* A check changes no boxes but those of its pair.
LEMMA OtherBoxes ==
    ASSUME TypeOK, NEW f \in Provider, NEW h \in Provider, NEW e, NEW out,
           sla_check(f, h, e, out), NEW x \in Provider, NEW y \in Provider, ~ (x = f /\ y = h)
    PROVE  fwd'[x][y] = fwd[x][y] /\ home'[y][x] = home[y][x]
<1>1. CASE NewSLA(f, h, e, out)
    BY <1>1 DEF NewSLA, handshake, TypeOK
<1>2. CASE CountPacket(f, h, out)
    BY <1>2 DEF CountPacket, TypeOK
<1>3. CASE Settle(f, h, e, out)
    <2>1. home'[y][x] = home[y][x]
        BY <1>3 DEF Settle, pay, TypeOK
    <2>2. \E new : fwd' = [fwd EXCEPT ![f][h] = new]
        BY <1>3 DEF Settle
    <2>3. fwd'[x][y] = fwd[x][y]
        BY <2>2 DEF TypeOK
    <2> QED
        BY <2>1, <2>3
<1>4. CASE RefusePacket(f, h, out)
    BY <1>4 DEF RefusePacket
<1> QED
    BY <1>1, <1>2, <1>3, <1>4 DEF sla_check

\* An audited check, seen from any pair.
LEMMA CheckBooks ==
    ASSUME AInv, NEW f \in Provider, NEW h \in Provider, NEW e, NEW out,
           AuditCheck(f, h, e, out)
    PROVE  HistoryType' /\ \A x, y \in Provider : BookStep(x, y)
<1>0. TypeOK /\ sla_check(f, h, e, out)
    BY DEF AInv, IInv, AuditCheck
<1>a. /\ fwd \in [Provider -> [Provider -> SLAEntry]]
      /\ home \in [Provider -> [Provider -> SLAEntry]]
      /\ funds[h] \in Nat
      /\ accepted[f][h] \in Nat /\ settled[f][h] \in Nat /\ earned[f][h] \in Nat
      /\ afterBan[f][h] \in Nat
    BY <1>0 DEF TypeOK, AInv, HistoryType
<1>b. SUFFICES ASSUME NEW m \in Nat, m = funds[h] - funds'[h]
               PROVE  BookStep(f, h)
    <2>1. funds[h] - funds'[h] \in Nat
        <3>1. CASE funds' = funds
            BY <1>a, <3>1
        <3>2. CASE Settle(f, h, e, out)
            BY <3>2, SettleMoves
        <3> QED
            BY <1>0, <3>1, <3>2 DEF sla_check, NewSLA, CountPacket, RefusePacket
    <2>2. HistoryType'
        BY <2>1, CheckRecords
    <2>3. ASSUME NEW x \in Provider, NEW y \in Provider, ~ (x = f /\ y = h)
          PROVE  Untouched(x, y)
        BY <1>0, <2>1, <2>3, CheckRecords, OtherBoxes DEF Untouched
    <2>4. BookStep(f, h)
        BY <1>b, <2>1
    <2> QED
        BY <2>2, <2>3, <2>4 DEF BookStep
<1> DEFINE acc == IF Granted(out) THEN accepted[f][h] + 1 ELSE accepted[f][h]
           set == IF Settles(f, h, out) THEN settled[f][h] + 1 ELSE settled[f][h]
           ear == earned[f][h] + m
           aft == IF Granted(out) /\ home[h][f].state = "Banned"
                  THEN afterBan[f][h] + 1 ELSE afterBan[f][h]
<1>c. Recorded(f, h, acc, set, ear, aft)
    BY <1>b, CheckRecords
<1>1. CASE NewSLA(f, h, e, out)
    <2>1. /\ ~ Exists(fwd[f][h]) /\ AcceptsCaller(f, h, e) /\ ~ Exists(home[h][f])
          /\ fwd'[f][h] = Negotiated(f, h) /\ m = 0
          /\ out = IF Compatible(f, h) THEN "Active" ELSE "Rejected"
        BY <1>a, <1>b, <1>1 DEF NewSLA, handshake, Negotiated
    <2>2. /\ acc = IF Compatible(f, h) THEN accepted[f][h] + 1 ELSE accepted[f][h]
          /\ set = settled[f][h] /\ aft = afterBan[f][h]
        BY <2>1 DEF Granted, Settles, Active, Exists
    <2>3. ear = earned[f][h]
        BY <1>a, <2>1
    <2> HIDE DEF acc, set, ear, aft
    <2>4. Opened(f, h)
        BY <1>c, <2>1, <2>2, <2>3 DEF Opened
    <2> QED
        BY <2>4 DEF BookStep
<1>2. CASE CountPacket(f, h, out)
    <2>1. /\ Active(fwd[f][h]) /\ fwd[f][h].count # fwd[f][h].threshold
          /\ fwd'[f][h] = Rewritten(fwd[f][h], "Active", fwd[f][h].count + 1)
          /\ home' = home /\ m = 0 /\ out = "Accept"
        BY <1>a, <1>b, <1>2 DEF CountPacket
    <2>2. /\ acc = accepted[f][h] + 1 /\ set = settled[f][h]
          /\ aft = IF home[h][f].state = "Banned" THEN afterBan[f][h] + 1 ELSE afterBan[f][h]
        BY <2>1 DEF Granted, Settles
    <2>3. ear = earned[f][h]
        BY <1>a, <2>1
    <2> HIDE DEF acc, set, ear, aft
    <2>4. Ticked(f, h)
        BY <1>c, <2>1, <2>2, <2>3 DEF Ticked
    <2> QED
        BY <2>4 DEF BookStep
<1>3. CASE Settle(f, h, e, out)
    <2>1. /\ Active(fwd[f][h]) /\ fwd[f][h].count = fwd[f][h].threshold
          /\ Active(home'[h][f]) => Active(home[h][f])
        BY <1>a, <1>3 DEF Settle, pay, Due
    <2>2. /\ m = Amount(f, h) /\ MinExpected(f, h) \in Nat
          /\ m # 0 => m = fwd[f][h].price /\ Active(home[h][f])
          /\ m = fwd[f][h].price => m >= MinExpected(f, h)
          /\ Collectable => MinExpected(f, h) > 0
        BY <1>b, <1>3, SettleMoves
    <2>3. CASE m >= MinExpected(f, h)
        <3>1. fwd'[f][h] = Rewritten(fwd[f][h], "Active", 0) /\ out = "Accept"
            BY <1>a, <1>3, <2>2, <2>3 DEF Settle
        <3>2. acc = accepted[f][h] + 1 /\ set = settled[f][h] + 1
            BY <2>1, <3>1 DEF Granted, Settles
        <3>3. /\ Collectable => ear = earned[f][h] + fwd[f][h].price /\ Active(home[h][f])
              /\ ear \in Nat
            BY <1>a, <2>2, <2>3
        <3>4. aft \in Nat /\ (Active(home[h][f]) => aft = afterBan[f][h])
            BY <1>a DEF Active
        <3> HIDE DEF acc, set, ear, aft
        <3>5. Renewed(f, h)
            BY <1>c, <2>1, <3>1, <3>2, <3>3, <3>4 DEF Renewed
        <3> QED
            BY <3>5 DEF BookStep
    <2>4. CASE ~ (m >= MinExpected(f, h))
        <3>1. fwd'[f][h] = Rewritten(fwd[f][h], "Banned", fwd[f][h].count) /\ out = "Reject"
            BY <1>a, <1>3, <2>2, <2>4 DEF Settle
        <3>2. acc = accepted[f][h] /\ set = settled[f][h] /\ aft = afterBan[f][h]
            BY <3>1 DEF Granted, Settles
        <3>3. ear = earned[f][h]
            BY <1>a, <2>2, <2>4
        <3> HIDE DEF acc, set, ear, aft
        <3>4. Expelled(f, h)
            BY <1>c, <2>1, <3>1, <3>2, <3>3 DEF Expelled, SameRecord
        <3> QED
            BY <3>4 DEF BookStep
    <2> QED
        BY <2>3, <2>4
<1>4. CASE RefusePacket(f, h, out)
    <2>1. fwd' = fwd /\ home' = home /\ m = 0 /\ out = "Reject"
        BY <1>a, <1>b, <1>4 DEF RefusePacket
    <2>2. acc = accepted[f][h] /\ set = settled[f][h] /\ aft = afterBan[f][h]
        BY <2>1 DEF Granted, Settles
    <2>3. ear = earned[f][h]
        BY <1>a, <2>1
    <2> HIDE DEF acc, set, ear, aft
    <2>4. Untouched(f, h)
        BY <1>c, <2>1, <2>2, <2>3 DEF Untouched, SameRecord
    <2> QED
        BY <2>4 DEF BookStep
<1> QED
    BY <1>0, <1>1, <1>2, <1>3, <1>4 DEF sla_check

\* The catalog and the owner's operations other than delete leave the boxes alone.
LEMMA OwnerBooks ==
    ASSUME AInv, NEW p \in Provider, AuditOwner(p)
    PROVE  HistoryType' /\ \A x, y \in Provider : BookStep(x, y)
<1>1. UNCHANGED history /\ fwd' = fwd /\ home' = home
    BY DEF AuditOwner, CatalogNext, contractVars, create, fund, init
<1>2. HistoryType'
    BY <1>1 DEF AInv, HistoryType, history
<1>3. \A x, y \in Provider : Untouched(x, y)
    BY <1>1 DEF Untouched, SameRecord, Recorded, history
<1> QED
    BY <1>2, <1>3 DEF BookStep

\* delete drops the books of p with its forward boxes; of other forwarders it
\* only takes the home's side.
LEMMA DeleteBooks ==
    ASSUME AInv, NEW p \in Provider, AuditDelete(p)
    PROVE  HistoryType' /\ \A x, y \in Provider : BookStep(x, y)
<1>0. HistoryType /\ TypeOK /\ delete(p)
    BY DEF AInv, IInv, AuditDelete
<1>1. Zero[p] \in [Provider -> Nat] /\ \A y \in Provider : Zero[p][y] = 0
    BY DEF Zero
<1>2. HistoryType'
    BY <1>0, <1>1 DEF HistoryType, AuditDelete
<1>3. ASSUME NEW x \in Provider, NEW y \in Provider, x = p PROVE Dropped(x, y)
    BY <1>0, <1>1, <1>3, NoBoxType DEF Dropped, Recorded, delete, TypeOK, HistoryType, AuditDelete
<1>4. ASSUME NEW x \in Provider, NEW y \in Provider, x # p PROVE Untouched(x, y)
    <2>1. fwd'[x][y] = fwd[x][y] /\ home'[y][x] \in {home[y][x], NoBox}
        BY <1>0, <1>4, NoBoxType DEF delete, TypeOK
    <2>2. SameRecord(x, y)
        BY <1>0, <1>1, <1>4 DEF SameRecord, Recorded, HistoryType, AuditDelete
    <2> QED
        BY <2>1, <2>2, NoBoxType DEF Untouched
<1> QED
    BY <1>2, <1>3, <1>4 DEF BookStep

LEMMA DeleteForwardBooks ==
    ASSUME AInv, NEW f \in Provider, NEW h \in Provider, AuditDeleteForward(f, h)
    PROVE  HistoryType' /\ \A x, y \in Provider : BookStep(x, y)
<1>0. HistoryType /\ TypeOK /\ deleteSLA_forward(f, h)
    BY DEF AInv, IInv, AuditDeleteForward
<1>2. HistoryType'
    BY <1>0, WriteRecord DEF HistoryType, AuditDeleteForward
<1>3. Dropped(f, h)
    BY <1>0, WriteRecord DEF Dropped, Recorded, deleteSLA_forward, TypeOK, HistoryType,
       AuditDeleteForward
<1>4. ASSUME NEW x \in Provider, NEW y \in Provider, ~ (x = f /\ y = h) PROVE Untouched(x, y)
    <2>1. fwd'[x][y] = fwd[x][y] /\ home' = home
        BY <1>0, <1>4 DEF deleteSLA_forward, TypeOK
    <2>2. SameRecord(x, y)
        BY <1>0, <1>4, WriteRecord DEF SameRecord, Recorded, HistoryType, AuditDeleteForward
    <2> QED
        BY <2>1, <2>2 DEF Untouched
<1> QED
    BY <1>2, <1>3, <1>4 DEF BookStep

\* No operation of the home makes a box of its own active.
LEMMA HomeBooks ==
    ASSUME AInv, NEW f \in Provider, NEW h \in Provider, AuditHome(f, h)
    PROVE  HistoryType' /\ \A x, y \in Provider : BookStep(x, y)
<1>1. /\ UNCHANGED history /\ fwd' = fwd
      /\ \E new : home' = [home EXCEPT ![h][f] = new] /\ (Active(new) => Active(home[h][f]))
    BY NoBoxType DEF AuditHome, deleteSLA_home, receive_packet_from_forwarder, ban_home_function
<1>2. HistoryType'
    BY <1>1 DEF AInv, HistoryType, history
<1>3. ASSUME NEW x \in Provider, NEW y \in Provider PROVE Untouched(x, y)
    <2>1. Active(home'[y][x]) => Active(home[y][x])
        BY <1>1 DEF AInv, IInv, TypeOK
    <2> QED
        BY <1>1, <2>1 DEF Untouched, SameRecord, Recorded, history
<1> QED
    BY <1>2, <1>3 DEF BookStep

\* Every step keeps the books of every pair.
LEMMA AuditStep == AInv /\ [AuditNext]_auditVars => AInv'
<1> SUFFICES ASSUME AInv, [AuditNext]_auditVars PROVE AInv'
    OBVIOUS
<1>1. [Next]_vars
    BY AuditIsNext
<1>2. IInv' /\ ConfigKnown'
    BY <1>1, Inductive, ConfigKnownStep DEF AInv
<1>3. HistoryType' /\ \A x, y \in Provider : BookStep(x, y)
    <2>1. \A r \in Route : r[1] \in Provider /\ r[2] \in Provider
        BY ConstAssumption
    <2>2. CASE UNCHANGED auditVars
        <3>1. UNCHANGED <<fwd, home, history>>
            BY <2>2 DEF auditVars, vars
        <3>2. HistoryType'
            BY <3>1 DEF AInv, HistoryType, history
        <3>3. \A x, y \in Provider : Untouched(x, y)
            BY <3>1 DEF Untouched, SameRecord, Recorded, history
        <3> QED
            BY <3>2, <3>3 DEF BookStep
    <2>3. ASSUME NEW r \in Route,
                 \/ \E e \in {0, app[r[2]]}, out \in Verdict : AuditCheck(r[1], r[2], e, out)
                 \/ AuditDeleteForward(r[1], r[2])
                 \/ AuditHome(r[1], r[2])
          PROVE  HistoryType' /\ \A x, y \in Provider : BookStep(x, y)
        BY <2>1, <2>3, CheckBooks, DeleteForwardBooks, HomeBooks
    <2> QED
        BY <2>2, <2>3, OwnerBooks, DeleteBooks DEF AuditNext
<1>4. \A x, y \in Provider : PairBooks(x, y)'
    BY <1>3, BooksKept
<1> QED
    BY <1>2, <1>3, <1>4 DEF AInv

\* The audited contracts are the contracts: what is proved of Spec holds of them.
THEOREM AuditOnlyRecords == AuditSpec => Spec
<1>1. AuditInit => Init
    BY DEF AuditInit
<1> QED
    BY <1>1, AuditIsNext, PTL DEF AuditSpec, Spec

\* The books hold in every reachable state of the audited contracts.
THEOREM AuditInvariance == AuditSpec => []AInv
<1>1. AuditInit => AInv
    <2> SUFFICES ASSUME AuditInit PROVE AInv
        OBVIOUS
    <2>1. IInv
        BY InitInv DEF AuditInit
    <2>2. ConfigKnown
        BY DEF AuditInit, Init, ConfigKnown
    <2>3. HistoryType
        BY DEF AuditInit, HistoryType, Zero
    <2>4. ASSUME NEW f \in Provider, NEW h \in Provider PROVE PairBooks(f, h)
        <3>1. /\ accepted[f][h] = 0 /\ settled[f][h] = 0 /\ earned[f][h] = 0
              /\ afterBan[f][h] = 0
            BY DEF AuditInit, Zero
        <3>2. fwd[f][h] = NoBox
            BY NoBoxType DEF AuditInit, Init
        <3>3. fwd[f][h].state = "NoBox" /\ fwd[f][h].count = 0 /\ fwd[f][h].threshold = 0
            BY <3>2 DEF NoBox
        <3> QED
            BY <3>1, <3>3 DEF PairBooks, Books, Sound, Balanced, BanCounted
    <2> QED
        BY <2>1, <2>2, <2>3, <2>4 DEF AInv
<1> QED
    BY <1>1, AuditStep, PTL DEF AuditSpec

\* The books balance: packets granted, cycles closed and money earned always
\* agree with the counter in the box.  See Accounting.
THEOREM AccountingHolds == AuditSpec => []Accounting
<1>1. AInv => Accounting
    BY DEF AInv, PairBooks, Books, Balanced, Accounting
<1> QED
    BY <1>1, AuditInvariance, PTL

\* A forwarder never extends credit for more than one cycle: see CreditBound.
THEOREM CreditBoundHolds == AuditSpec => []CreditBound
<1>1. AInv => CreditBound
    <2> SUFFICES ASSUME AInv, NEW f \in Provider, NEW h \in Provider, Collectable,
                        fwd[f][h].state \in {"Active", "Banned"}
                 PROVE  fwd[f][h].price * accepted[f][h] <=
                            (earned[f][h] + fwd[f][h].price) * (fwd[f][h].threshold + 1)
        BY DEF CreditBound
    <2>1. /\ accepted[f][h] = settled[f][h] * (fwd[f][h].threshold + 1) + fwd[f][h].count + 1
          /\ earned[f][h] = settled[f][h] * fwd[f][h].price
          /\ fwd[f][h].count <= fwd[f][h].threshold
        BY DEF AInv, PairBooks, Books, Balanced, Sound
    <2>2. /\ fwd[f][h].price \in Nat /\ fwd[f][h].threshold \in Nat /\ fwd[f][h].count \in Nat
          /\ settled[f][h] \in Nat
        BY DEF AInv, IInv, TypeOK, SLAEntry, HistoryType
    <2> QED
        BY <2>1, <2>2, CreditArithmetic
<1> QED
    BY <1>1, AuditInvariance, PTL

\* After a ban by the home, the forwarder grants at most the rest of a cycle: see
\* BanTakesEffect.
THEOREM BanTakesEffectHolds == AuditSpec => []BanTakesEffect
<1>1. AInv => BanTakesEffect
    <2> SUFFICES ASSUME AInv, NEW f \in Provider, NEW h \in Provider, Collectable
                 PROVE  afterBan[f][h] <= fwd[f][h].threshold
        BY DEF BanTakesEffect
    <2>1. afterBan[f][h] <= fwd[f][h].count /\ fwd[f][h].count <= fwd[f][h].threshold
        BY DEF AInv, PairBooks, Books, BanCounted, Sound
    <2>2. /\ fwd[f][h].threshold \in Nat /\ fwd[f][h].count \in Nat /\ afterBan[f][h] \in Nat
        BY DEF AInv, IInv, TypeOK, SLAEntry, HistoryType
    <2> QED
        BY <2>1, <2>2
<1> QED
    BY <1>1, AuditInvariance, PTL
=============================================================================
