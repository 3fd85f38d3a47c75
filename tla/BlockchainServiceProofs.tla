---------------------- MODULE BlockchainServiceProofs ----------------------
(***************************************************************************)
(* The service hands out no permission that is older than MaxStale, for     *)
(* every number of threads and homes and all values of the time to live and *)
(* of the duration of a request.  The invariant says how old a permission   *)
(* can be at each place it passes through.                                  *)
(***************************************************************************)
EXTENDS BlockchainService, TLAPS

SInv == ServiceTypeOK /\ Decided

\* What asking the contract does to the states of the SLAs.
LEMMA AskEffect ==
    ASSUME sla \in [Provider -> [Provider -> States]],
           NEW h \in Provider, NEW out \in Answers, Me \in Provider,
           Ask(Me, h, out)
    PROVE  /\ sla' \in [Provider -> [Provider -> States]]
           /\ out \in {"Accept", "Active"} => sla'[Me][h] = "Active"
<1> USE DEF States, Answers
<1>1. CASE Negotiate(Me, h, out)
  BY <1>1 DEF Negotiate
<1>2. CASE Grant(Me, h, out)
  BY <1>2 DEF Grant
<1>3. CASE Expel(Me, h, out)
  BY <1>3 DEF Expel
<1>4. CASE Refuse(Me, h, out)
  BY <1>4 DEF Refuse
<1> QED
  BY <1>1, <1>2, <1>3, <1>4 DEF Ask

\* The first answer of the contract is stored, and types are kept.
LEMMA CallStep ==
    ASSUME SInv, NEW t \in Thread, CallContract(t)
    PROVE  SInv'
<1> USE ServiceAssumption DEF SInv, ServiceTypeOK
<1>1. netid[t] \in Home /\ netid[t] \in Provider
  OBVIOUS
<1>2. PICK out \in Answers :
         /\ Ask(Me, netid[t], out)
         /\ \/ /\ pc' = [pc EXCEPT ![t] = "store"]
               /\ data' = [data EXCEPT ![t] = out]
            \/ Decide(t, "Error")
  BY DEF CallContract
<1>3. sla' \in [Provider -> [Provider -> States]]
  BY <1>1, <1>2, AskEffect
<1>4. /\ pc' \in [Thread -> {"idle", "cache", "call", "store", "done"}]
      /\ data' \in [Thread -> Decisions]
      /\ Decided'
  BY <1>2 DEF Decide, Decided, Decisions
<1>5. inactive' \in [Home -> 0 .. MaxStale + 1]
  BY DEF CallContract, Observe, MaxStale
<1>6. UNCHANGED <<deployed, sc_app_id, sla_cache, cacheAge, netid, age>>
  BY DEF CallContract, cacheVars
<1> QED
  BY <1>3, <1>4, <1>5, <1>6

LEMMA SInvStep == SInv /\ [ServiceNext]_serviceVars => SInv'
<1> SUFFICES ASSUME SInv, [ServiceNext]_serviceVars
             PROVE  SInv'
  OBVIOUS
<1> USE ServiceAssumption
<1> USE DEF SInv, ServiceTypeOK, Decided, Decisions, States, Answers, MaxStale
<1>1. CASE initialize
  BY <1>1 DEF initialize, chainVars, cacheVars, threadVars
<1>2. ASSUME NEW t \in Thread, NEW h \in Home, check_sla(t, h) PROVE SInv'
  BY <1>2 DEF check_sla, chainVars, cacheVars
<1>3. ASSUME NEW t \in Thread, LookIntoCache(t) PROVE SInv'
  BY <1>3 DEF LookIntoCache, Decide, get_sla, chainVars, cacheVars
<1>4. ASSUME NEW t \in Thread, CallContract(t) PROVE SInv'
  BY <1>4, CallStep
<1>5. ASSUME NEW t \in Thread, CallFails(t) PROVE SInv'
  BY <1>5 DEF CallFails, Decide, chainVars, cacheVars
<1>6. ASSUME NEW t \in Thread, set_sla(t) PROVE SInv'
  BY <1>6 DEF set_sla, chainVars
<1>7. ASSUME NEW t \in Thread, Answer(t) PROVE SInv'
  BY <1>7 DEF Answer, chainVars, cacheVars
<1>8. ASSUME NEW S \in {{h} : h \in Home} \cup {Home}, invalidate_cache(S) PROVE SInv'
  BY <1>8 DEF invalidate_cache, chainVars, threadVars
<1>9. ASSUME NEW h \in Home, deleteSLA(h) PROVE SInv'
  BY <1>9 DEF deleteSLA, Drop, Observe, cacheVars, threadVars
<1>10. CASE delete
  BY <1>10 DEF delete, DropAll, Observe, cacheVars, threadVars
<1>11. CASE deploy
  BY <1>11 DEF deploy, cacheVars, threadVars
<1>12. CASE Tick
  <2>1. cacheAge' \in [Home -> 0 .. SLA_TTL]
    BY <1>12 DEF Tick, Older
  <2>2. age' \in [Thread -> 0 .. MaxRequest]
    BY <1>12 DEF Tick
  <2>3. inactive' \in [Home -> 0 .. MaxStale + 1]
    BY <1>12 DEF Tick, Older
  <2> QED
    BY <1>12, <2>1, <2>2, <2>3 DEF Tick
<1>13. CASE UNCHANGED serviceVars
  BY <1>13 DEF serviceVars, chainVars, cacheVars, threadVars
<1> QED
  BY <1>1, <1>2, <1>3, <1>4, <1>5, <1>6, <1>7, <1>8, <1>9, <1>10, <1>11, <1>12, <1>13
  DEF ServiceNext, ThreadStep

\* The ages are bounded along the way of a permission: one step of the service.
LEMMA RecentStep == SInv /\ Recent /\ [ServiceNext]_serviceVars => Recent'
<1> SUFFICES ASSUME SInv, Recent, [ServiceNext]_serviceVars
             PROVE  Recent'
  OBVIOUS
<1> USE ServiceAssumption
<1>0. /\ Me \in Provider
      /\ \A h \in Home : inactive[h] \in Nat /\ cacheAge[h] \in Nat /\ h \in Provider
      /\ \A t \in Thread : age[t] \in 0 .. MaxRequest /\ netid[t] \in Home
  BY DEF SInv, ServiceTypeOK, MaxStale
<1> USE DEF SInv, ServiceTypeOK, Recent, Permits
<1>1. CASE initialize
  BY <1>1 DEF initialize, chainVars, cacheVars, threadVars
<1>2. ASSUME NEW t \in Thread, NEW h \in Home, check_sla(t, h) PROVE Recent'
  BY <1>2 DEF check_sla, chainVars, cacheVars
<1>3. ASSUME NEW t \in Thread, LookIntoCache(t) PROVE Recent'
  <2>1. CASE Decide(t, "Error")
    BY <1>3, <2>1 DEF LookIntoCache, Decide, chainVars, cacheVars
  <2>2. CASE get_sla(netid[t]) # "None" /\ Decide(t, get_sla(netid[t]))
    <3>1. cacheAge[netid[t]] < SLA_TTL /\ data'[t] = sla_cache[netid[t]]
      BY <2>2 DEF get_sla, Decide
    <3>2. Permits(data'[t]) => inactive[netid[t]] <= (SLA_TTL - 1) + MaxRequest + age[t]
      BY <1>0, <3>1
    <3> QED
      BY <1>3, <2>2, <3>2 DEF LookIntoCache, Decide, chainVars, cacheVars
  <2>3. CASE pc' = [pc EXCEPT ![t] = "call"] /\ UNCHANGED data
    BY <1>3, <2>3 DEF LookIntoCache, chainVars, cacheVars
  <2> QED
    BY <1>3, <2>1, <2>2, <2>3 DEF LookIntoCache
<1>4. ASSUME NEW t \in Thread, CallContract(t) PROVE Recent'
  <2>1. PICK out \in Answers :
           /\ Ask(Me, netid[t], out)
           /\ \/ /\ pc' = [pc EXCEPT ![t] = "store"]
                 /\ data' = [data EXCEPT ![t] = out]
              \/ Decide(t, "Error")
    BY <1>4 DEF CallContract
  <2>2. out \in {"Accept", "Active"} => sla'[Me][netid[t]] = "Active"
    BY <1>0, <2>1, AskEffect
  <2>3. \A h \in Home : inactive'[h] = IF sla'[Me][h] = "Active" THEN 0 ELSE inactive[h]
    BY <1>4 DEF CallContract, Observe
  <2>4. UNCHANGED <<sla_cache, cacheAge, netid, age>>
    BY <1>4 DEF CallContract, cacheVars
  <2>5. \A h \in Home : inactive'[h] <= inactive[h]
    BY <1>0, <2>3
  <2>6. \A u \in Thread :
           pc'[u] = "store" /\ Permits(data'[u]) => inactive'[netid[u]] <= age[u]
    <3> SUFFICES ASSUME NEW u \in Thread, pc'[u] = "store", Permits(data'[u])
                 PROVE  inactive'[netid[u]] <= age[u]
      OBVIOUS
    <3>1. CASE u = t
      <4>1. data'[t] = out
        BY <2>1, <3>1 DEF Decide
      <4>2. inactive'[netid[t]] = 0
        BY <1>0, <2>2, <2>3, <3>1, <4>1
      <4> QED
        BY <1>0, <3>1, <4>2
    <3>2. CASE u # t
      <4>1. pc[u] = "store" /\ data'[u] = data[u]
        BY <2>1, <3>2 DEF Decide
      <4>2. inactive[netid[u]] <= age[u] /\ inactive'[netid[u]] <= inactive[netid[u]]
        BY <1>0, <2>5, <4>1
      <4>3. inactive'[netid[u]] \in Nat
        BY <1>0, <2>3
      <4> QED
        BY <1>0, <4>2, <4>3
    <3> QED
      BY <3>1, <3>2
  <2>7. \A u \in Thread :
           pc'[u] = "done" /\ Permits(data'[u]) => pc[u] = "done" /\ data'[u] = data[u]
    BY <2>1 DEF Decide
  <2>8. \A h \in Home : sla'[Me][h] = "Active" => inactive'[h] = 0
    BY <2>3
  <2>9. \A h \in Home : inactive'[h] \in Nat
    BY <1>0, <2>3
  <2> QED
    BY <1>0, <2>4, <2>5, <2>6, <2>7, <2>8, <2>9
<1>5. ASSUME NEW t \in Thread, CallFails(t) PROVE Recent'
  BY <1>5 DEF CallFails, Decide, chainVars, cacheVars
<1>6. ASSUME NEW t \in Thread, set_sla(t) PROVE Recent'
  <2>1. Permits(data[t]) => inactive[netid[t]] <= MaxRequest
    BY <1>0, <1>6 DEF set_sla
  <2>2. Permits(data[t]) => inactive[netid[t]] <= (SLA_TTL - 1) + MaxRequest + age[t]
    BY <1>0, <1>6 DEF set_sla
  <2> QED
    BY <1>0, <1>6, <2>1, <2>2 DEF set_sla, chainVars
<1>7. ASSUME NEW t \in Thread, Answer(t) PROVE Recent'
  BY <1>7 DEF Answer, chainVars, cacheVars
<1>8. ASSUME NEW S \in {{h} : h \in Home} \cup {Home}, invalidate_cache(S) PROVE Recent'
  BY <1>8 DEF invalidate_cache, chainVars, threadVars
<1>9. ASSUME NEW h \in Home, deleteSLA(h) PROVE Recent'
  <2>1. \A g \in Home : sla'[Me][g] = "Active" => sla[Me][g] = "Active"
    BY <1>0, <1>9 DEF deleteSLA, Drop
  <2>2. inactive' = inactive
    BY <1>9, <2>1 DEF deleteSLA, Observe
  <2> QED
    BY <1>9, <2>1, <2>2 DEF deleteSLA, cacheVars, threadVars
<1>10. CASE delete
  <2>1. \A g \in Home : sla'[Me][g] = "Active" => sla[Me][g] = "Active"
    BY <1>0, <1>10 DEF delete, DropAll
  <2>2. inactive' = inactive
    BY <1>10, <2>1 DEF delete, Observe
  <2> QED
    BY <1>10, <2>1, <2>2 DEF delete, cacheVars, threadVars
<1>11. CASE deploy
  BY <1>11 DEF deploy, cacheVars, threadVars
<1>12. CASE Tick
  <2>1. \A h \in Home : inactive'[h] \in Nat /\ inactive'[h] <= inactive[h] + 1
    BY <1>0, <1>12 DEF Tick, Older, MaxStale
  <2>2. \A h \in Home : sla'[Me][h] = "Active" => inactive'[h] = 0
    BY <1>12 DEF Tick
  <2>3. \A h \in Home :
           Permits(sla_cache'[h]) /\ cacheAge'[h] < SLA_TTL =>
               cacheAge'[h] = cacheAge[h] + 1 /\ cacheAge[h] < SLA_TTL
    BY <1>0, <1>12 DEF Tick, Older
  <2>4. \A t \in Thread : pc[t] # "idle" => age'[t] = age[t] + 1
    BY <1>12 DEF Tick
  <2>5. UNCHANGED <<sla_cache, pc, netid, data>>
    BY <1>12 DEF Tick
  <2>6. \A h \in Home :
           Permits(sla_cache'[h]) /\ cacheAge'[h] < SLA_TTL =>
               inactive'[h] <= cacheAge'[h] + MaxRequest
    BY <1>0, <2>1, <2>3, <2>5
  <2>7. ASSUME NEW t \in Thread, pc'[t] = "store", Permits(data'[t])
        PROVE  inactive'[netid'[t]] <= age'[t]
    <3>1. inactive[netid[t]] <= age[t] /\ pc[t] # "idle"
      BY <2>5, <2>7
    <3>2. netid[t] \in Home /\ age[t] \in Nat /\ inactive[netid[t]] \in Nat
      BY <1>0 DEF MaxStale
    <3> QED
      BY <2>1, <2>4, <2>5, <3>1, <3>2
  <2>8. ASSUME NEW t \in Thread, pc'[t] = "done", Permits(data'[t])
        PROVE  inactive'[netid'[t]] <= (SLA_TTL - 1) + MaxRequest + age'[t]
    <3>1. inactive[netid[t]] <= (SLA_TTL - 1) + MaxRequest + age[t] /\ pc[t] # "idle"
      BY <2>5, <2>8
    <3>2. netid[t] \in Home /\ age[t] \in Nat /\ inactive[netid[t]] \in Nat
      BY <1>0 DEF MaxStale
    <3> QED
      BY <2>1, <2>4, <2>5, <3>1, <3>2
  <2> QED
    BY <2>2, <2>6, <2>7, <2>8
<1>13. CASE UNCHANGED serviceVars
  BY <1>13 DEF serviceVars, chainVars, cacheVars, threadVars
<1> QED
  BY <1>1, <1>2, <1>3, <1>4, <1>5, <1>6, <1>7, <1>8, <1>9, <1>10, <1>11, <1>12, <1>13
  DEF ServiceNext, ThreadStep

LEMMA ServiceStart == ServiceInit => SInv /\ Recent
BY ServiceAssumption
DEF ServiceInit, DecisionInit, SInv, ServiceTypeOK, Decided, Recent, Permits, States, Answers,
    Decisions, MaxStale

LEMMA ServiceInvariant == ServiceSpec => [](SInv /\ Recent)
<1>1. SInv /\ Recent /\ [ServiceNext]_serviceVars => (SInv /\ Recent)'
  BY SInvStep, RecentStep
<1> QED
  BY <1>1, ServiceStart, PTL DEF ServiceSpec

\* The variables of the service keep their types.
THEOREM ServiceTypeCorrect == ServiceSpec => []ServiceTypeOK
<1>1. SInv /\ Recent => ServiceTypeOK
  BY DEF SInv
<1> QED
  BY <1>1, ServiceInvariant, PTL

\* check_sla never answers with a permission that the contract withdrew more than
\* MaxStale ago.
THEOREM PermissionIsRecentHolds == ServiceSpec => []PermissionIsRecent
<1>1. SInv /\ Recent => PermissionIsRecent
  <2> SUFFICES ASSUME SInv, Recent, NEW t \in Thread, pc[t] = "done", Permits(data[t])
               PROVE  inactive[netid[t]] <= MaxStale
    BY DEF PermissionIsRecent
  <2>1. inactive[netid[t]] <= (SLA_TTL - 1) + MaxRequest + age[t]
    BY DEF Recent
  <2>2. inactive[netid[t]] \in Nat /\ age[t] \in 0 .. MaxRequest
    BY ServiceAssumption DEF SInv, ServiceTypeOK, MaxStale
  <2> QED
    BY <2>1, <2>2, ServiceAssumption DEF MaxStale
<1> QED
  BY <1>1, ServiceInvariant, PTL
=============================================================================
