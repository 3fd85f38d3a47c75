------------------------- MODULE BlockchainService -------------------------
(***************************************************************************)
(* The requests of the blockchain service (blockchain_service.py) that ask  *)
(* the SLA contract for a decision, with the cache of decisions in front of *)
(* it, on top of what the contracts promise.  The service acts for one      *)
(* provider, Me.  Meanwhile the operator of Me may delete an SLA or the     *)
(* whole contract and deploy another, and nobody tells the service.         *)
(*                                                                          *)
(* How a request finds the contract of the home is the subject of           *)
(* ProviderLookup: it yields the present contract, one that is gone, or an  *)
(* exception.                                                               *)
(*                                                                          *)
(* Time is counted in ticks.  A timestamp is represented by its age, up to  *)
(* the first value at which the test that reads it has expired.             *)
(***************************************************************************)
EXTENDS SLADecision, Naturals

CONSTANTS
    Me,         \* the provider whose account the service uses
    Home,       \* the providers whose devices its gateways hear
    Thread,     \* threads of the service
    SLA_TTL,    \* life of a cached decision, in ticks
    MaxRequest  \* bound on the duration of a request, in ticks

ASSUME ServiceAssumption ==
    /\ Me \in Provider
    /\ Home \subseteq Provider
    /\ Home # {}
    /\ SLA_TTL \in Nat \ {0}
    /\ MaxRequest \in Nat

VARIABLES
    deployed,   \* whether Me has a contract that was initialised
    sc_app_id,  \* CONFIG['sc_app_id']: "none" before /init, then "live" or, once
                \* that contract was deleted, "gone"
    sla_cache,  \* sla_cache[h]: the cached decision for h, "None" if there is none
    cacheAge,   \* cacheAge[h]: the time since it was cached
    pc,         \* pc[t]: where thread t is
    netid,      \* netid[t]: the home that its request is about
    data,       \* data[t]: the decision it has; "Error" stands for an exception,
                \* which the route reports as "Reject"
    age,        \* age[t]: the time since its request began
    inactive    \* history: inactive[h] is the time since the SLA with h in Me's
                \* contract was active, 0 while it is

chainVars == <<sla, deployed, inactive>>
cacheVars == <<sla_cache, cacheAge>>
threadVars == <<pc, netid, data, age>>
serviceVars == <<chainVars, sc_app_id, cacheVars, threadVars>>
-----------------------------------------------------------------------------
\* The time after which a decision must not be used any more: the life of the
\* cache, and the time of two requests, one to store and one to use it.
MaxStale == (SLA_TTL - 1) + 2 * MaxRequest

Decisions == Answers \cup {"None", "Error"}

ServiceTypeOK ==
    /\ sla \in [Provider -> [Provider -> States]]
    /\ deployed \in BOOLEAN
    /\ sc_app_id \in {"none", "live", "gone"}
    /\ sla_cache \in [Home -> Answers \cup {"None"}]
    /\ cacheAge \in [Home -> 0 .. SLA_TTL]
    /\ pc \in [Thread -> {"idle", "cache", "call", "store", "done"}]
    /\ netid \in [Thread -> Home]
    /\ data \in [Thread -> Decisions]
    /\ age \in [Thread -> 0 .. MaxRequest]
    /\ inactive \in [Home -> 0 .. MaxStale + 1]

ServiceInit ==
    /\ DecisionInit
    /\ deployed = TRUE
    /\ sc_app_id = "none"
    /\ sla_cache = [h \in Home |-> "None"]
    /\ cacheAge = [h \in Home |-> 0]
    /\ pc = [t \in Thread |-> "idle"]
    /\ netid = [t \in Thread |-> CHOOSE h \in Home : TRUE]
    /\ data = [t \in Thread |-> "None"]
    /\ age = [t \in Thread |-> 0]
    /\ inactive = [h \in Home |-> MaxStale + 1]

\* The history follows every step of the contract.
Observe ==
    inactive' = [h \in Home |-> IF sla'[Me][h] = "Active" THEN 0 ELSE inactive[h]]
-----------------------------------------------------------------------------
(* The routes.                                                             *)

\* initialize: the contract must answer get_appID_cat, and not with 0.  The
\* caches are kept.
initialize ==
    /\ deployed
    /\ sc_app_id' = "live"
    /\ UNCHANGED <<chainVars, cacheVars, threadVars>>

\* check_sla, and each of the parallel checks of check_sla_batch.
check_sla(t, h) ==
    /\ pc[t] = "idle"
    /\ sc_app_id # "none"
    /\ pc' = [pc EXCEPT ![t] = "cache"]
    /\ netid' = [netid EXCEPT ![t] = h]
    /\ UNCHANGED <<chainVars, sc_app_id, cacheVars, data, age>>

\* Mutant of get_sla: expired decisions are returned.
get_sla_Expired(h) == sla_cache[h]

get_sla(h) == IF cacheAge[h] < SLA_TTL THEN sla_cache[h] ELSE "None"

\* The request is answered with decision d.
Decide(t, d) ==
    /\ pc' = [pc EXCEPT ![t] = "done"]
    /\ data' = [data EXCEPT ![t] = d]

\* find_provider_by_netid_async raises; or it returns, and check_sla_sync looks
\* into the cache.
LookIntoCache(t) ==
    /\ pc[t] = "cache"
    /\ \/ Decide(t, "Error")
       \/ /\ get_sla(netid[t]) # "None"
          /\ Decide(t, get_sla(netid[t]))
       \/ /\ get_sla(netid[t]) = "None"
          /\ pc' = [pc EXCEPT ![t] = "call"]
          /\ UNCHANGED data
    /\ UNCHANGED <<chainVars, sc_app_id, cacheVars, netid, age>>

\* app_client_sc.call(sla.sla_check, ...): the transaction is confirmed, and its
\* result reaches the service unless the client raises while it waits for it.
CallContract(t) ==
    /\ pc[t] = "call"
    /\ sc_app_id = "live"
    /\ \E out \in Answers :
          /\ Ask(Me, netid[t], out)
          /\ \/ /\ pc' = [pc EXCEPT ![t] = "store"]
                /\ data' = [data EXCEPT ![t] = out]
             \/ Decide(t, "Error")
    /\ Observe
    /\ UNCHANGED <<deployed, sc_app_id, cacheVars, netid, age>>

\* The call raises and the ledger is unchanged: an Assert failed, the contract
\* is gone, the node does not answer.
CallFails(t) ==
    /\ pc[t] = "call"
    /\ Decide(t, "Error")
    /\ UNCHANGED <<chainVars, sc_app_id, cacheVars, netid, age>>

\* set_sla: any decision is cached, refusals too.
set_sla(t) ==
    /\ pc[t] = "store"
    /\ sla_cache' = [sla_cache EXCEPT ![netid[t]] = data[t]]
    /\ cacheAge' = [cacheAge EXCEPT ![netid[t]] = 0]
    /\ pc' = [pc EXCEPT ![t] = "done"]
    /\ UNCHANGED <<chainVars, sc_app_id, netid, data, age>>

\* The route answers the gateway bridge.
Answer(t) ==
    /\ pc[t] = "done"
    /\ pc' = [pc EXCEPT ![t] = "idle"]
    /\ data' = [data EXCEPT ![t] = "None"]
    /\ age' = [age EXCEPT ![t] = 0]
    /\ UNCHANGED <<chainVars, sc_app_id, cacheVars, netid>>

\* invalidate_cache with type "sla", for one NetID or all, or with type "all".
invalidate_cache(S) ==
    /\ sla_cache' = [h \in Home |-> IF h \in S THEN "None" ELSE sla_cache[h]]
    /\ cacheAge' = [h \in Home |-> IF h \in S THEN 0 ELSE cacheAge[h]]
    /\ UNCHANGED <<chainVars, sc_app_id, threadVars>>
-----------------------------------------------------------------------------
(* The operator of Me, and time.                                           *)

deleteSLA(h) ==
    /\ deployed
    /\ Drop(Me, h)
    /\ Observe
    /\ UNCHANGED <<deployed, sc_app_id, cacheVars, threadVars>>

\* delete: the service keeps the id of a contract that is gone.
delete ==
    /\ deployed
    /\ deployed' = FALSE
    /\ DropAll(Me)
    /\ sc_app_id' = IF sc_app_id = "live" THEN "gone" ELSE sc_app_id
    /\ Observe
    /\ UNCHANGED <<cacheVars, threadVars>>

\* create and init of another contract.
deploy ==
    /\ ~ deployed
    /\ deployed' = TRUE
    /\ UNCHANGED <<sla, inactive, sc_app_id, cacheVars, threadVars>>

Older(n, bound) == IF n < bound THEN n + 1 ELSE n

Tick ==
    /\ \A t \in Thread : pc[t] # "idle" => age[t] < MaxRequest
    /\ cacheAge' = [h \in Home |->
                       IF sla_cache[h] = "None" THEN cacheAge[h]
                       ELSE Older(cacheAge[h], SLA_TTL)]
    /\ age' = [t \in Thread |-> IF pc[t] = "idle" THEN age[t] ELSE age[t] + 1]
    /\ inactive' = [h \in Home |->
                       IF sla[Me][h] = "Active" THEN 0 ELSE Older(inactive[h], MaxStale + 1)]
    /\ UNCHANGED <<sla, deployed, sc_app_id, sla_cache, pc, netid, data>>

ThreadStep(t) ==
    \/ \E h \in Home : check_sla(t, h)
    \/ LookIntoCache(t)
    \/ CallContract(t)
    \/ CallFails(t)
    \/ set_sla(t)
    \/ Answer(t)

ServiceNext ==
    \/ initialize
    \/ \E t \in Thread : ThreadStep(t)
    \/ \E S \in {{h} : h \in Home} \cup {Home} : invalidate_cache(S)
    \/ \E h \in Home : deleteSLA(h)
    \/ delete
    \/ deploy
    \/ Tick

ServiceSpec == ServiceInit /\ [][ServiceNext]_serviceVars
-----------------------------------------------------------------------------
\* The decisions on which the gateway bridge forwards.
Permits(d) == d \in {"Accept", "Active"}

\* A permission that the service hands out was true at most MaxStale ago: the
\* SLA in Me's contract was active then, however it ended (a settlement that
\* brought no money, a deleted box, a deleted or redeployed contract), whatever
\* order slow threads store their decisions in, and although initialize and the
\* deletions leave the cache alone.
PermissionIsRecent ==
    \A t \in Thread :
        pc[t] = "done" /\ Permits(data[t]) => inactive[netid[t]] <= MaxStale

-----------------------------------------------------------------------------
(* The inductive invariant behind PermissionIsRecent.                      *)

\* A thread that stores a decision has one from the contract.
Decided == \A t \in Thread : pc[t] = "store" => data[t] \in Answers

\* How old a permission can be, by where it is: in a thread that got it from the
\* contract, in the cache, and in a thread that answers with it.
Recent ==
    /\ \A h \in Home : sla[Me][h] = "Active" => inactive[h] = 0
    /\ \A h \in Home :
          Permits(sla_cache[h]) /\ cacheAge[h] < SLA_TTL =>
              inactive[h] <= cacheAge[h] + MaxRequest
    /\ \A t \in Thread :
          pc[t] = "store" /\ Permits(data[t]) => inactive[netid[t]] <= age[t]
    /\ \A t \in Thread :
          pc[t] = "done" /\ Permits(data[t]) =>
              inactive[netid[t]] <= (SLA_TTL - 1) + MaxRequest + age[t]
=============================================================================
