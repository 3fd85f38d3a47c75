--------------------------- MODULE ProviderLookup ---------------------------
(***************************************************************************)
(* How the blockchain service (blockchain_service.py) finds the contract of *)
(* a provider: a cache with a time to live in front of a local index of the *)
(* whole catalog, in front of the Algorand indexer, and a direct search     *)
(* when the index has no answer.  Requests run in the threads of Flask and  *)
(* of the executor; a lock protects one access to the cache or to the       *)
(* index, and nothing protects a whole lookup.                              *)
(*                                                                          *)
(* Time is counted in ticks.  A timestamp is represented by its age, up to  *)
(* the first value at which the test that reads it has expired.             *)
(***************************************************************************)
EXTENDS Catalog

CONSTANTS
    Thread,           \* threads of the service
    CATALOG_TTL,      \* life of a cache entry
    update_interval,  \* age after which the index is rebuilt
    MaxLookup         \* bound on the duration of a request, in ticks

ASSUME LookupAssumption ==
    /\ Provider # {}
    /\ CATALOG_TTL \in Nat \ {0}
    /\ update_interval \in Nat
    /\ MaxLookup \in Nat

VARIABLES
    cache,        \* cache[p]: endpoint in catalog_cache, 0 when there is none
    cacheAge,     \* cacheAge[p]: the time since it was put there
    index,        \* catalog_index.index, 0 for a provider it does not list
    indexAge,     \* age of catalog_index.last_update
    initialized,  \* CONFIG['initialized']
    pc,           \* pc[t]: where thread t is
    kind,         \* kind[t]: the request that it works on
    netid,        \* netid[t]: the provider that it looks for
    data,         \* data[t]: the endpoint that it found
    snap,         \* snap[t]: the answer of the indexer that it holds
    age,          \* age[t]: the time since its request began
    absent,       \* history: absent[t], the provider was missing from the
                  \* catalog at some time since the request began
    unlisted,     \* history: unlisted[p][a] is the time since the catalog
                  \* listed endpoint a for p, 0 while it does
    updateFailed  \* history: an update of the index has failed

cacheVars == <<cache, cacheAge>>
indexVars == <<index, indexAge>>
historyVars == <<absent, unlisted, updateFailed>>
lookupVars == <<entry, cacheVars, indexVars, initialized, pc, kind, netid, data, snap, age,
                historyVars>>
-----------------------------------------------------------------------------
\* The time after which an endpoint that left the catalog must not be used any
\* more: the life of the cache, the life of the index, and the time that three
\* requests may take, one to store the index, one to copy it into the cache and
\* one to use it.
MaxStale == (CATALOG_TTL - 1) + update_interval + 3 * MaxLookup

Endpoint == 1 .. MaxApps

Pc == {"idle", "cache", "index", "get", "recheck", "query", "store", "reget",
       "direct", "save", "found", "missing", "failed"}

Nowhere == [p \in Provider |-> 0]

LookupTypeOK ==
    /\ CatalogTypeOK
    /\ cache \in [Provider -> AppId]
    /\ cacheAge \in [Provider -> 0 .. CATALOG_TTL]
    /\ index \in [Provider -> AppId]
    /\ indexAge \in 0 .. update_interval + 1
    /\ initialized \in BOOLEAN
    /\ pc \in [Thread -> Pc]
    /\ kind \in [Thread -> {"find", "list", "init"}]
    /\ netid \in [Thread -> Provider]
    /\ data \in [Thread -> AppId]
    /\ snap \in [Thread -> [Provider -> AppId]]
    /\ age \in [Thread -> 0 .. MaxLookup]
    /\ absent \in [Thread -> BOOLEAN]
    /\ unlisted \in [Provider -> [Endpoint -> 0 .. MaxStale + 1]]
    /\ updateFailed \in BOOLEAN

\* last_update = 0: an index that was never built is out of date.
LookupInit ==
    /\ CatalogInit
    /\ cache = Nowhere
    /\ cacheAge = [p \in Provider |-> 0]
    /\ index = Nowhere
    /\ indexAge = update_interval + 1
    /\ initialized = FALSE
    /\ pc = [t \in Thread |-> "idle"]
    /\ kind = [t \in Thread |-> "find"]
    /\ netid = [t \in Thread |-> CHOOSE p \in Provider : TRUE]
    /\ data = [t \in Thread |-> 0]
    /\ snap = [t \in Thread |-> Nowhere]
    /\ age = [t \in Thread |-> 0]
    /\ absent = [t \in Thread |-> FALSE]
    /\ unlisted = [p \in Provider |-> [a \in Endpoint |-> MaxStale + 1]]
    /\ updateFailed = FALSE

\* What the indexer answers.  An account that only opted in has an empty NetID
\* and is skipped; NetID and endpoint are written and deleted together.
Listing == [p \in Provider |-> entry[p].endpoint]
-----------------------------------------------------------------------------
(* CacheManager and CatalogIndex.                                          *)

Goto(t, l) == pc' = [pc EXCEPT ![t] = l]

\* Go to hit with endpoint a, or to miss when a is 0, which stands for None.
GotoWith(t, a, hit, miss) ==
    /\ pc' = [pc EXCEPT ![t] = IF a # 0 THEN hit ELSE miss]
    /\ data' = [data EXCEPT ![t] = a]

\* Mutant of get_catalog: expired entries are returned.
get_catalog_Expired(p) == cache[p]

get_catalog(p) == IF cacheAge[p] < CATALOG_TTL THEN cache[p] ELSE 0

\* needs_update reads last_update without the lock.
needs_update == indexAge > update_interval

\* build_index: the query, an exception of which is logged and ignored ...
build_index_query(t) ==
    /\ pc[t] = "query"
    /\ \/ /\ snap' = [snap EXCEPT ![t] = Listing]
          /\ Goto(t, "store")
          /\ UNCHANGED updateFailed
       \/ /\ Goto(t, "reget")
          /\ updateFailed' = TRUE
          /\ UNCHANGED snap
    /\ UNCHANGED <<entry, cacheVars, indexVars, initialized, kind, netid, data, age, absent,
                   unlisted>>

\* ... and the assignment of the new index, which is timestamped now.
build_index_store(t) ==
    /\ pc[t] = "store"
    /\ index' = snap[t]
    /\ indexAge' = 0
    /\ snap' = [snap EXCEPT ![t] = Nowhere]
    /\ Goto(t, "reget")
    /\ UNCHANGED <<entry, cacheVars, initialized, kind, netid, data, age, historyVars>>
-----------------------------------------------------------------------------
(* The requests.                                                           *)

Start(t, k, p, l) ==
    /\ pc[t] = "idle"
    /\ kind' = [kind EXCEPT ![t] = k]
    /\ netid' = [netid EXCEPT ![t] = p]
    /\ absent' = [absent EXCEPT ![t] = (entry[p].endpoint = 0)]
    /\ Goto(t, l)
    /\ UNCHANGED <<entry, cacheVars, indexVars, data, snap, age, unlisted, updateFailed>>

\* check_sla and check_sla_batch begin with a lookup.
check_sla(t, p) ==
    /\ initialized
    /\ Start(t, "find", p, "cache")
    /\ UNCHANGED initialized

\* list_catalog rebuilds the index if that is due.
list_catalog(t) ==
    /\ initialized
    /\ Start(t, "list", netid[t], "recheck")
    /\ UNCHANGED initialized

\* initialize sets CONFIG and builds the index; it clears no cache.
initialize(t) ==
    /\ initialized' = TRUE
    /\ Start(t, "init", netid[t], "query")

\* find_provider_by_netid_sync, 1: the cache.
FindInCache(t) ==
    /\ pc[t] = "cache"
    /\ GotoWith(t, get_catalog(netid[t]), "found", "index")
    /\ UNCHANGED <<entry, cacheVars, indexVars, initialized, kind, netid, snap, age, historyVars>>

\* 2: the index, if it is fresh.
CheckIndex(t) ==
    /\ pc[t] = "index"
    /\ Goto(t, IF needs_update THEN "recheck" ELSE "get")
    /\ UNCHANGED <<entry, cacheVars, indexVars, initialized, kind, netid, data, snap, age,
                   historyVars>>

FindInIndex(t) ==
    /\ pc[t] = "get"
    /\ GotoWith(t, index[netid[t]], "save", "recheck")
    /\ UNCHANGED <<entry, cacheVars, indexVars, initialized, kind, netid, snap, age, historyVars>>

\* 3: rebuild the index if it is not; list_catalog does only this.
Recheck(t) ==
    /\ pc[t] = "recheck"
    /\ Goto(t, IF needs_update THEN "query"
               ELSE IF kind[t] = "find" THEN "direct" ELSE "found")
    /\ UNCHANGED <<entry, cacheVars, indexVars, initialized, kind, netid, data, snap, age,
                   historyVars>>

\* The new index is read, or the old one if build_index failed.
FindInNewIndex(t) ==
    /\ pc[t] = "reget"
    /\ IF kind[t] = "find"
       THEN GotoWith(t, index[netid[t]], "save", "direct")
       ELSE Goto(t, "found") /\ UNCHANGED data
    /\ UNCHANGED <<entry, cacheVars, indexVars, initialized, kind, netid, snap, age, historyVars>>

\* Mutant of find_provider_direct_search: the index has the last word.
direct_search_Index(t) ==
    /\ pc[t] = "direct"
    /\ GotoWith(t, index[netid[t]], "save", "missing")
    /\ UNCHANGED <<entry, cacheVars, indexVars, initialized, kind, netid, snap, age, historyVars>>

\* 4: find_provider_direct_search, which lets an exception of the query out.
find_provider_direct_search(t) ==
    /\ pc[t] = "direct"
    /\ \/ GotoWith(t, Listing[netid[t]], "save", "missing")
       \/ Goto(t, "failed") /\ UNCHANGED data
    /\ UNCHANGED <<entry, cacheVars, indexVars, initialized, kind, netid, snap, age, historyVars>>

\* set_catalog, before the provider is returned.
set_catalog(t) ==
    /\ pc[t] = "save"
    /\ cache' = [cache EXCEPT ![netid[t]] = data[t]]
    /\ cacheAge' = [cacheAge EXCEPT ![netid[t]] = 0]
    /\ Goto(t, "found")
    /\ UNCHANGED <<entry, indexVars, initialized, kind, netid, data, snap, age, historyVars>>

\* The route goes on with the provider, or reports the exception.
Finish(t) ==
    /\ pc[t] \in {"found", "missing", "failed"}
    /\ Goto(t, "idle")
    /\ kind' = [kind EXCEPT ![t] = "find"]
    /\ data' = [data EXCEPT ![t] = 0]
    /\ age' = [age EXCEPT ![t] = 0]
    /\ absent' = [absent EXCEPT ![t] = FALSE]
    /\ UNCHANGED <<entry, cacheVars, indexVars, initialized, netid, snap, unlisted, updateFailed>>

\* invalidate_cache with type "catalog", for one NetID or all, or "all".
invalidate_catalog(S) ==
    /\ cache' = [p \in Provider |-> IF p \in S THEN 0 ELSE cache[p]]
    /\ cacheAge' = [p \in Provider |-> IF p \in S THEN 0 ELSE cacheAge[p]]
    /\ UNCHANGED <<entry, indexVars, initialized, pc, kind, netid, data, snap, age, historyVars>>
-----------------------------------------------------------------------------
(* The catalog changes, and time passes.                                   *)

CatalogStep(p) ==
    /\ \/ opt_in(p)
       \/ close_out(p)
       \/ delete_endpoint(p)
       \/ \E a \in Endpoint : set_entry_provider(p, a)
    /\ unlisted' = [unlisted EXCEPT ![p] =
                       [a \in Endpoint |-> IF a = entry'[p].endpoint THEN 0 ELSE unlisted[p][a]]]
    /\ absent' = [t \in Thread |->
                     \/ absent[t]
                     \/ pc[t] # "idle" /\ netid[t] = p /\ entry'[p].endpoint = 0]
    /\ UNCHANGED <<cacheVars, indexVars, initialized, pc, kind, netid, data, snap, age, updateFailed>>

Older(n, bound) == IF n < bound THEN n + 1 ELSE n

Tick ==
    /\ \A t \in Thread : pc[t] # "idle" => age[t] < MaxLookup
    /\ cacheAge' = [p \in Provider |->
                       IF cache[p] = 0 THEN cacheAge[p] ELSE Older(cacheAge[p], CATALOG_TTL)]
    /\ indexAge' = Older(indexAge, update_interval + 1)
    /\ age' = [t \in Thread |-> IF pc[t] = "idle" THEN age[t] ELSE age[t] + 1]
    /\ unlisted' = [p \in Provider |->
                       [a \in Endpoint |->
                           IF entry[p].endpoint = a THEN 0
                           ELSE Older(unlisted[p][a], MaxStale + 1)]]
    /\ UNCHANGED <<entry, cache, index, initialized, pc, kind, netid, data, snap, absent,
                   updateFailed>>

LookupStep(t) ==
    \/ \E p \in Provider : check_sla(t, p)
    \/ list_catalog(t)
    \/ initialize(t)
    \/ FindInCache(t)
    \/ CheckIndex(t)
    \/ FindInIndex(t)
    \/ Recheck(t)
    \/ build_index_query(t)
    \/ build_index_store(t)
    \/ FindInNewIndex(t)
    \/ find_provider_direct_search(t)
    \/ set_catalog(t)
    \/ Finish(t)

LookupNext ==
    \/ \E t \in Thread : LookupStep(t)
    \/ \E S \in {{p} : p \in Provider} \cup {Provider} : invalidate_catalog(S)
    \/ \E p \in Provider : CatalogStep(p)
    \/ Tick

LookupSpec == LookupInit /\ [][LookupNext]_lookupVars
-----------------------------------------------------------------------------
\* As long as no update of the index has failed, every endpoint that
\* find_provider_by_netid_sync returns is in the catalog or left it at most MaxStale
\* ago, although the index is copied into the cache with a new timestamp, a slow thread may store an index that is older
\* than the one it replaces, and nobody tells the service that a provider has moved.
StaleBound ==
    ~ updateFailed =>
        \A t \in Thread :
            kind[t] = "find" /\ pc[t] = "found" => unlisted[netid[t]][data[t]] <= MaxStale

\* The service says that a provider is not in the catalog only if it was not,
\* at some moment of the request: an index that does not have it yet, or a slow
\* thread that stored an older one, is made up for by the direct search.
NotFoundIsReal ==
    \A t \in Thread : pc[t] = "missing" => absent[t]
=============================================================================
