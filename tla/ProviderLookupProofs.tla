------------------------ MODULE ProviderLookupProofs ------------------------
(***************************************************************************)
(* The lookup of a provider is right about absence, and bounded in its      *)
(* staleness as long as no update fails, for every number of threads        *)
(* and providers and all values of the intervals.                           *)
(***************************************************************************)
EXTENDS ProviderLookup, TLAPS

\* How long ago endpoint a left the catalog; 0 stands for no endpoint.
Since == [p \in Provider |-> [a \in AppId |-> IF a = 0 THEN 0 ELSE unlisted[p][a]]]

\* A lookup that has an endpoint to save or to return has one.
HasData ==
    \A t \in Thread :
        /\ pc[t] = "save" => data[t] # 0
        /\ pc[t] = "found" /\ kind[t] = "find" => data[t] # 0
        /\ pc[t] \in {"cache", "index", "get", "direct", "save", "missing", "failed"} =>
               kind[t] = "find"

LInv == LookupTypeOK /\ HasData

\* A thread whose provider is not listed at the moment knows it.
Noticed ==
    \A t \in Thread :
        /\ pc[t] # "idle" /\ entry[netid[t]].endpoint = 0 => absent[t]
        /\ pc[t] = "missing" => absent[t]

\* How old an endpoint can be, by where it is: in the catalog ...
ListedFresh == \A p \in Provider : Since[p][entry[p].endpoint] = 0

\* ... in the answer of the indexer ...
AnswerFresh ==
    \A t \in Thread, p \in Provider : pc[t] = "store" => Since[p][snap[t][p]] <= age[t]

\* ... in the index ...
IndexFresh ==
    indexAge <= update_interval =>
        \A p \in Provider : Since[p][index[p]] <= indexAge + MaxLookup

\* ... about to be read there ...
ReadFresh ==
    \A t \in Thread :
        pc[t] \in {"get", "reget"} =>
            Since[netid[t]][index[netid[t]]] <= update_interval + MaxLookup + age[t]

\* ... about to be saved ...
SaveFresh ==
    \A t \in Thread :
        pc[t] = "save" => Since[netid[t]][data[t]] <= update_interval + MaxLookup + age[t]

\* ... in the cache ...
CacheFresh ==
    \A p \in Provider :
        cacheAge[p] < CATALOG_TTL =>
            Since[p][cache[p]] <= cacheAge[p] + update_interval + 2 * MaxLookup

\* ... and returned.
FoundFresh ==
    \A t \in Thread :
        pc[t] = "found" /\ kind[t] = "find" =>
            Since[netid[t]][data[t]] <=
                (CATALOG_TTL - 1) + update_interval + 2 * MaxLookup + age[t]

Fresh ==
    /\ ListedFresh /\ AnswerFresh /\ IndexFresh /\ ReadFresh
    /\ SaveFresh /\ CacheFresh /\ FoundFresh
-----------------------------------------------------------------------------
\* What the indexer answers is well typed.
LEMMA ListingType == LookupTypeOK => Listing \in [Provider -> AppId]
BY DEF LookupTypeOK, CatalogTypeOK, Entry, Listing

LEMMA ZeroIsAppId == 0 \in AppId /\ Nowhere \in [Provider -> AppId] /\ \A a \in AppId : a # 0 => a \in Endpoint
BY MaxAppsAssumption DEF AppId, Endpoint, Nowhere

\* The catalog writes one entry.
LEMMA EntryWritten ==
    ASSUME CatalogTypeOK, NEW p \in Provider, CatalogStep(p)
    PROVE  \E e \in Entry : entry' = [entry EXCEPT ![p] = e]
<1>1. 0 \in AppId /\ \A a \in Endpoint : a \in AppId
  BY MaxAppsAssumption DEF AppId, Endpoint
<1>2. /\ [opted |-> TRUE, exists |-> TRUE, endpoint |-> 0] \in Entry
      /\ \A a \in Endpoint : [opted |-> TRUE, exists |-> TRUE, endpoint |-> a] \in Entry
      /\ NotOptedIn \in Entry
      /\ Unset \in Entry
  BY <1>1 DEF Entry, NotOptedIn, Unset
<1> QED
  BY <1>2 DEF CatalogStep, opt_in, close_out, delete_endpoint, set_entry_provider

\* build_index_query moves on with an answer of the indexer, or without one.
LEMMA QueryType ==
    ASSUME LookupTypeOK, NEW t \in Thread, build_index_query(t)
    PROVE  snap' \in [Thread -> [Provider -> AppId]] /\ pc' \in [Thread -> Pc]
<1>1. snap' = [snap EXCEPT ![t] = Listing] \/ snap' = snap
  BY DEF build_index_query
<1>2. pc' = [pc EXCEPT ![t] = "store"] \/ pc' = [pc EXCEPT ![t] = "reget"]
  BY DEF build_index_query, Goto
<1>3. Listing \in [Provider -> AppId] /\ snap \in [Thread -> [Provider -> AppId]]
  BY ListingType DEF LookupTypeOK
<1>4. pc \in [Thread -> Pc]
  BY DEF LookupTypeOK
<1>5. snap' \in [Thread -> [Provider -> AppId]]
  BY <1>1, <1>3
<1>6. pc' \in [Thread -> Pc]
  BY <1>2, <1>4 DEF Pc
<1> QED
  BY <1>5, <1>6

LEMMA LInvStep == LInv /\ [LookupNext]_lookupVars => LInv'
<1> SUFFICES ASSUME LInv, [LookupNext]_lookupVars
             PROVE  LInv'
  OBVIOUS
<1> USE LookupAssumption, ZeroIsAppId
<1> USE DEF LInv, LookupTypeOK, HasData, Pc
<1> USE DEF Goto, GotoWith, cacheVars, indexVars, historyVars
<1>1. ASSUME NEW t \in Thread, NEW p \in Provider, check_sla(t, p) PROVE LInv'
  BY <1>1 DEF check_sla, Start, CatalogTypeOK
<1>2. ASSUME NEW t \in Thread, list_catalog(t) PROVE LInv'
  BY <1>2 DEF list_catalog, Start, CatalogTypeOK
<1>3. ASSUME NEW t \in Thread, initialize(t) PROVE LInv'
  BY <1>3 DEF initialize, Start, CatalogTypeOK
<1>4. ASSUME NEW t \in Thread, FindInCache(t) PROVE LInv'
  BY <1>4 DEF FindInCache, get_catalog, CatalogTypeOK
<1>5. ASSUME NEW t \in Thread, CheckIndex(t) PROVE LInv'
  BY <1>5 DEF CheckIndex, CatalogTypeOK
<1>6. ASSUME NEW t \in Thread, FindInIndex(t) PROVE LInv'
  BY <1>6 DEF FindInIndex, CatalogTypeOK
<1>7. ASSUME NEW t \in Thread, Recheck(t) PROVE LInv'
  BY <1>7 DEF Recheck, CatalogTypeOK
<1>8. ASSUME NEW t \in Thread, build_index_query(t) PROVE LInv'
  <2>1. snap' \in [Thread -> [Provider -> AppId]] /\ pc' \in [Thread -> Pc]
    BY <1>8, QueryType
  <2>2. \A u \in Thread : pc'[u] = pc[u] \/ pc'[u] \in {"store", "reget"}
    BY <1>8 DEF build_index_query
  <2> QED
    BY <1>8, <2>1, <2>2 DEF build_index_query, CatalogTypeOK
<1>9. ASSUME NEW t \in Thread, build_index_store(t) PROVE LInv'
  BY <1>9 DEF build_index_store, CatalogTypeOK
<1>10. ASSUME NEW t \in Thread, FindInNewIndex(t) PROVE LInv'
  <2>1. CASE kind[t] = "find"
    <3>1. GotoWith(t, index[netid[t]], "save", "direct") /\ index[netid[t]] \in AppId
      BY <1>10, <2>1 DEF FindInNewIndex
    <3>2. UNCHANGED <<entry, cacheVars, indexVars, initialized, kind, netid, snap, age, historyVars>>
      BY <1>10 DEF FindInNewIndex
    <3>3. HasData'
      BY <2>1, <3>1, <3>2
    <3> QED
      BY <3>1, <3>2, <3>3 DEF CatalogTypeOK
  <2>2. CASE kind[t] # "find"
    BY <1>10, <2>2 DEF FindInNewIndex, CatalogTypeOK
  <2> QED
    BY <2>1, <2>2
<1>11. ASSUME NEW t \in Thread, find_provider_direct_search(t) PROVE LInv'
  <2> DEFINE a == Listing[netid[t]]
  <2>1. a \in AppId
    BY ListingType
  <2> HIDE DEF a
  <2>2. CASE GotoWith(t, a, "save", "missing")
    BY <1>11, <2>1, <2>2 DEF find_provider_direct_search, CatalogTypeOK
  <2>3. CASE Goto(t, "failed") /\ UNCHANGED data
    BY <1>11, <2>3 DEF find_provider_direct_search, CatalogTypeOK
  <2> QED
    BY <1>11, <2>2, <2>3 DEF find_provider_direct_search, a
<1>12. ASSUME NEW t \in Thread, set_catalog(t) PROVE LInv'
  BY <1>12 DEF set_catalog, CatalogTypeOK
<1>13. ASSUME NEW t \in Thread, Finish(t) PROVE LInv'
  BY <1>13 DEF Finish, CatalogTypeOK
<1>14. ASSUME NEW S \in {{p} : p \in Provider} \cup {Provider}, invalidate_catalog(S) PROVE LInv'
  BY <1>14 DEF invalidate_catalog, CatalogTypeOK
<1>15. ASSUME NEW p \in Provider, CatalogStep(p) PROVE LInv'
  <2>1. CatalogTypeOK'
    BY <1>15, EntryWritten DEF CatalogTypeOK
  <2>2. unlisted' \in [Provider -> [Endpoint -> 0 .. MaxStale + 1]]
    BY <1>15 DEF CatalogStep, MaxStale
  <2>3. absent' \in [Thread -> BOOLEAN]
    BY <1>15 DEF CatalogStep
  <2> QED
    BY <1>15, <2>1, <2>2, <2>3 DEF CatalogStep
<1>16. CASE Tick
  <2>1. cacheAge' \in [Provider -> 0 .. CATALOG_TTL] /\ indexAge' \in 0 .. update_interval + 1
    BY <1>16 DEF Tick, Older
  <2>2. age' \in [Thread -> 0 .. MaxLookup]
    BY <1>16 DEF Tick
  <2>3. unlisted' \in [Provider -> [Endpoint -> 0 .. MaxStale + 1]]
    BY <1>16 DEF Tick, Older, MaxStale
  <2> QED
    BY <1>16, <2>1, <2>2, <2>3 DEF Tick, CatalogTypeOK
<1>17. CASE UNCHANGED lookupVars
  BY <1>17 DEF lookupVars, CatalogTypeOK
<1> QED
  BY <1>1, <1>2, <1>3, <1>4, <1>5, <1>6, <1>7, <1>8, <1>9, <1>10, <1>11, <1>12, <1>13, <1>14,
     <1>15, <1>16, <1>17
  DEF LookupNext, LookupStep
-----------------------------------------------------------------------------
\* The lookup learns of an absence that it reports: one step of the service.
LEMMA NoticedStep == LInv /\ Noticed /\ [LookupNext]_lookupVars => Noticed'
<1> SUFFICES ASSUME LInv, Noticed, [LookupNext]_lookupVars
             PROVE  Noticed'
  OBVIOUS
<1> USE DEF LInv, LookupTypeOK, Noticed, Pc
<1> USE DEF Goto, GotoWith, cacheVars, indexVars, historyVars
<1>1. ASSUME NEW t \in Thread, NEW p \in Provider, check_sla(t, p) PROVE Noticed'
  BY <1>1 DEF check_sla, Start
<1>2. ASSUME NEW t \in Thread, list_catalog(t) PROVE Noticed'
  BY <1>2 DEF list_catalog, Start
<1>3. ASSUME NEW t \in Thread, initialize(t) PROVE Noticed'
  BY <1>3 DEF initialize, Start
<1>4. ASSUME NEW t \in Thread, FindInCache(t) PROVE Noticed'
  BY <1>4 DEF FindInCache
<1>5. ASSUME NEW t \in Thread, CheckIndex(t) PROVE Noticed'
  BY <1>5 DEF CheckIndex
<1>6. ASSUME NEW t \in Thread, FindInIndex(t) PROVE Noticed'
  BY <1>6 DEF FindInIndex
<1>7. ASSUME NEW t \in Thread, Recheck(t) PROVE Noticed'
  BY <1>7 DEF Recheck
<1>8. ASSUME NEW t \in Thread, build_index_query(t) PROVE Noticed'
  BY <1>8 DEF build_index_query
<1>9. ASSUME NEW t \in Thread, build_index_store(t) PROVE Noticed'
  BY <1>9 DEF build_index_store
<1>10. ASSUME NEW t \in Thread, FindInNewIndex(t) PROVE Noticed'
  BY <1>10 DEF FindInNewIndex
<1>11. ASSUME NEW t \in Thread, find_provider_direct_search(t) PROVE Noticed'
  <2>1. pc'[t] = "missing" => entry[netid[t]].endpoint = 0
    BY <1>11 DEF find_provider_direct_search, Listing
  <2>2. \A u \in Thread : u # t => pc'[u] = pc[u]
    BY <1>11 DEF find_provider_direct_search
  <2>3. UNCHANGED <<entry, netid, absent>> /\ pc[t] = "direct"
    BY <1>11 DEF find_provider_direct_search
  <2> QED
    BY <2>1, <2>2, <2>3
<1>12. ASSUME NEW t \in Thread, set_catalog(t) PROVE Noticed'
  BY <1>12 DEF set_catalog
<1>13. ASSUME NEW t \in Thread, Finish(t) PROVE Noticed'
  BY <1>13 DEF Finish
<1>14. ASSUME NEW S \in {{p} : p \in Provider} \cup {Provider}, invalidate_catalog(S) PROVE Noticed'
  BY <1>14 DEF invalidate_catalog
<1>15. ASSUME NEW p \in Provider, CatalogStep(p) PROVE Noticed'
  <2>1. \A q \in Provider : q # p => entry'[q] = entry[q]
    BY <1>15, EntryWritten DEF CatalogTypeOK
  <2>2. \A t \in Thread :
           absent'[t] = (absent[t] \/ (pc[t] # "idle" /\ netid[t] = p /\ entry'[p].endpoint = 0))
    BY <1>15 DEF CatalogStep
  <2>3. UNCHANGED <<pc, netid>>
    BY <1>15 DEF CatalogStep
  <2> QED
    BY <2>1, <2>2, <2>3
<1>16. CASE Tick
  BY <1>16 DEF Tick
<1>17. CASE UNCHANGED lookupVars
  BY <1>17 DEF lookupVars
<1> QED
  BY <1>1, <1>2, <1>3, <1>4, <1>5, <1>6, <1>7, <1>8, <1>9, <1>10, <1>11, <1>12, <1>13, <1>14,
     <1>15, <1>16, <1>17
  DEF LookupNext, LookupStep
-----------------------------------------------------------------------------
LEMMA SinceType ==
    LookupTypeOK => /\ Since \in [Provider -> [AppId -> Nat]]
                    /\ \A p \in Provider : Since[p][0] = 0
BY LookupAssumption, ZeroIsAppId DEF LookupTypeOK, Since, MaxStale

LEMMA SinceKept == UNCHANGED unlisted => Since' = Since
BY DEF Since

\* A change of the catalog makes no endpoint older.
LEMMA SinceCatalog ==
    ASSUME LookupTypeOK, NEW p \in Provider, CatalogStep(p)
    PROVE  /\ \A q \in Provider, a \in AppId :
                 Since'[q][a] \in Nat /\ Since'[q][a] <= Since[q][a]
           /\ Since'[p][entry'[p].endpoint] = 0
           /\ \A q \in Provider \ {p} : entry'[q] = entry[q] /\ Since'[q] = Since[q]
<1> USE LookupAssumption, ZeroIsAppId
<1>1. PICK e \in Entry : entry' = [entry EXCEPT ![p] = e]
  BY EntryWritten DEF LookupTypeOK
<1>2. entry'[p].endpoint = e.endpoint /\ e.endpoint \in AppId
  BY <1>1 DEF LookupTypeOK, CatalogTypeOK, Entry
<1>3. unlisted' = [unlisted EXCEPT ![p] =
                     [a \in Endpoint |-> IF a = e.endpoint THEN 0 ELSE unlisted[p][a]]]
  BY <1>2 DEF CatalogStep
<1>4. \A q \in Provider \ {p} : entry'[q] = entry[q]
  BY <1>1 DEF LookupTypeOK, CatalogTypeOK
<1>5. \A q \in Provider \ {p} : unlisted'[q] = unlisted[q]
  BY <1>3 DEF LookupTypeOK
<1>6. \A q \in Provider \ {p} : Since'[q] = Since[q]
  BY <1>5 DEF Since
<1>7. \A a \in Endpoint : unlisted'[p][a] = IF a = e.endpoint THEN 0 ELSE unlisted[p][a]
  BY <1>3 DEF LookupTypeOK
<1>8. \A a \in Endpoint : unlisted[p][a] \in Nat
  BY DEF LookupTypeOK, MaxStale
<1>9. \A a \in AppId : Since'[p][a] \in Nat /\ Since'[p][a] <= Since[p][a]
  BY <1>7, <1>8 DEF Since
<1>10. \A q \in Provider, a \in AppId : Since[q][a] \in Nat
  BY SinceType
<1>11. Since'[p][e.endpoint] = 0
  BY <1>2, <1>7 DEF Since
<1>12. \A q \in Provider, a \in AppId :
           Since'[q][a] \in Nat /\ Since'[q][a] <= Since[q][a]
  BY <1>6, <1>9, <1>10
<1> QED
  BY <1>2, <1>4, <1>6, <1>11, <1>12

\* A tick makes an endpoint one older, and one that is listed not.
LEMMA SinceTick ==
    ASSUME LookupTypeOK, Tick
    PROVE  /\ \A q \in Provider, a \in AppId :
                 Since'[q][a] \in Nat /\ Since'[q][a] <= Since[q][a] + 1
           /\ \A q \in Provider : Since'[q][entry'[q].endpoint] = 0
<1> USE LookupAssumption, ZeroIsAppId
<1>1. \A q \in Provider, a \in Endpoint : unlisted[q][a] \in 0 .. MaxStale + 1
  BY DEF LookupTypeOK
<1>2. \A q \in Provider, a \in Endpoint :
         unlisted'[q][a] = IF entry[q].endpoint = a THEN 0
                           ELSE Older(unlisted[q][a], MaxStale + 1)
  BY DEF Tick
<1>3. \A q \in Provider, a \in Endpoint :
         unlisted'[q][a] \in Nat /\ unlisted'[q][a] <= unlisted[q][a] + 1
  BY <1>1, <1>2 DEF Older, MaxStale
<1>4. \A q \in Provider, a \in AppId :
         Since'[q][a] \in Nat /\ Since'[q][a] <= Since[q][a] + 1
  BY <1>1, <1>3 DEF Since
<1>5. \A q \in Provider : entry[q].endpoint \in AppId
  BY DEF LookupTypeOK, CatalogTypeOK, Entry
<1>6. \A q \in Provider : entry' = entry /\ Since'[q][entry[q].endpoint] = 0
  BY <1>2, <1>5 DEF Since, Tick
<1> QED
  BY <1>4, <1>6
-----------------------------------------------------------------------------
\* A failed update is remembered.
LEMMA FailureRemembered == [LookupNext]_lookupVars /\ updateFailed => updateFailed'
BY DEF LookupNext, LookupStep, lookupVars, historyVars, check_sla, list_catalog, initialize, Start,
       FindInCache, CheckIndex, FindInIndex, Recheck, build_index_query, build_index_store,
       FindInNewIndex, find_provider_direct_search, set_catalog, Finish, invalidate_catalog,
       CatalogStep, Tick

\* One step of the service keeps every endpoint within the age of its place, if
\* it is not a failed update.
LEMMA FreshStep ==
    ASSUME LInv, Fresh, [LookupNext]_lookupVars, ~ updateFailed'
    PROVE  Fresh'
<1> USE LookupAssumption, ZeroIsAppId
<1> USE DEF ListedFresh, AnswerFresh, IndexFresh, ReadFresh, SaveFresh, CacheFresh, FoundFresh
<1>0. LookupTypeOK /\ Since \in [Provider -> [AppId -> Nat]] /\ \A p \in Provider : Since[p][0] = 0
  BY SinceType DEF LInv
<1>1. ASSUME NEW t \in Thread, NEW p \in Provider, check_sla(t, p) PROVE Fresh'
  BY <1>0, <1>1, SinceKept DEF check_sla, Start, Goto, Fresh, LookupTypeOK, cacheVars, indexVars
<1>2. ASSUME NEW t \in Thread, list_catalog(t) PROVE Fresh'
  BY <1>0, <1>2, SinceKept DEF list_catalog, Start, Goto, Fresh, LookupTypeOK, cacheVars, indexVars
<1>3. ASSUME NEW t \in Thread, initialize(t) PROVE Fresh'
  BY <1>0, <1>3, SinceKept DEF initialize, Start, Goto, Fresh, LookupTypeOK, cacheVars, indexVars
<1>4. ASSUME NEW t \in Thread, FindInCache(t) PROVE Fresh'
  <2> DEFINE a == get_catalog(netid[t])
  <2>1. a = 0 \/ (a = cache[netid[t]] /\ cacheAge[netid[t]] < CATALOG_TTL)
    BY DEF get_catalog
  <2>2. GotoWith(t, a, "found", "index")
    BY <1>4 DEF FindInCache
  <2> HIDE DEF a
  <2> QED
    BY <1>0, <1>4, <2>1, <2>2, SinceKept
    DEF FindInCache, GotoWith, Fresh, LookupTypeOK, cacheVars, indexVars, historyVars
<1>5. ASSUME NEW t \in Thread, CheckIndex(t) PROVE Fresh'
  BY <1>0, <1>5, SinceKept
  DEF CheckIndex, needs_update, Goto, Fresh, LookupTypeOK, cacheVars, indexVars, historyVars
<1>6. ASSUME NEW t \in Thread, FindInIndex(t) PROVE Fresh'
  BY <1>0, <1>6, SinceKept
  DEF FindInIndex, GotoWith, Fresh, LookupTypeOK, cacheVars, indexVars, historyVars
<1>7. ASSUME NEW t \in Thread, Recheck(t) PROVE Fresh'
  BY <1>0, <1>7, SinceKept
  DEF Recheck, Goto, Fresh, LookupTypeOK, cacheVars, indexVars, historyVars
<1>8. ASSUME NEW t \in Thread, build_index_query(t) PROVE Fresh'
  <2>1. Listing \in [Provider -> AppId] /\ \A p \in Provider : Since[p][Listing[p]] = 0
    BY <1>0, ListingType DEF Fresh, Listing
  <2>2. snap' = [snap EXCEPT ![t] = Listing] /\ Goto(t, "store")
    BY <1>8 DEF build_index_query
  <2> QED
    BY <1>0, <1>8, <2>1, <2>2, SinceKept
    DEF build_index_query, Goto, Fresh, LookupTypeOK, cacheVars, indexVars, historyVars
<1>9. ASSUME NEW t \in Thread, build_index_store(t) PROVE Fresh'
  <2>1. \A p \in Provider : Since[p][snap[t][p]] <= MaxLookup /\ Since[p][snap[t][p]] \in Nat
    BY <1>0, <1>9 DEF build_index_store, Fresh, LookupTypeOK
  <2> QED
    BY <1>0, <1>9, <2>1, SinceKept
    DEF build_index_store, Goto, Fresh, LookupTypeOK, cacheVars, historyVars
<1>10. ASSUME NEW t \in Thread, FindInNewIndex(t) PROVE Fresh'
  <2>1. CASE kind[t] = "find"
    <3>1. GotoWith(t, index[netid[t]], "save", "direct") /\ pc[t] = "reget"
      BY <1>10, <2>1 DEF FindInNewIndex
    <3> QED
      BY <1>0, <1>10, <3>1, SinceKept
      DEF FindInNewIndex, GotoWith, Fresh, LookupTypeOK, cacheVars, indexVars, historyVars
  <2>2. CASE kind[t] # "find"
    <3>1. pc' = [pc EXCEPT ![t] = "found"] /\ UNCHANGED data
      BY <1>10, <2>2 DEF FindInNewIndex, Goto
    <3> QED
      BY <1>0, <1>10, <2>2, <3>1, SinceKept
      DEF FindInNewIndex, Fresh, LookupTypeOK, cacheVars, indexVars, historyVars
  <2> QED
    BY <2>1, <2>2
<1>11. ASSUME NEW t \in Thread, find_provider_direct_search(t) PROVE Fresh'
  <2> DEFINE a == Listing[netid[t]]
  <2>1. a \in AppId /\ Since[netid[t]][a] = 0
    BY <1>0, ListingType DEF Fresh, Listing, LookupTypeOK
  <2> HIDE DEF a
  <2>2. CASE GotoWith(t, a, "save", "missing")
    BY <1>0, <1>11, <2>1, <2>2, SinceKept
    DEF find_provider_direct_search, GotoWith, Fresh, LookupTypeOK, cacheVars, indexVars, historyVars
  <2>3. CASE Goto(t, "failed") /\ UNCHANGED data
    BY <1>0, <1>11, <2>3, SinceKept
    DEF find_provider_direct_search, Goto, Fresh, LookupTypeOK, cacheVars, indexVars, historyVars
  <2> QED
    BY <1>11, <2>2, <2>3 DEF find_provider_direct_search, a
<1>12. ASSUME NEW t \in Thread, set_catalog(t) PROVE Fresh'
  <2>1. /\ Since' = Since
        /\ UNCHANGED <<entry, index, indexAge, kind, netid, data, snap, age>>
        /\ pc[t] = "save" /\ pc' = [pc EXCEPT ![t] = "found"]
    BY <1>12, SinceKept DEF set_catalog, Goto, indexVars, historyVars
  <2> HIDE DEF ListedFresh, AnswerFresh, IndexFresh, ReadFresh, SaveFresh, CacheFresh, FoundFresh
  <2>2. ListedFresh' /\ AnswerFresh' /\ IndexFresh' /\ ReadFresh' /\ SaveFresh'
    BY <1>0, <2>1
    DEF Fresh, LookupTypeOK, ListedFresh, AnswerFresh, IndexFresh, ReadFresh, SaveFresh
  <2>3. Since[netid[t]][data[t]] <= update_interval + MaxLookup + age[t]
    BY <2>1 DEF Fresh, SaveFresh
  <2>4. Since[netid[t]][data[t]] \in Nat /\ age[t] \in 0 .. MaxLookup
    BY <1>0 DEF LookupTypeOK
  <2>5. CacheFresh'
    BY <1>0, <1>12, <2>1, <2>3, <2>4 DEF set_catalog, Fresh, CacheFresh, LookupTypeOK
  <2>6. FoundFresh'
    <3>1. ASSUME NEW u \in Thread, pc'[u] = "found", kind'[u] = "find", u # t
          PROVE  pc[u] = "found" /\ kind[u] = "find"
      BY <1>0, <2>1, <3>1 DEF LookupTypeOK
    <3> QED
      BY <1>0, <2>1, <2>3, <2>4, <3>1 DEF Fresh, FoundFresh, LookupTypeOK
  <2> QED
    BY <2>2, <2>5, <2>6 DEF Fresh
<1>13. ASSUME NEW t \in Thread, Finish(t) PROVE Fresh'
  BY <1>0, <1>13, SinceKept
  DEF Finish, Goto, Fresh, LookupTypeOK, cacheVars, indexVars
<1>14. ASSUME NEW S \in {{p} : p \in Provider} \cup {Provider}, invalidate_catalog(S) PROVE Fresh'
  BY <1>0, <1>14, SinceKept
  DEF invalidate_catalog, Fresh, LookupTypeOK, indexVars, historyVars
<1>15. ASSUME NEW p \in Provider, CatalogStep(p) PROVE Fresh'
  <2>1. /\ \A q \in Provider, a \in AppId :
              Since'[q][a] \in Nat /\ Since'[q][a] <= Since[q][a]
        /\ Since'[p][entry'[p].endpoint] = 0
        /\ \A q \in Provider \ {p} : entry'[q] = entry[q] /\ Since'[q] = Since[q]
    BY <1>0, <1>15, SinceCatalog
  <2>2. UNCHANGED <<cacheVars, indexVars, initialized, pc, kind, netid, data, snap, age>>
    BY <1>15 DEF CatalogStep
  <2> HIDE DEF ListedFresh, AnswerFresh, IndexFresh, ReadFresh, SaveFresh, CacheFresh, FoundFresh
  <2>3. ListedFresh'
    BY <2>1 DEF Fresh, ListedFresh
  <2>4. AnswerFresh'
    BY <1>0, <2>1, <2>2 DEF Fresh, AnswerFresh, LookupTypeOK
  <2>5. IndexFresh'
    BY <1>0, <2>1, <2>2 DEF Fresh, IndexFresh, LookupTypeOK, indexVars
  <2>6. ReadFresh'
    BY <1>0, <2>1, <2>2 DEF Fresh, ReadFresh, LookupTypeOK, indexVars
  <2>7. SaveFresh'
    BY <1>0, <2>1, <2>2 DEF Fresh, SaveFresh, LookupTypeOK
  <2>8. CacheFresh'
    BY <1>0, <2>1, <2>2 DEF Fresh, CacheFresh, LookupTypeOK, cacheVars
  <2>9. FoundFresh'
    BY <1>0, <2>1, <2>2 DEF Fresh, FoundFresh, LookupTypeOK
  <2> QED
    BY <2>3, <2>4, <2>5, <2>6, <2>7, <2>8, <2>9 DEF Fresh
<1>16. CASE Tick
  <2>1. /\ \A q \in Provider, a \in AppId :
              Since'[q][a] \in Nat /\ Since'[q][a] <= Since[q][a] + 1
        /\ \A q \in Provider : Since'[q][entry'[q].endpoint] = 0
    BY <1>0, <1>16, SinceTick
  <2>2. UNCHANGED <<entry, cache, index, pc, kind, netid, data, snap>>
    BY <1>16 DEF Tick
  <2>3. \A t \in Thread : age[t] \in Nat /\ (pc[t] # "idle" => age'[t] = age[t] + 1)
    BY <1>0, <1>16 DEF Tick, LookupTypeOK
  <2> HIDE DEF ListedFresh, AnswerFresh, IndexFresh, ReadFresh, SaveFresh, CacheFresh, FoundFresh
  <2>4. ListedFresh'
    BY <2>1 DEF ListedFresh
  <2>5. ASSUME NEW q \in Provider, NEW a \in AppId, NEW t \in Thread, pc[t] # "idle",
               NEW b \in Nat, Since[q][a] <= b + age[t]
        PROVE  Since'[q][a] <= b + age'[t]
    <3>1. Since[q][a] \in Nat
      BY <1>0
    <3> QED
      BY <2>5, <2>1, <2>3, <3>1
  <2>6. AnswerFresh'
    <3> SUFFICES ASSUME NEW t \in Thread, NEW p \in Provider, pc[t] = "store"
                 PROVE  Since'[p][snap[t][p]] <= age'[t]
      BY <2>2 DEF AnswerFresh
    <3>1. Since[p][snap[t][p]] <= 0 + age[t] /\ snap[t][p] \in AppId
      BY <1>0, <2>3 DEF Fresh, AnswerFresh, LookupTypeOK
    <3>2. Since'[p][snap[t][p]] <= 0 + age'[t]
      BY <2>5, <3>1
    <3> QED
      BY <2>3, <3>2
  <2>7. IndexFresh'
    <3>1. indexAge' <= update_interval => indexAge' = indexAge + 1 /\ indexAge <= update_interval
      BY <1>0, <1>16 DEF Tick, Older, LookupTypeOK
    <3> QED
      BY <1>0, <2>1, <2>2, <3>1 DEF Fresh, IndexFresh, LookupTypeOK
  <2>8. ReadFresh'
    <3> DEFINE b == update_interval + MaxLookup
    <3> SUFFICES ASSUME NEW t \in Thread, pc[t] \in {"get", "reget"}
                 PROVE  Since'[netid[t]][index[netid[t]]] <= b + age'[t]
      BY <2>2 DEF ReadFresh
    <3>1. Since[netid[t]][index[netid[t]]] <= b + age[t]
      BY DEF Fresh, ReadFresh
    <3>2. b \in Nat /\ netid[t] \in Provider /\ index[netid[t]] \in AppId
      BY <1>0 DEF LookupTypeOK
    <3> HIDE DEF b
    <3> QED
      BY <2>5, <3>1, <3>2
  <2>9. SaveFresh'
    <3> DEFINE b == update_interval + MaxLookup
    <3> SUFFICES ASSUME NEW t \in Thread, pc[t] = "save"
                 PROVE  Since'[netid[t]][data[t]] <= b + age'[t]
      BY <2>2 DEF SaveFresh
    <3>1. Since[netid[t]][data[t]] <= b + age[t]
      BY DEF Fresh, SaveFresh
    <3>2. b \in Nat /\ netid[t] \in Provider /\ data[t] \in AppId
      BY <1>0 DEF LookupTypeOK
    <3> HIDE DEF b
    <3> QED
      BY <2>5, <3>1, <3>2
  <2>10. CacheFresh'
    <3>1. ASSUME NEW p \in Provider, cache[p] # 0, cacheAge'[p] < CATALOG_TTL
          PROVE  cacheAge'[p] = cacheAge[p] + 1 /\ cacheAge[p] < CATALOG_TTL
      BY <1>0, <1>16, <3>1 DEF Tick, Older, LookupTypeOK
    <3>2. \A p \in Provider : Since'[p][0] = 0
      BY DEF Since
    <3>3. \A p \in Provider : cacheAge'[p] \in Nat
      BY <1>0, <1>16 DEF Tick, Older, LookupTypeOK
    <3>4. ASSUME NEW p \in Provider, cache[p] # 0, cacheAge'[p] < CATALOG_TTL
          PROVE  Since'[p][cache[p]] <= cacheAge'[p] + update_interval + 2 * MaxLookup
      <4>1. Since[p][cache[p]] <= cacheAge[p] + update_interval + 2 * MaxLookup
        BY <3>1, <3>4 DEF Fresh, CacheFresh
      <4> QED
        BY <1>0, <2>1, <3>1, <3>4, <4>1 DEF LookupTypeOK
    <3> QED
      BY <1>0, <2>2, <3>2, <3>3, <3>4 DEF CacheFresh
  <2>11. FoundFresh'
    <3> DEFINE b == (CATALOG_TTL - 1) + update_interval + 2 * MaxLookup
    <3> SUFFICES ASSUME NEW t \in Thread, pc[t] = "found", kind[t] = "find"
                 PROVE  Since'[netid[t]][data[t]] <= b + age'[t]
      BY <2>2 DEF FoundFresh
    <3>1. Since[netid[t]][data[t]] <= b + age[t]
      BY DEF Fresh, FoundFresh
    <3>2. b \in Nat
      OBVIOUS
    <3>3. netid[t] \in Provider /\ data[t] \in AppId
      BY <1>0 DEF LookupTypeOK
    <3> HIDE DEF b
    <3> QED
      BY <2>5, <3>1, <3>2, <3>3
  <2> QED
    BY <2>4, <2>6, <2>7, <2>8, <2>9, <2>10, <2>11 DEF Fresh
<1>17. CASE UNCHANGED lookupVars
  BY <1>0, <1>17, SinceKept DEF lookupVars, Fresh, LookupTypeOK, cacheVars, indexVars, historyVars
<1> QED
  BY <1>1, <1>2, <1>3, <1>4, <1>5, <1>6, <1>7, <1>8, <1>9, <1>10, <1>11, <1>12, <1>13, <1>14,
     <1>15, <1>16, <1>17
  DEF LookupNext, LookupStep

-----------------------------------------------------------------------------
LEMMA LookupStarts == LookupInit => LInv /\ Noticed /\ Fresh
<1> SUFFICES ASSUME LookupInit
             PROVE  LInv /\ Noticed /\ Fresh
  OBVIOUS
<1> USE LookupAssumption, ZeroIsAppId
<1>1. CatalogTypeOK /\ \A p \in Provider : entry[p].endpoint = 0
  BY DEF LookupInit, CatalogInit, CatalogTypeOK, Entry, NotOptedIn
<1>2. (CHOOSE p \in Provider : TRUE) \in Provider
  OBVIOUS
<1>3. unlisted \in [Provider -> [Endpoint -> 0 .. MaxStale + 1]]
  BY DEF LookupInit, MaxStale
<1>4. LInv
  <2>1. HasData
    BY DEF LookupInit, HasData
  <2>2. netid \in [Thread -> Provider]
    BY <1>2 DEF LookupInit
  <2>3. cacheAge \in [Provider -> 0 .. CATALOG_TTL] /\ indexAge \in 0 .. update_interval + 1
    BY DEF LookupInit
  <2>4. pc \in [Thread -> Pc] /\ kind \in [Thread -> {"find", "list", "init"}]
    BY DEF LookupInit, Pc
  <2>5. age \in [Thread -> 0 .. MaxLookup] /\ absent \in [Thread -> BOOLEAN]
    BY DEF LookupInit
  <2>6. snap \in [Thread -> [Provider -> AppId]] /\ data \in [Thread -> AppId]
    BY DEF LookupInit
  <2>7. /\ cache \in [Provider -> AppId] /\ index \in [Provider -> AppId]
        /\ initialized \in BOOLEAN /\ updateFailed \in BOOLEAN
    BY DEF LookupInit
  <2> QED
    BY <1>1, <1>3, <2>1, <2>2, <2>3, <2>4, <2>5, <2>6, <2>7 DEF LInv, LookupTypeOK
<1>5. Noticed
  BY DEF LookupInit, Noticed
<1>6. Since \in [Provider -> [AppId -> Nat]] /\ \A p \in Provider : Since[p][0] = 0
  BY <1>4, SinceType DEF LInv
<1>7. Fresh
  BY <1>1, <1>6
  DEF LookupInit, Fresh, Nowhere, ListedFresh, AnswerFresh, IndexFresh, ReadFresh, SaveFresh,
      CacheFresh, FoundFresh
<1> QED
  BY <1>4, <1>5, <1>7

\* The state of the service keeps its type; in particular a timestamp is never
\* in the future and no thread is ever at a step with an endpoint it cannot have.
THEOREM LookupTypeCorrect == LookupSpec => []LookupTypeOK
<1>1. LInv => LookupTypeOK
  BY DEF LInv
<1> QED
  BY <1>1, LookupStarts, LInvStep, PTL DEF LookupSpec

\* Whatever the threads, the updates of the index, the failures of the indexer
\* and the changes of the catalog, find_provider_by_netid_sync gives up on a
\* provider only if it was not in the catalog at some moment of the request.
THEOREM NotFoundIsRealHolds == LookupSpec => []NotFoundIsReal
<1>1. Noticed => NotFoundIsReal
  BY DEF Noticed, NotFoundIsReal
<1> QED
  BY <1>1, LookupStarts, LInvStep, NoticedStep, PTL DEF LookupSpec

\* As long as no update of the index has failed, find_provider_by_netid_sync never
\* returns an endpoint that left the catalog more than MaxStale ago.
THEOREM StaleBoundHolds == LookupSpec => []StaleBound
<1> DEFINE FInv == ~ updateFailed => Fresh
<1>1. LInv /\ FInv => StaleBound
  <2> SUFFICES ASSUME LInv, Fresh, NEW t \in Thread, kind[t] = "find", pc[t] = "found"
               PROVE  unlisted[netid[t]][data[t]] <= MaxStale
    BY DEF StaleBound
  <2>1. /\ netid[t] \in Provider /\ data[t] \in AppId /\ data[t] # 0
        /\ age[t] \in Nat /\ age[t] <= MaxLookup
    BY LookupAssumption DEF LInv, LookupTypeOK, HasData
  <2>2. Since[netid[t]][data[t]] \in Nat
    BY <2>1, SinceType DEF LInv
  <2>3. Since[netid[t]][data[t]] <= MaxStale
    BY <2>1, <2>2, LookupAssumption DEF Fresh, FoundFresh, MaxStale
  <2>4. Since[netid[t]][data[t]] = unlisted[netid[t]][data[t]]
    BY <2>1 DEF Since
  <2> QED
    BY <2>3, <2>4
<1>2. LInv /\ FInv /\ [LookupNext]_lookupVars => FInv'
  BY FreshStep, FailureRemembered
<1>3. LookupInit => FInv
  BY LookupStarts
<1> QED
  BY <1>1, <1>2, <1>3, LookupStarts, LInvStep, PTL DEF LookupSpec
=============================================================================
